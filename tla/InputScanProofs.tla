-------------------------- MODULE InputScanProofs ---------------------------
(***************************************************************************)
(* What the Input, GuessInput and RealInput identifiers report, for every  *)
(* chain, every spending transaction, any order of identifiers and any     *)
(* blocks lost on the way.                                                 *)
(***************************************************************************)
EXTENDS InputScan, OutputIdentifyProofs

TxIn == [is_key : BOOLEAN, ring : Seq(Refs), k_image : PubKeys]

(* The entries of a map of known outputs, and the records of an input.     *)
KnownEntry == [pub_key : PubKeys, amount : Nat]

RecordOf(txin) ==
    [key_img : {txin.k_image}, amount : Nat, out_pub_key : PubKeys]

-----------------------------------------------------------------------------
(* The matches of one ring.                                                *)

KnownAt(txin, known, n) == {e \in known : e.pub_key = PubKey(txin.ring[n])}

RecordOfEntry(txin, e) == Input(txin.k_image, e.amount, e.pub_key)

(* The record of a match is typed.                                         *)
LEMMA EntryRecordType ==
    ASSUME NEW txin \in TxIn, NEW e \in KnownEntry
    PROVE  RecordOfEntry(txin, e) \in RecordOf(txin)
  BY DEF TxIn, KnownEntry, RecordOf, RecordOfEntry, Input

(* One more ring member.                                                   *)
MatchStep(txin, known, ms, n) ==
    IF KnownAt(txin, known, n) = {} THEN ms
    ELSE Append(ms, RecordOfEntry(
                        txin, CHOOSE e \in KnownAt(txin, known, n) : TRUE))

(* So is the list with one match more.                                     *)
LEMMA MatchStepType ==
    ASSUME NEW txin \in TxIn, NEW known \in SUBSET KnownEntry,
           NEW ms \in Seq(RecordOf(txin)), NEW n
    PROVE  MatchStep(txin, known, ms, n) \in Seq(RecordOf(txin))
<1> DEFINE e == CHOOSE e \in KnownAt(txin, known, n) : TRUE
<1>1. CASE KnownAt(txin, known, n) = {}
  BY <1>1 DEF MatchStep
<1>2. CASE KnownAt(txin, known, n) # {}
  <2>1. e \in KnownAt(txin, known, n)
    BY <1>2
  <2>2. e \in KnownEntry
    BY <2>1 DEF KnownAt
  <2>3. MatchStep(txin, known, ms, n) = Append(ms, RecordOfEntry(txin, e))
    BY <1>2 DEF MatchStep
  <2> HIDE DEF e
  <2> QED BY <2>2, <2>3, EntryRecordType
<1> QED BY <1>1, <1>2

(* MatchesUpTo goes from ring member to ring member.                       *)
LEMMA MatchesUnfold ==
    ASSUME NEW txin \in TxIn, NEW known \in SUBSET KnownEntry
    PROVE  /\ MatchesUpTo(txin, known)[0] = <<>>
           /\ \A n \in 1..Len(txin.ring) :
                 MatchesUpTo(txin, known)[n]
                    = MatchStep(txin, known, MatchesUpTo(txin, known)[n - 1], n)
<1> DEFINE N == Len(txin.ring)
           X == Seq(RecordOf(txin))
           step == [p \in X \X (1..N) |-> MatchStep(txin, known, p[1], p[2])]
           rec(h) == [n \in 0..N |-> IF n = 0 THEN <<>>
                                     ELSE MatchStep(txin, known, h[n - 1], n)]
<1>1. N \in Nat
  BY DEF TxIn
<1>2. <<>> \in X
  OBVIOUS
<1>3. step \in [X \X (1..N) -> X]
  <2> HIDE DEF X, N
  <2> QED BY MatchStepType DEF X
<1>4. \A ms \in X, n \in 1..N : step[<<ms, n>>] = MatchStep(txin, known, ms, n)
  OBVIOUS
<1> HIDE DEF N, X, step
<1>5. PICK f \in [0..N -> X] : Recursion(f, N, <<>>, step)
  BY <1>1, <1>2, <1>3, RecursionSolvable
<1>6. f = rec(f)
  <2>1. \A n \in 0..N : n # 0 => n - 1 \in 0..N /\ n \in 1..N
    BY <1>1
  <2>2. \A n \in 0..N : n # 0 =>
            step[<<f[n - 1], n>>] = MatchStep(txin, known, f[n - 1], n)
    BY <1>4, <2>1
  <2> QED BY <1>5, <2>2 DEF Recursion
<1> DEFINE g == CHOOSE h : h = rec(h)
<1>7. MatchesUpTo(txin, known) = g
  BY DEF MatchesUpTo, N, MatchStep, KnownAt, RecordOfEntry
<1>8. g = rec(g)
  <2> HIDE DEF rec
  <2> QED BY <1>6
<1> HIDE DEF g
<1>9. g[0] = <<>>
  BY <1>1, <1>8
<1>10. ASSUME NEW n \in 1..N
       PROVE  g[n] = MatchStep(txin, known, g[n - 1], n)
  <2>1. n \in 0..N /\ n # 0
    BY <1>1
  <2>2. rec(g)[n] = MatchStep(txin, known, g[n - 1], n)
    BY <2>1
  <2> HIDE DEF rec
  <2> QED BY <1>8, <2>2
<1> QED BY <1>7, <1>9, <1>10 DEF N

(* The records are of the ring members that are known, ...                 *)
MatchesTrue(txin, known, ms, n) ==
    \A l \in DOMAIN ms : \E m \in 1..n : \E e \in KnownAt(txin, known, m) :
        ms[l] = RecordOfEntry(txin, e)

(* ... and there is one for each of them.                                  *)
MatchesComplete(txin, known, ms, n) ==
    \A m \in 1..n : KnownAt(txin, known, m) # {} =>
        \E l \in DOMAIN ms : \E e \in KnownAt(txin, known, m) :
            ms[l] = RecordOfEntry(txin, e)

(* The matches of a ring: each is of a ring member that is known, and each *)
(* known ring member has one.                                              *)
LEMMA MatchesOfRingFacts ==
    ASSUME NEW txin \in TxIn, NEW known \in SUBSET KnownEntry
    PROVE  LET ms == MatchesOfRing(txin, known)
           IN  /\ ms \in Seq(RecordOf(txin))
               /\ MatchesTrue(txin, known, ms, Len(txin.ring))
               /\ MatchesComplete(txin, known, ms, Len(txin.ring))
<1> DEFINE N == Len(txin.ring)
           g == MatchesUpTo(txin, known)
           Good(n) == /\ g[n] \in Seq(RecordOf(txin))
                      /\ MatchesTrue(txin, known, g[n], n)
                      /\ MatchesComplete(txin, known, g[n], n)
           S == {n \in Nat : n <= N => Good(n)}
<1>1. N \in Nat
  BY DEF TxIn
<1>2. /\ g[0] = <<>>
      /\ \A n \in 1..N : g[n] = MatchStep(txin, known, g[n - 1], n)
  BY MatchesUnfold
<1> HIDE DEF g, N
<1>3. 0 \in S
  <2>1. Good(0)
    BY <1>2 DEF MatchesTrue, MatchesComplete
  <2> QED BY <2>1
<1>4. ASSUME NEW n \in Nat, n \in S
      PROVE  n + 1 \in S
  <2> DEFINE m == n + 1
  <2> SUFFICES ASSUME m <= N
               PROVE  Good(m)
    OBVIOUS
  <2>1. n <= N /\ m \in 1..N /\ m - 1 = n /\ m \in Nat
    BY <1>1
  <2>2. Good(n)
    BY <1>4, <2>1
  <2>3. 1..m = (1..n) \cup {m}
    OBVIOUS
  <2> HIDE DEF m
  <2>4. g[m] = MatchStep(txin, known, g[n], m)
    BY <1>2, <2>1
  <2>5. g[m] \in Seq(RecordOf(txin))
    BY <2>2, <2>4, MatchStepType
  <2>6. CASE KnownAt(txin, known, m) = {}
    <3>1. g[m] = g[n]
      BY <2>4, <2>6 DEF MatchStep
    <3>2. MatchesTrue(txin, known, g[m], m)
      BY <2>2, <2>3, <3>1 DEF MatchesTrue
    <3>3. MatchesComplete(txin, known, g[m], m)
      BY <2>2, <2>3, <2>6, <3>1 DEF MatchesComplete
    <3> QED BY <2>5, <3>2, <3>3
  <2>7. CASE KnownAt(txin, known, m) # {}
    <3>1. PICK e \in KnownAt(txin, known, m) :
              g[m] = Append(g[n], RecordOfEntry(txin, e))
      BY <2>4, <2>7 DEF MatchStep
    <3> DEFINE x == RecordOfEntry(txin, e)
    <3>2. x \in RecordOf(txin)
      BY EntryRecordType DEF KnownAt
    <3> HIDE DEF x
    <3>3. /\ \A l \in DOMAIN g[m] :
                (l \in DOMAIN g[n] /\ g[m][l] = g[n][l]) \/ g[m][l] = x
          /\ \A l \in DOMAIN g[n] : l \in DOMAIN g[m] /\ g[m][l] = g[n][l]
          /\ \E l \in DOMAIN g[m] : g[m][l] = x
      BY <2>2, <3>1, <3>2, AppendFacts DEF x
    <3>4. MatchesTrue(txin, known, g[m], m)
      BY <2>2, <2>3, <3>3 DEF MatchesTrue, x
    <3>5. MatchesComplete(txin, known, g[m], m)
      <4> SUFFICES ASSUME NEW l \in 1..m, KnownAt(txin, known, l) # {}
                   PROVE  \E a \in DOMAIN g[m] :
                             \E f \in KnownAt(txin, known, l) :
                                 g[m][a] = RecordOfEntry(txin, f)
        BY DEF MatchesComplete
      <4>1. CASE l = m
        BY <3>3, <4>1 DEF x
      <4>2. CASE l \in 1..n
        BY <2>2, <3>3, <4>2 DEF MatchesComplete
      <4> QED BY <2>3, <4>1, <4>2
    <3> QED BY <2>5, <3>4, <3>5
  <2> QED BY <2>6, <2>7
<1>5. N \in S
  <2> HIDE DEF S
  <2> QED BY <1>1, <1>3, <1>4, Induction
<1>6. Good(N)
  BY <1>1, <1>5
<1> QED BY <1>6 DEF MatchesOfRing, g, N

-----------------------------------------------------------------------------
(* What the constants give.                                                *)

(* A reference leads to an output of the chain.                            *)
LEMMA RefFacts ==
    ASSUME NEW ref \in Refs
    PROVE  /\ ref[1] \in DOMAIN Chain /\ Chain[ref[1]] \in Transaction
           /\ ref[2] \in DOMAIN Chain[ref[1]].vout
           /\ ref[1] \in 1..Len(Chain)
           /\ ref = <<ref[1], ref[2]>>
  BY CallAssumption DEF Refs

(* The parts of a spending transaction are typed, and every ring has a     *)
(* member.                                                                 *)
LEMMA SpendFacts ==
    ASSUME NEW t \in Spends
    PROVE  /\ t.out \in Transaction
           /\ t.vin \in Seq(TxIn) /\ Len(t.vin) \in Nat
           /\ DOMAIN t.vin = 1..Len(t.vin)
           /\ \A j \in DOMAIN t.vin :
                 /\ t.vin[j] \in TxIn
                 /\ t.vin[j].ring \in Seq(Refs) /\ Len(t.vin[j].ring) \in Nat
                 /\ DOMAIN t.vin[j].ring = 1..Len(t.vin[j].ring)
                 /\ \A n \in DOMAIN t.vin[j].ring : t.vin[j].ring[n] \in Refs
                 /\ t.vin[j].is_key => Len(t.vin[j].ring) >= 1
<1>1. t \in Spend
  BY SpendAssumption
<1>2. t.vin \in Seq(TxIn) /\ t.out \in Transaction
  BY <1>1 DEF Spend, TxIn
<1>3. ASSUME NEW j \in DOMAIN t.vin
      PROVE  /\ t.vin[j] \in TxIn
             /\ t.vin[j].ring \in Seq(Refs) /\ Len(t.vin[j].ring) \in Nat
             /\ DOMAIN t.vin[j].ring = 1..Len(t.vin[j].ring)
             /\ \A n \in DOMAIN t.vin[j].ring : t.vin[j].ring[n] \in Refs
             /\ t.vin[j].is_key => Len(t.vin[j].ring) >= 1
  <2>1. t.vin[j] \in TxIn
    BY <1>2
  <2>2. t.vin[j].ring \in Seq(Refs)
    BY <2>1 DEF TxIn
  <2>3. t.vin[j].is_key => \E n \in DOMAIN t.vin[j].ring : TRUE
    BY SpendAssumption
  <2> QED BY <2>1, <2>2, <2>3
<1> QED BY <1>2, <1>3

-----------------------------------------------------------------------------
(* The type of the state, with what the identifiers leave one another.     *)

Identifiers == {"output", "input", "null_input", "guess", "real"}

(* A record names a key image of the transaction.                          *)
InputRecord ==
    [key_img : {tx.vin[j].k_image : j \in DOMAIN tx.vin}, amount : Nat,
     out_pub_key : PubKeys]

FixedInv == searcher \in Searchers /\ tx \in Spends /\ order \in Orders

AccountInv == GoodAccount(initial) /\ Extends(initial, account)

CursorInv ==
    /\ turn \in 1..(Len(order) + 1)
    /\ height \in 0..Len(Chain)
    /\ status \in {"running", "done", "threw"}
    /\ matching \in BOOLEAN
    /\ k \in 1..(Len(tx.vin) + 1) /\ r \in Nat
    /\ k <= Len(tx.vin) => r \in 0..Len(tx.vin[k].ring)
    /\ k > Len(tx.vin) => r = 0
    /\ r > 0 => tx.vin[k].is_key

(* An identifier begins at the first input, and with an empty map.         *)
FreshInv ==
    /\ matching \/ known_outputs # {} =>
          turn <= Len(order) /\ order[turn] = "guess"
    /\ turn <= Len(order) /\ order[turn] \in {"output", "null_input"} =>
          k = 1 /\ r = 0

ResultsInv ==
    /\ known_outputs \subseteq KnownEntry
    /\ identified \in [{"input", "guess", "real"} -> Seq(InputRecord)]
    /\ total \in [{"input", "guess", "real"} -> Int]
    /\ outputs \in Seq(InfosOf(tx.out))

(* What Output found in a ring member's transaction t: the truth by acc,   *)
(* and all that was known when the call began.                             *)
GoodFound(infos, s, known, acc, t) ==
    /\ infos \in Seq(InfosOf(t))
    /\ AllTruthful(infos, s, acc, t)
    /\ \A n \in DOMAIN t.vout : CanFind(s, known, t, n) =>
          \E m \in DOMAIN infos : infos[m].idx_in_tx = n

FoundInv ==
    found # {} =>
        /\ turn <= Len(order) /\ order[turn] \in {"guess", "real"}
        /\ ~matching /\ k <= Len(tx.vin) /\ r > 0
        /\ \E infos : /\ found = {infos}
                      /\ GoodFound(infos, searcher, initial, account,
                                   Chain[Member[1]])

TInv ==
    /\ FixedInv /\ AccountInv /\ CursorInv /\ FreshInv
    /\ ResultsInv /\ FoundInv

(* Where an identifier stands.                                             *)
LEMMA AtInputFacts ==
    ASSUME TInv
    PROVE  /\ IsSearcher(searcher) /\ tx.out \in Transaction
           /\ Len(tx.vin) \in Nat /\ DOMAIN tx.vin = 1..Len(tx.vin)
           /\ order \in Seq(Identifiers) /\ Len(order) \in Nat
           /\ GoodAccount(account)
           /\ AtInput =>
                /\ k \in DOMAIN tx.vin /\ tx.vin[k] \in TxIn
                /\ Len(tx.vin[k].ring) \in Nat
                /\ \A n \in 1..Len(tx.vin[k].ring) : tx.vin[k].ring[n] \in Refs
                /\ tx.vin[k].is_key => Len(tx.vin[k].ring) >= 1
                /\ r \in 0..Len(tx.vin[k].ring)
                /\ r > 0 => Member \in Refs
<1>1. IsSearcher(searcher) /\ GoodAccount(account)
  BY CallAssumption DEF TInv, FixedInv, IsSearcher, AccountInv, Extends
<1>2. order \in Seq(Identifiers) /\ Len(order) \in Nat
  BY CallAssumption DEF TInv, FixedInv, Identifiers
<1>3. tx \in Spends
  BY DEF TInv, FixedInv
<1>4. ASSUME AtInput
      PROVE  k \in DOMAIN tx.vin /\ r \in 0..Len(tx.vin[k].ring)
  BY <1>3, <1>4, SpendFacts DEF AtInput, TInv, CursorInv
<1>5. ASSUME AtInput, r > 0
      PROVE  Member \in Refs
  BY <1>3, <1>4, <1>5, SpendFacts DEF Member
<1> QED BY <1>1, <1>2, <1>3, <1>4, <1>5, SpendFacts

(* The invariant holds when the call begins ...                            *)
LEMMA InitTInv == Init => TInv
<1> SUFFICES ASSUME Init PROVE TInv
  OBVIOUS
<1>1. FixedInv
  BY DEF Init, FixedInv
<1>2. /\ tx \in Spends /\ Len(tx.vin) \in Nat /\ Len(order) \in Nat
      /\ Len(Chain) \in Nat
  BY <1>1, SpendFacts, CallAssumption DEF FixedInv
<1>3. AccountInv
  <2>1. GoodAccount(NewAccount)
    BY NewAccountGood
  <2>2. /\ 0 \in UInt32 /\ LOOKAHEAD_MAJOR \in UInt32
        /\ CoveredUpTo(NewAccount, 0)
    BY LookaheadAssumption, WordAssumption DEF UInt32, CoveredUpTo
  <2>3. GoodAccount(PopulateSubaddressIndices(NewAccount, 0, LOOKAHEAD_MAJOR))
    BY <2>1, <2>2, PopulateGood DEF Extends
  <2>4. GoodAccount(account) /\ initial = account
    BY <2>1, <2>3 DEF Init
  <2> QED BY <2>4 DEF AccountInv, Extends
<1>4. CursorInv
  <2>1. k = 1 /\ k <= Len(tx.vin) => Len(tx.vin[k].ring) \in Nat
    BY <1>2, SpendFacts
  <2>2. /\ turn = 1 /\ k = 1 /\ r = 0 /\ height = Len(Chain)
        /\ status = "running"
    BY DEF Init
  <2>3. /\ turn \in 1..(Len(order) + 1) /\ height \in 0..Len(Chain)
        /\ k \in 1..(Len(tx.vin) + 1) /\ r \in Nat
    BY <1>2, <2>2
  <2>4. k <= Len(tx.vin) => r \in 0..Len(tx.vin[k].ring)
    BY <2>1, <2>2
  <2>5. matching \in BOOLEAN
    BY DEF Init
  <2>6. /\ status \in {"running", "done", "threw"}
        /\ k > Len(tx.vin) => r = 0
        /\ r > 0 => tx.vin[k].is_key
    BY <2>2
  <2> QED BY <2>3, <2>4, <2>5, <2>6 DEF CursorInv
<1>5. FreshInv /\ ResultsInv /\ FoundInv
  BY DEF Init, FreshInv, ResultsInv, FoundInv
<1> QED BY <1>1, <1>3, <1>4, <1>5 DEF TInv

(* Steps that leave parts of the state alone.                              *)
LEMMA FixedKept ==
    ASSUME TInv, UNCHANGED <<fixed, account>>
    PROVE  FixedInv' /\ AccountInv'
  BY DEF TInv, FixedInv, AccountInv, fixed

(* What keeps each part of it.                                             *)
LEMMA ResultsKept ==
    ASSUME TInv, UNCHANGED <<fixed, results>>,
           known_outputs' \subseteq KnownEntry
    PROVE  ResultsInv'
<1>1. InputRecord' = InputRecord
  BY DEF InputRecord, fixed
<1> QED BY <1>1 DEF TInv, ResultsInv, fixed, results

LEMMA FoundKept ==
    ASSUME TInv, UNCHANGED <<fixed, account, cursor, found>>
    PROVE  FoundInv'
<1>1. Member' = Member
  BY DEF Member, fixed, cursor
<1> QED BY <1>1 DEF TInv, FoundInv, fixed, cursor

(* The two ways to go on stay within the inputs and rings.                 *)
LEMMA NextInputCursor ==
    ASSUME TInv, AtInput, NextInput, UNCHANGED <<fixed, turn, matching>>,
           height' = height, status' = status
    PROVE  CursorInv'
<1>1. k' = k + 1 /\ r' = 0 /\ tx' = tx /\ order' = order
  BY DEF NextInput, fixed
<1>2. tx \in Spends /\ Len(tx.vin) \in Nat /\ k <= Len(tx.vin)
  BY SpendFacts DEF TInv, FixedInv, AtInput
<1>3. \A j \in DOMAIN tx.vin : Len(tx.vin[j].ring) \in Nat
  BY <1>2, SpendFacts
<1>4. k' \in 1..(Len(tx.vin) + 1)
      /\ (k' <= Len(tx.vin) => k' \in DOMAIN tx.vin)
  BY <1>1, <1>2, SpendFacts DEF TInv, CursorInv
<1> QED BY <1>1, <1>3, <1>4 DEF TInv, CursorInv

LEMMA AfterMemberCursor ==
    ASSUME TInv, AtInput, AfterMember, UNCHANGED <<fixed, turn, matching>>,
           height' = height, status' = status, tx.vin[k].is_key
    PROVE  CursorInv'
<1>1. CASE NextInput
  BY <1>1, NextInputCursor
<1>2. CASE r < Len(tx.vin[k].ring) /\ k' = k /\ r' = r + 1
  <2>1. Len(tx.vin[k].ring) \in Nat /\ k <= Len(tx.vin)
    BY AtInputFacts DEF AtInput
  <2>2. tx' = tx /\ order' = order
    BY DEF fixed
  <2> QED BY <1>2, <2>1, <2>2 DEF TInv, CursorInv
<1> QED BY <1>1, <1>2 DEF AfterMember

(* An input identifier goes on: nothing that waits to be read is lost.     *)
LEMMA FreshKept ==
    ASSUME TInv, UNCHANGED <<fixed, turn>>, AtInput,
           order[turn] \in {"input", "guess", "real"},
           matching' = matching,
           known_outputs' = known_outputs \/ order[turn] = "guess"
    PROVE  FreshInv'
  BY DEF TInv, FreshInv, fixed, AtInput, Running

(* Where no ring member is scanned, nothing is found.                      *)
LEMMA NothingFound ==
    ASSUME found' = {}
    PROVE  FoundInv'
  BY DEF FoundInv

-----------------------------------------------------------------------------
(* The steps preserve it.                                                  *)

(* ... and every action keeps it.                                          *)
LEMMA SkipInputType == TInv /\ SkipInput => TInv'
<1> SUFFICES ASSUME TInv, SkipInput PROVE TInv'
  OBVIOUS
<1>1. found = {}
  BY DEF SkipInput, TInv, FoundInv, CursorInv
<1>2. found' = {}
  BY <1>1 DEF SkipInput
<1>3. CursorInv'
  BY NextInputCursor DEF SkipInput
<1>4. FreshInv'
  BY FreshKept DEF SkipInput
<1>5. ResultsInv'
  BY ResultsKept DEF SkipInput, TInv, ResultsInv
<1> QED BY <1>2, <1>3, <1>4, <1>5, FixedKept, NothingFound DEF SkipInput, TInv

LEMMA LookUpRingType == TInv /\ LookUpRing => TInv'
<1> SUFFICES ASSUME TInv, LookUpRing PROVE TInv'
  OBVIOUS
<1>1. AtInput /\ order[turn] \in {"guess", "real"} /\ tx.vin[k].is_key /\ r = 0
  BY DEF LookUpRing, Scanning
<1>2. found' = {}
  BY <1>1 DEF LookUpRing, TInv, FoundInv
<1>3. CursorInv'
  <2>1. UNCHANGED <<tx, order, turn, height, matching, k>>
    BY DEF LookUpRing, fixed
  <2>2. r' \in {0, 1} /\ status' \in {status, "threw"}
    BY <1>1 DEF LookUpRing, Throw
  <2>3. Len(tx.vin[k].ring) \in Nat /\ Len(tx.vin[k].ring) >= 1
        /\ k <= Len(tx.vin)
    BY <1>1, AtInputFacts DEF AtInput
  <2> QED BY <1>1, <2>1, <2>2, <2>3 DEF TInv, CursorInv
<1>4. FreshInv'
  BY <1>1, FreshKept DEF LookUpRing
<1>5. ResultsInv'
  BY ResultsKept DEF LookUpRing, TInv, ResultsInv
<1> QED BY <1>2, <1>3, <1>4, <1>5, FixedKept, NothingFound DEF LookUpRing, TInv

(* What a call of Output::identify brings.                                 *)
LEMMA ResultGood ==
    ASSUME TInv, NEW t \in Transaction,
           NEW result, result = IdentifyOutputs(searcher, account, t)
    PROVE  /\ Extends(account, result.account)
           /\ Extends(initial, result.account)
           /\ result.threw \in BOOLEAN
           /\ result.outputs \in Seq(InfosOf(t))
           /\ InOrder(result.outputs)
           /\ ~result.threw =>
                 \A acc : acc.subaddresses \subseteq account.subaddresses =>
                     GoodFound(result.outputs, searcher, acc,
                               result.account, t)
<1>1. IsSearcher(searcher) /\ GoodAccount(account)
  BY AtInputFacts
<1>2. /\ Extends(account, result.account)
      /\ result.outputs \in Seq(InfosOf(t)) /\ result.threw \in BOOLEAN
      /\ AllTruthful(result.outputs, searcher, result.account, t)
      /\ InOrder(result.outputs)
      /\ ~result.threw =>
            \A n \in DOMAIN t.vout : CanFind(searcher, account, t, n) =>
                \E m \in DOMAIN result.outputs :
                    result.outputs[m].idx_in_tx = n
  BY <1>1, IdentifyOutputsIsSound
<1>3. Extends(initial, result.account)
  BY <1>2 DEF TInv, AccountInv, Extends
<1>4. ASSUME ~result.threw, NEW acc,
             acc.subaddresses \subseteq account.subaddresses
      PROVE  GoodFound(result.outputs, searcher, acc, result.account, t)
  BY <1>2, <1>4, CanFindMonotone DEF GoodFound
<1> QED BY <1>2, <1>3, <1>4

LEMMA ScanMemberType == TInv /\ ScanMember => TInv'
<1> SUFFICES ASSUME TInv, ScanMember PROVE TInv'
  OBVIOUS
<1>1. /\ AtInput /\ order[turn] \in {"guess", "real"} /\ ~matching
      /\ tx.vin[k].is_key /\ r > 0 /\ found = {}
  BY DEF ScanMember, Scanning
<1>2. UNCHANGED <<searcher, tx, order, initial, height, turn, matching, k, r,
                  known_outputs, results>>
  BY DEF ScanMember, fixed, cursor
<1>3. /\ turn <= Len(order) /\ k <= Len(tx.vin)
      /\ Member \in Refs /\ Chain[Member[1]] \in Transaction
  BY <1>1, AtInputFacts, RefFacts DEF AtInput, Running
<1>4. FixedInv' /\ FreshInv'
  BY <1>1, <1>2, FreshKept DEF TInv, FixedInv, fixed
<1>5. status' \in {status, "threw"} /\ CursorInv'
  <2>1. status' \in {status, "threw"}
    BY DEF ScanMember, Throw
  <2> QED BY <1>2, <2>1 DEF TInv, CursorInv
<1>6. ResultsInv'
  BY <1>2, ResultsKept DEF fixed, TInv, ResultsInv
<1>7. Member' = Member
  BY <1>2 DEF Member
<1>8. CASE UNCHANGED <<account, found>>
  BY <1>1, <1>2, <1>4, <1>5, <1>6, <1>8 DEF TInv, AccountInv, FoundInv
<1>9. CASE \E result \in {IdentifyOutputs(searcher, account,
                                           Chain[Member[1]])} :
              /\ account' = result.account
              /\ IF result.threw
                 THEN Throw /\ UNCHANGED found
                 ELSE found' = {result.outputs} /\ UNCHANGED status
  <2>1. PICK result :
            /\ result = IdentifyOutputs(searcher, account, Chain[Member[1]])
            /\ account' = result.account
            /\ found' = {} \/ (~result.threw /\ found' = {result.outputs})
    BY <1>1, <1>9
  <2>2. Extends(initial, result.account)
        /\ (~result.threw => GoodFound(result.outputs, searcher, initial,
                                       result.account, Chain[Member[1]]))
    BY <1>3, <2>1, ResultGood DEF TInv, AccountInv, Extends
  <2>3. AccountInv'
    BY <1>2, <2>1, <2>2 DEF TInv, AccountInv
  <2>4. FoundInv'
    BY <1>1, <1>2, <1>3, <1>7, <2>1, <2>2 DEF FoundInv
  <2> QED BY <1>4, <1>5, <1>6, <2>3, <2>4 DEF TInv
<1> QED BY <1>8, <1>9 DEF ScanMember

LEMMA RunOutputType == TInv /\ RunOutput => TInv'
<1> SUFFICES ASSUME TInv, RunOutput PROVE TInv'
  OBVIOUS
<1>1. PICK result :
          /\ result = IdentifyOutputs(searcher, account, tx.out)
          /\ account' = result.account
          /\ outputs' = outputs \o result.outputs
          /\ status' \in {status, "threw", "done"}
  BY DEF RunOutput
<1>2. /\ UNCHANGED <<searcher, tx, order, initial, height, matching, k, r,
                     found, known_outputs, identified, total>>
      /\ turn' = turn + 1 /\ order[turn] = "output" /\ turn <= Len(order)
  BY DEF RunOutput, fixed, Running
<1>3. /\ Extends(initial, result.account)
      /\ result.outputs \in Seq(InfosOf(tx.out))
  BY <1>1, ResultGood, AtInputFacts
<1>4. FixedInv' /\ AccountInv'
  BY <1>1, <1>2, <1>3 DEF TInv, FixedInv, AccountInv
<1>5. ~matching /\ known_outputs = {} /\ k = 1 /\ r = 0 /\ found = {}
  BY <1>2 DEF TInv, FreshInv, FoundInv
<1>6. CursorInv' /\ FreshInv'
  <2>1. turn' \in 1..(Len(order) + 1)
    BY <1>2, AtInputFacts DEF TInv, CursorInv
  <2> QED BY <1>1, <1>2, <1>5, <2>1 DEF TInv, CursorInv, FreshInv
<1>7. ResultsInv'
  <2>1. InputRecord' = InputRecord
    BY <1>2 DEF InputRecord
  <2>2. outputs' \in Seq(InfosOf(tx.out))
    BY <1>1, <1>3 DEF TInv, ResultsInv
  <2> QED BY <1>2, <2>1, <2>2 DEF TInv, ResultsInv
<1> QED BY <1>2, <1>4, <1>5, <1>6, <1>7, NothingFound DEF TInv

(* known_outputs_map.insert keeps the entries typed.                       *)
EntryOf(info) == [pub_key |-> info.pub_key, amount |-> info.amount]

(* Entries come from the map or from what was found.                       *)
LEMMA KnownAfterFrom ==
    ASSUME NEW known, NEW infos
    PROVE  /\ known \subseteq KnownAfter(known, infos)
           /\ KnownAfter(known, infos)
                 \subseteq known \cup {EntryOf(infos[n]) : n \in DOMAIN infos}
  BY DEF KnownAfter, EntryOf

LEMMA KnownAfterType ==
    ASSUME NEW known \in SUBSET KnownEntry, NEW t,
           NEW infos \in Seq(InfosOf(t))
    PROVE  KnownAfter(known, infos) \subseteq KnownEntry
<1>1. ASSUME NEW n \in DOMAIN infos
      PROVE  EntryOf(infos[n]) \in KnownEntry
  <2>1. infos[n] \in InfosOf(t)
    OBVIOUS
  <2> QED BY <2>1 DEF EntryOf, InfosOf, KnownEntry
<1> QED BY <1>1, KnownAfterFrom

(* A ring member whose transaction was searched.                           *)
LEMMA AtFound ==
    ASSUME TInv, found # {}, Running
    PROVE  /\ AtInput /\ order[turn] \in {"guess", "real"}
           /\ tx.vin[k].is_key /\ r > 0 /\ Member \in Refs
           /\ Chain[Member[1]] \in Transaction
           /\ \E infos : /\ found = {infos}
                         /\ GoodFound(infos, searcher, initial, account,
                                      Chain[Member[1]])
<1>1. AtInput /\ tx.vin[k].is_key /\ r > 0
  BY DEF TInv, FoundInv, CursorInv, AtInput
<1> QED BY <1>1, AtInputFacts, RefFacts DEF TInv, FoundInv

LEMMA GuessMemberType == TInv /\ GuessMember => TInv'
<1> SUFFICES ASSUME TInv, GuessMember PROVE TInv'
  OBVIOUS
<1>1. /\ AtInput /\ Running /\ order[turn] = "guess" /\ found # {}
      /\ tx.vin[k].is_key
  BY DEF GuessMember, Scanning, AtInput
<1>2. PICK infos : /\ found = {infos}
                   /\ infos \in Seq(InfosOf(Chain[Member[1]]))
  BY <1>1, AtFound DEF GoodFound
<1>3. known_outputs' = KnownAfter(known_outputs, infos)
  BY <1>2 DEF GuessMember
<1>4. known_outputs' \subseteq KnownEntry
  BY <1>2, <1>3, KnownAfterType DEF TInv, ResultsInv
<1>5. CursorInv'
  BY <1>1, AfterMemberCursor DEF GuessMember
<1>6. FreshInv'
  BY <1>1, FreshKept DEF GuessMember
<1> QED
  BY <1>4, <1>5, <1>6, FixedKept, ResultsKept, NothingFound
     DEF GuessMember, TInv

LEMMA StartMatchingType == TInv /\ StartMatching => TInv'
<1> SUFFICES ASSUME TInv, StartMatching PROVE TInv'
  OBVIOUS
<1>1. /\ Running /\ order[turn] = "guess" /\ k > Len(tx.vin)
      /\ matching' = TRUE
      /\ k' = 1 /\ r' = r /\ turn' = turn /\ found' = found
      /\ tx' = tx /\ order' = order /\ status' = status /\ height' = height
      /\ known_outputs' = known_outputs
  BY DEF StartMatching, fixed
<1>2. r = 0 /\ Len(tx.vin) \in Nat /\ k \in Nat
  BY <1>1, AtInputFacts DEF TInv, CursorInv
<1>3. found' = {}
  BY <1>1, <1>2 DEF TInv, FoundInv
<1>4. CursorInv'
  <2>1. 1 \in DOMAIN tx.vin => Len(tx.vin[1].ring) \in Nat
    BY SpendFacts DEF TInv, FixedInv
  <2>2. 1 <= Len(tx.vin) => 1 \in DOMAIN tx.vin
    BY AtInputFacts
  <2>3. matching' \in BOOLEAN
    BY <1>1
  <2> QED BY <1>1, <1>2, <2>1, <2>2, <2>3 DEF TInv, CursorInv
<1>5. FreshInv'
  BY <1>1 DEF FreshInv, Running
<1> QED
  BY <1>3, <1>4, <1>5, FixedKept, ResultsKept, NothingFound
     DEF StartMatching, TInv, ResultsInv

(* Input::identify waits for no Output identifier.                         *)
LEMMA MatchingFound ==
    ASSUME TInv, AtInput, Matching
    PROVE  found = {} /\ order[turn] \in {"input", "guess"}
  BY DEF TInv, FoundInv, FreshInv, Matching

LEMMA CheckOffsetsType == TInv /\ CheckOffsets => TInv'
<1> SUFFICES ASSUME TInv, CheckOffsets PROVE TInv'
  OBVIOUS
<1>1. AtInput /\ Matching /\ tx.vin[k].is_key /\ r = 0
  BY DEF CheckOffsets
<1>2. found' = {}
  BY <1>1, MatchingFound DEF CheckOffsets
<1>3. CursorInv'
  <2>1. CASE NextInput
    BY <1>1, <2>1, NextInputCursor DEF CheckOffsets
  <2>2. CASE r' = 1 /\ k' = k
    <3>1. UNCHANGED <<tx, order, turn, height, matching, k, status>>
      BY <2>2 DEF CheckOffsets, fixed
    <3>2. Len(tx.vin[k].ring) \in Nat /\ Len(tx.vin[k].ring) >= 1
          /\ k <= Len(tx.vin)
      BY <1>1, AtInputFacts DEF AtInput
    <3> QED BY <1>1, <2>2, <3>1, <3>2 DEF TInv, CursorInv
  <2> QED BY <2>1, <2>2 DEF CheckOffsets
<1>4. FreshInv'
  BY <1>1, MatchingFound, FreshKept DEF CheckOffsets
<1>5. ResultsInv'
  BY ResultsKept DEF CheckOffsets, TInv, ResultsInv
<1> QED
  BY <1>2, <1>3, <1>4, <1>5, FixedKept, NothingFound DEF CheckOffsets, TInv

(* Either map holds typed entries.                                         *)
LEMMA KnownOutputsType == TInv => KnownOutputs \in SUBSET KnownEntry
  BY CallAssumption DEF TInv, ResultsInv, KnownOutputs, KnownEntry

(* The records of the current input are records of the transaction.        *)
LEMMA RecordOfInput ==
    ASSUME TInv, k \in DOMAIN tx.vin
    PROVE  RecordOf(tx.vin[k]) \subseteq InputRecord
  BY DEF RecordOf, InputRecord

(* More records of one identifier.                                         *)
MoreRecords(id, infos) ==
    /\ identified' = [identified EXCEPT ![id] = @ \o infos]
    /\ total' = [total EXCEPT ![id] = @ + SumAmounts(infos)]

(* Records added to one kind of identifier.                                *)
LEMMA MoreRecordsType ==
    ASSUME TInv, NEW id \in {"input", "guess", "real"},
           NEW infos \in Seq(InputRecord), MoreRecords(id, infos),
           UNCHANGED <<fixed, outputs>>, known_outputs' \subseteq KnownEntry
    PROVE  ResultsInv'
<1>1. InputRecord' = InputRecord /\ tx' = tx
  BY DEF InputRecord, fixed
<1>2. \A x \in InputRecord : x.amount \in Int
  BY DEF InputRecord
<1>3. SumAmounts(infos) \in Int
  BY <1>2, SumOfBoth
<1>4. identified' \in [{"input", "guess", "real"} -> Seq(InputRecord)]
  BY DEF TInv, ResultsInv, MoreRecords
<1>5. total' \in [{"input", "guess", "real"} -> Int]
  BY <1>3 DEF TInv, ResultsInv, MoreRecords
<1> QED BY <1>1, <1>4, <1>5 DEF TInv, ResultsInv

LEMMA MatchRingType == TInv /\ MatchRing => TInv'
<1> SUFFICES ASSUME TInv, MatchRing PROVE TInv'
  OBVIOUS
<1>1. AtInput /\ Matching
  BY DEF MatchRing
<1>2. found' = {} /\ order[turn] \in {"input", "guess"}
  BY <1>1, MatchingFound DEF MatchRing
<1>3. FreshInv'
  BY <1>1, <1>2, FreshKept DEF MatchRing
<1>4. CASE Throw /\ UNCHANGED <<k, r, identified, total>>
  <2>1. CursorInv'
    BY <1>4 DEF MatchRing, TInv, CursorInv, fixed, Throw
  <2>2. ResultsInv'
    BY <1>4, ResultsKept DEF MatchRing, TInv, ResultsInv, results
  <2> QED
    BY <1>2, <1>3, <2>1, <2>2, FixedKept, NothingFound DEF MatchRing, TInv
<1>5. CASE /\ \E infos \in {MatchesOfRing(tx.vin[k], KnownOutputs)} :
                 MoreRecords(order[turn], infos)
           /\ NextInput /\ UNCHANGED status
  <2>1. PICK infos : /\ infos = MatchesOfRing(tx.vin[k], KnownOutputs)
                     /\ MoreRecords(order[turn], infos)
    BY <1>5
  <2>2. k \in DOMAIN tx.vin /\ tx.vin[k] \in TxIn
    BY <1>1, AtInputFacts
  <2>3. infos \in Seq(RecordOf(tx.vin[k]))
    BY <2>1, <2>2, KnownOutputsType, MatchesOfRingFacts
  <2>4. infos \in Seq(InputRecord)
    BY <2>2, <2>3, RecordOfInput
  <2>5. ResultsInv'
    BY <1>2, <2>1, <2>4, MoreRecordsType DEF MatchRing, TInv, ResultsInv
  <2>6. CursorInv'
    BY <1>1, <1>5, NextInputCursor DEF MatchRing
  <2> QED
    BY <1>2, <1>3, <2>5, <2>6, FixedKept, NothingFound DEF MatchRing, TInv
<1> QED BY <1>4, <1>5 DEF MatchRing, MoreRecords

(* The output that decides is one of those found.                          *)
LEMMA FirstDecisiveFacts ==
    ASSUME NEW t, NEW infos \in Seq(InfosOf(t)), Decisive(infos) # {}
    PROVE  \E n \in DOMAIN infos :
              /\ FirstDecisive(infos) = infos[n]
              /\ Refuses(infos[n]) \/ IsImage(infos[n])
<1>1. Decisive(infos) \in SUBSET Nat
  BY DEF Decisive
<1>2. \E n \in Decisive(infos) : \A m \in Decisive(infos) : n <= m
  BY <1>1, SmallestExists
<1> QED BY <1>2 DEF FirstDecisive, Decisive

LEMMA RealNoMatchType == TInv /\ RealNoMatch => TInv'
<1> SUFFICES ASSUME TInv, RealNoMatch PROVE TInv'
  OBVIOUS
<1>1. AtInput /\ order[turn] = "real" /\ tx.vin[k].is_key
  BY DEF RealNoMatch, Scanning
<1>2. CursorInv'
  BY <1>1, AfterMemberCursor DEF RealNoMatch
<1>3. FreshInv'
  BY <1>1, FreshKept DEF RealNoMatch
<1>4. ResultsInv'
  BY ResultsKept DEF RealNoMatch, TInv, ResultsInv
<1> QED BY <1>2, <1>3, <1>4, FixedKept, NothingFound DEF RealNoMatch, TInv

(* What RealInput records.                                                 *)
RealRecord(info) == Input(tx.vin[k].k_image, info.amount, info.pub_key)

(* What RealMatch adds is the record of an output that was found.          *)
LEMMA RealMatchFacts ==
    ASSUME TInv, RealMatch
    PROVE  /\ AtInput /\ order[turn] = "real" /\ tx.vin[k].is_key
           /\ k \in DOMAIN tx.vin
           /\ r \in DOMAIN tx.vin[k].ring /\ Member \in Refs
           /\ \E info \in InfosOf(Chain[Member[1]]) :
                 /\ Truthful(info, searcher, account, Chain[Member[1]])
                 /\ IsImage(info)
                 /\ RealRecord(info) \in InputRecord
                 /\ identified' = [identified EXCEPT !["real"] =
                                      Append(@, RealRecord(info))]
                 /\ total' = [total EXCEPT !["real"] = @ + info.amount]
<1>1. /\ AtInput /\ Running /\ order[turn] = "real" /\ tx.vin[k].is_key
      /\ found # {}
  BY DEF RealMatch, Scanning, AtInput
<1>2. /\ k \in DOMAIN tx.vin /\ r \in DOMAIN tx.vin[k].ring /\ Member \in Refs
      /\ tx.vin[k] \in TxIn
  <2>1. tx \in Spends
    BY DEF TInv, FixedInv
  <2> QED BY <1>1, <2>1, AtFound, AtInputFacts, SpendFacts
<1>3. PICK infos : /\ found = {infos}
                   /\ infos \in Seq(InfosOf(Chain[Member[1]]))
                   /\ AllTruthful(infos, searcher, account, Chain[Member[1]])
  BY <1>1, AtFound DEF GoodFound
<1>4. /\ Decisive(infos) # {} /\ ~Refuses(FirstDecisive(infos))
      /\ identified' = [identified EXCEPT !["real"] =
                Append(@, RealRecord(FirstDecisive(infos)))]
      /\ total' = [total EXCEPT !["real"] = @ + FirstDecisive(infos).amount]
  BY <1>3 DEF RealMatch, RealRecord
<1>5. PICK n \in DOMAIN infos : /\ FirstDecisive(infos) = infos[n]
                                /\ IsImage(infos[n])
  BY <1>3, <1>4, FirstDecisiveFacts
<1>6. infos[n] \in InfosOf(Chain[Member[1]])
      /\ Truthful(infos[n], searcher, account, Chain[Member[1]])
  BY <1>3 DEF AllTruthful
<1>7. RealRecord(infos[n]) \in InputRecord
  BY <1>2, <1>6 DEF RealRecord, Input, InputRecord, InfosOf
<1> QED BY <1>1, <1>2, <1>4, <1>5, <1>6, <1>7

LEMMA RealMatchType == TInv /\ RealMatch => TInv'
<1> SUFFICES ASSUME TInv, RealMatch PROVE TInv'
  OBVIOUS
<1>1. PICK info \in InfosOf(Chain[Member[1]]) :
          /\ RealRecord(info) \in InputRecord
          /\ identified' = [identified EXCEPT !["real"] =
                               Append(@, RealRecord(info))]
          /\ total' = [total EXCEPT !["real"] = @ + info.amount]
  BY RealMatchFacts
<1>2. AtInput /\ order[turn] = "real"
  BY RealMatchFacts
<1>3. CursorInv'
  BY <1>2, NextInputCursor DEF RealMatch
<1>4. FreshInv'
  BY <1>2, FreshKept DEF RealMatch
<1>5. ResultsInv'
  <2>1. InputRecord' = InputRecord /\ UNCHANGED <<tx, outputs, known_outputs>>
    BY DEF InputRecord, RealMatch, fixed
  <2>2. identified' \in [{"input", "guess", "real"} -> Seq(InputRecord)]
    <3> DEFINE x == RealRecord(info)
    <3>1. x \in InputRecord
      BY <1>1
    <3> HIDE DEF x
    <3>2. identified["real"] \in Seq(InputRecord)
      BY DEF TInv, ResultsInv
    <3>3. Append(identified["real"], x) \in Seq(InputRecord)
      BY <3>1, <3>2
    <3>4. identified' = [identified EXCEPT !["real"]
                            = Append(identified["real"], x)]
      BY <1>1 DEF x
    <3> QED BY <3>3, <3>4 DEF TInv, ResultsInv
  <2>3. info.amount \in Int
    BY DEF InfosOf
  <2>4. total' \in [{"input", "guess", "real"} -> Int]
    BY <1>1, <2>3 DEF TInv, ResultsInv
  <2> QED BY <2>1, <2>2, <2>4 DEF TInv, ResultsInv
<1> QED BY <1>3, <1>4, <1>5, FixedKept, NothingFound DEF RealMatch, TInv

LEMMA RealRefusedType == TInv /\ RealRefused => TInv'
<1> SUFFICES ASSUME TInv, RealRefused PROVE TInv'
  OBVIOUS
<1>1. CursorInv'
  BY DEF RealRefused, TInv, CursorInv, fixed, cursor, Throw
<1>2. FreshInv'
  BY DEF RealRefused, TInv, FreshInv, fixed, cursor
<1>3. ResultsInv'
  BY ResultsKept DEF RealRefused, TInv, ResultsInv
<1> QED BY <1>1, <1>2, <1>3, FixedKept, FoundKept DEF RealRefused, TInv

LEMMA NextIdentifierType == TInv /\ NextIdentifier => TInv'
<1> SUFFICES ASSUME TInv, NextIdentifier PROVE TInv'
  OBVIOUS
<1>1. /\ turn' = turn + 1 /\ matching' = FALSE /\ k' = 1 /\ r' = 0
      /\ known_outputs' = {} /\ status' \in {status, "done"}
      /\ UNCHANGED <<tx, order, height, found>>
      /\ turn <= Len(order) /\ Len(order) \in Nat /\ Len(tx.vin) \in Nat
  BY AtInputFacts DEF NextIdentifier, fixed, AtEnd, Running
<1>2. found' = {}
  <2>1. order[turn] \notin {"guess", "real"} \/ k > Len(tx.vin)
    BY DEF NextIdentifier, AtEnd
  <2> QED BY <1>1, <2>1 DEF TInv, FoundInv, CursorInv
<1>3. CursorInv'
  <2>1. 1 <= Len(tx.vin) => Len(tx.vin[1].ring) \in Nat
    BY SpendFacts DEF TInv, FixedInv
  <2>2. matching' \in BOOLEAN
    BY <1>1
  <2> QED BY <1>1, <2>1, <2>2 DEF TInv, CursorInv
<1>4. FreshInv'
  BY <1>1 DEF FreshInv
<1>5. ResultsInv'
  BY <1>1, ResultsKept DEF NextIdentifier
<1> QED
  BY <1>2, <1>3, <1>4, <1>5, FixedKept, NothingFound DEF NextIdentifier, TInv

LEMMA PopBlockType == TInv /\ PopBlock => TInv'
<1> SUFFICES ASSUME TInv, PopBlock PROVE TInv'
  OBVIOUS
<1>1. CursorInv'
  <2>1. height' \in 0..Len(Chain)
    BY CallAssumption DEF PopBlock, TInv, CursorInv
  <2> QED BY <2>1 DEF PopBlock, TInv, CursorInv, fixed, cursor
<1>2. FreshInv'
  BY DEF PopBlock, TInv, FreshInv, fixed, cursor
<1>3. ResultsInv'
  BY ResultsKept DEF PopBlock, TInv, ResultsInv
<1> QED BY <1>1, <1>2, <1>3, FixedKept, FoundKept DEF PopBlock, TInv

LEMMA StutterType == TInv /\ UNCHANGED vars => TInv'
<1> SUFFICES ASSUME TInv, UNCHANGED vars PROVE TInv'
  OBVIOUS
<1>1. CursorInv' /\ FreshInv'
  BY DEF TInv, CursorInv, FreshInv, vars, fixed, cursor
<1>2. ResultsInv'
  BY ResultsKept DEF vars, TInv, ResultsInv
<1> QED BY <1>1, <1>2, FixedKept, FoundKept DEF vars, TInv

LEMMA NextTInv == TInv /\ [Next]_vars => TInv'
  BY SkipInputType, LookUpRingType, ScanMemberType, RunOutputType,
     GuessMemberType, StartMatchingType, CheckOffsetsType, MatchRingType,
     RealNoMatchType, RealMatchType, RealRefusedType, NextIdentifierType,
     PopBlockType, StutterType DEF Next, Identify

(* The invariant holds always.                                             *)
LEMMA AlwaysTInv == Spec => []TInv
  BY InitTInv, NextTInv, PTL DEF Spec

(* It implies the type of the state.                                       *)
LEMMA TInvIsTyped == TInv => TypeOK
<1> SUFFICES ASSUME TInv PROVE TypeOK
  OBVIOUS
<1>1. account \in Account
  BY DEF TInv, AccountInv, Extends, GoodAccount
<1>2. ASSUME NEW id \in DOMAIN identified
      PROVE  InputType(identified[id])
  <2>1. identified[id] \in Seq(InputRecord)
    BY DEF TInv, ResultsInv
  <2>2. \A x \in InputRecord :
           x.amount \in Nat /\ \E j \in DOMAIN tx.vin :
                                   x.key_img = tx.vin[j].k_image
    BY DEF InputRecord
  <2>3. \A n \in DOMAIN identified[id] : identified[id][n] \in InputRecord
    BY <2>1
  <2> QED BY <2>2, <2>3 DEF InputType
<1> QED BY <1>1, <1>2 DEF TInv, CursorInv, TypeOK

(* The identifiers stay inside the transaction, its rings and the chain,   *)
(* whatever the chain loses on the way and wherever a call throws.         *)
THEOREM TypeCorrect == Spec => []TypeOK
  BY AlwaysTInv, TInvIsTyped, PTL

-----------------------------------------------------------------------------
(* Totals.                                                                 *)

(* Totals are sums of records when the call begins ...                     *)
LEMMA InitTotals == Init => TotalsMatchInputs
  BY SumOfNone DEF Init, TotalsMatchInputs

(* What is added to the records is added to their total.                   *)
LEMMA MoreRecordsTotals ==
    ASSUME TInv, TotalsMatchInputs, NEW id \in {"input", "guess", "real"},
           NEW infos \in Seq(InputRecord), MoreRecords(id, infos)
    PROVE  TotalsMatchInputs'
<1>1. \A x \in InputRecord : x.amount \in Int
  BY DEF InputRecord
<1>2. /\ identified \in [{"input", "guess", "real"} -> Seq(InputRecord)]
      /\ total \in [{"input", "guess", "real"} -> Int]
  BY DEF TInv, ResultsInv
<1>3. /\ identified[id] \in Seq(InputRecord)
      /\ total[id] = SumAmounts(identified[id])
  BY <1>2 DEF TotalsMatchInputs
<1>4. SumAmounts(identified[id] \o infos)
          = SumAmounts(identified[id]) + SumAmounts(infos)
  BY <1>1, <1>3, SumOfBoth
<1>5. /\ identified' = [identified EXCEPT ![id] = identified[id] \o infos]
      /\ total' = [total EXCEPT ![id] = total[id] + SumAmounts(infos)]
  BY DEF MoreRecords
<1>6. ASSUME NEW other \in DOMAIN identified'
      PROVE  total'[other] = SumAmounts(identified'[other])
  <2>1. other \in {"input", "guess", "real"}
    BY <1>2, <1>5
  <2>2. CASE other = id
    <3>1. total'[id] = total[id] + SumAmounts(infos)
      BY <1>2, <1>5
    <3>2. identified'[id] = identified[id] \o infos
      BY <1>2, <1>5
    <3> QED BY <1>3, <1>4, <2>2, <3>1, <3>2
  <2>3. CASE other # id
    <3>1. /\ total'[other] = total[other]
          /\ identified'[other] = identified[other]
      BY <1>2, <1>5, <2>1, <2>3
    <3> QED BY <1>2, <2>1, <3>1 DEF TotalsMatchInputs
  <2> QED BY <2>2, <2>3
<1> QED BY <1>6 DEF TotalsMatchInputs

(* ... and after every step: one that adds records adds their amounts.     *)
LEMMA NextTotals ==
    TInv /\ TotalsMatchInputs /\ [Next]_vars => TotalsMatchInputs'
<1> SUFFICES ASSUME TInv, TotalsMatchInputs, [Next]_vars
             PROVE  TotalsMatchInputs'
  OBVIOUS
<1>1. CASE UNCHANGED <<identified, total>>
  BY <1>1 DEF TotalsMatchInputs
<1>2. CASE MatchRing
  <2>1. CASE UNCHANGED <<identified, total>>
    BY <1>1, <2>1
  <2>2. CASE \E infos \in {MatchesOfRing(tx.vin[k], KnownOutputs)} :
                MoreRecords(order[turn], infos)
    <3>1. PICK infos : /\ infos = MatchesOfRing(tx.vin[k], KnownOutputs)
                       /\ MoreRecords(order[turn], infos)
      BY <2>2
    <3>2. /\ k \in DOMAIN tx.vin /\ tx.vin[k] \in TxIn
          /\ order[turn] \in {"input", "guess", "real"}
      BY <1>2, AtInputFacts, MatchingFound DEF MatchRing
    <3>3. infos \in Seq(RecordOf(tx.vin[k]))
      BY <3>1, <3>2, KnownOutputsType, MatchesOfRingFacts
    <3>4. infos \in Seq(InputRecord)
      BY <3>2, <3>3, RecordOfInput
    <3> QED BY <3>1, <3>2, <3>4, MoreRecordsTotals
  <2> QED BY <1>2, <2>1, <2>2 DEF MatchRing, MoreRecords
<1>3. CASE RealMatch
  <2>1. PICK info \in InfosOf(Chain[Member[1]]) :
            /\ RealRecord(info) \in InputRecord
            /\ identified' = [identified EXCEPT !["real"] =
                                 Append(@, RealRecord(info))]
            /\ total' = [total EXCEPT !["real"] = @ + info.amount]
    BY <1>3, RealMatchFacts
  <2> DEFINE x == RealRecord(info)
  <2>2. x.amount = info.amount /\ x \in InputRecord /\ info.amount \in Int
    BY <2>1 DEF RealRecord, Input, InfosOf
  <2> HIDE DEF x
  <2>3. identified["real"] \in Seq(InputRecord) /\ <<>> \in Seq(InputRecord)
    BY DEF TInv, ResultsInv
  <2>4. /\ <<x>> \in Seq(InputRecord)
        /\ Append(identified["real"], x) = identified["real"] \o <<x>>
    BY <2>2, <2>3
  <2>5. SumAmounts(<<x>>) = info.amount
    <3>1. \A y \in InputRecord : y.amount \in Int
      BY DEF InputRecord
    <3>2. SumAmounts(Append(<<>>, x)) = SumAmounts(<<>>) + x.amount
      BY <2>2, <2>3, <3>1, SumOfOneMore
    <3>3. Append(<<>>, x) = <<x>>
      OBVIOUS
    <3> QED BY <2>2, <3>2, <3>3, SumOfNone
  <2>6. MoreRecords("real", <<x>>)
    BY <2>1, <2>4, <2>5 DEF MoreRecords, x
  <2> QED BY <2>4, <2>6, MoreRecordsTotals
<1> QED
  BY <1>1, <1>2, <1>3
     DEF Next, Identify, SkipInput, LookUpRing, ScanMember, RunOutput,
         GuessMember, StartMatching, CheckOffsets, RealNoMatch, RealRefused,
         NextIdentifier, PopBlock, vars, results

(* The totals of all three identifiers are the sums of their records, at   *)
(* every point of every call and also where it threw                       *)
(* (UniversalIdentifier.cpp:435-437, 763-776).                             *)
THEOREM TotalsAlwaysMatch == Spec => []TotalsMatchInputs
<1>1. Init => TInv /\ TotalsMatchInputs
  BY InitTInv, InitTotals
<1>2. TInv /\ TotalsMatchInputs /\ [Next]_vars => (TInv /\ TotalsMatchInputs)'
  BY NextTInv, NextTotals
<1> QED BY <1>1, <1>2, PTL DEF Spec

-----------------------------------------------------------------------------
(* What every step does to the account and to what never changes.          *)
LEMMA AccountGrows ==
    ASSUME TInv, [Next]_vars
    PROVE  /\ UNCHANGED <<searcher, tx, order, initial>>
           /\ account.subaddresses \subseteq account'.subaddresses
<1>1. CASE ScanMember
  <2>1. Chain[Member[1]] \in Transaction
    BY <1>1, AtInputFacts, RefFacts DEF ScanMember, Scanning
  <2>2. Extends(account, account') \/ account' = account
    BY <1>1, <2>1, ResultGood DEF ScanMember
  <2> QED BY <1>1, <2>2 DEF ScanMember, fixed, Extends
<1>2. CASE RunOutput
  <2>1. Extends(account, account')
    BY <1>2, ResultGood, AtInputFacts DEF RunOutput
  <2> QED BY <1>2, <2>1 DEF RunOutput, fixed, Extends
<1>3. CASE UNCHANGED <<fixed, account>>
  BY <1>3 DEF fixed
<1> QED
  BY <1>1, <1>2, <1>3
     DEF Next, Identify, SkipInput, LookUpRing, MatchRing, RealMatch,
         GuessMember, StartMatching, CheckOffsets, RealNoMatch, RealRefused,
         NextIdentifier, PopBlock, vars

-----------------------------------------------------------------------------
(* What RealInput records.                                                 *)

(* x is the record of an output of ours that the input txin spent: one     *)
(* that was found in the transaction of a ring member.                     *)
RealOf(x, s, acc, txin) ==
    /\ txin.is_key
    /\ \E m \in DOMAIN txin.ring :
          \E l \in DOMAIN Chain[txin.ring[m][1]].vout :
              /\ CanFind(s, acc, Chain[txin.ring[m][1]], l)
              /\ Chain[txin.ring[m][1]].vout[l].pub_key = txin.k_image
              /\ x = Input(txin.k_image, Amount(Chain[txin.ring[m][1]], l),
                           txin.k_image)

RealTrue ==
    \A n \in DOMAIN identified["real"] : \E j \in DOMAIN tx.vin :
        RealOf(identified["real"][n], searcher, account, tx.vin[j])

(* A larger account still owns it.                                         *)
LEMMA RealOfMonotone ==
    ASSUME NEW x, NEW s, NEW a, NEW b, a.subaddresses \subseteq b.subaddresses,
           NEW txin, RealOf(x, s, a, txin)
    PROVE  RealOf(x, s, b, txin)
  BY CanFindMonotone DEF RealOf

(* The record of a match, by the account of that moment.                   *)
LEMMA RealMatchRecord ==
    ASSUME TInv, RealMatch
    PROVE  \E x \in InputRecord :
              /\ x.key_img = tx.vin[k].k_image
              /\ RealOf(x, searcher, account, tx.vin[k])
              /\ identified["real"] \in Seq(InputRecord)
              /\ identified'["real"] = Append(identified["real"], x)
<1>1. PICK info \in InfosOf(Chain[Member[1]]) :
          /\ Truthful(info, searcher, account, Chain[Member[1]])
          /\ IsImage(info)
          /\ RealRecord(info) \in InputRecord
          /\ identified' = [identified EXCEPT !["real"] =
                               Append(@, RealRecord(info))]
  BY RealMatchFacts
<1>2. tx.vin[k].is_key /\ r \in DOMAIN tx.vin[k].ring
  BY RealMatchFacts
<1>3. info.pub_key = tx.vin[k].k_image
  BY <1>1 DEF IsImage
<1> DEFINE x == RealRecord(info)
<1>4. x.key_img = tx.vin[k].k_image
      /\ x = Input(tx.vin[k].k_image, Amount(Chain[Member[1]], info.idx_in_tx),
                   tx.vin[k].k_image)
  BY <1>1, <1>3 DEF RealRecord, Input, Truthful
<1>5. RealOf(x, searcher, account, tx.vin[k])
  BY <1>1, <1>2, <1>3, <1>4 DEF RealOf, Truthful, Member
<1>6. identified \in [{"input", "guess", "real"} -> Seq(InputRecord)]
  BY DEF TInv, ResultsInv
<1>7. identified'["real"] = Append(identified["real"], x)
  BY <1>1, <1>6
<1> QED BY <1>1, <1>4, <1>5, <1>6, <1>7

(* Only a match adds to the records of RealInput.                          *)
LEMMA RealKept ==
    ASSUME TInv, [Next]_vars, ~RealMatch
    PROVE  identified'["real"] = identified["real"]
<1>1. CASE MatchRing
  <2>1. order[turn] \in {"input", "guess"}
    BY <1>1, MatchingFound DEF MatchRing
  <2> QED BY <1>1, <2>1 DEF MatchRing, TInv, ResultsInv
<1>2. CASE UNCHANGED identified
  BY <1>2
<1> QED
  BY <1>1, <1>2
     DEF Next, Identify, SkipInput, LookUpRing, ScanMember, RunOutput,
         GuessMember, StartMatching, CheckOffsets, RealNoMatch, RealRefused,
         NextIdentifier, PopBlock, vars, results

(* All that RealInput records is such a record.                            *)
LEMMA NextRealTrue == TInv /\ RealTrue /\ [Next]_vars => RealTrue'
<1> SUFFICES ASSUME TInv, RealTrue, [Next]_vars
             PROVE  RealTrue'
  OBVIOUS
<1>1. UNCHANGED <<searcher, tx>>
      /\ account.subaddresses \subseteq account'.subaddresses
  BY AccountGrows
<1>2. CASE RealMatch
  <2>1. PICK x \in InputRecord :
            /\ RealOf(x, searcher, account, tx.vin[k])
            /\ identified["real"] \in Seq(InputRecord)
            /\ identified'["real"] = Append(identified["real"], x)
    BY <1>2, RealMatchRecord
  <2>2. k \in DOMAIN tx.vin
    BY <1>2, RealMatchFacts
  <2>3. ASSUME NEW n \in DOMAIN identified'["real"]
        PROVE  \E j \in DOMAIN tx.vin :
                  RealOf(identified'["real"][n], searcher, account, tx.vin[j])
    <3>1. \/ /\ n \in DOMAIN identified["real"]
             /\ identified'["real"][n] = identified["real"][n]
          \/ identified'["real"][n] = x
      BY <2>1, <2>3, AppendFacts
    <3> QED BY <2>1, <2>2, <3>1 DEF RealTrue
  <2> QED BY <1>1, <2>3, RealOfMonotone DEF RealTrue
<1>3. CASE ~RealMatch
  BY <1>1, <1>3, RealKept, RealOfMonotone DEF RealTrue
<1> QED BY <1>2, <1>3

(* The identifier whose turn it is.                                        *)
Now(id) == turn <= Len(order) /\ order[turn] = id

TurnsBefore(id, n) == {t \in Turns(id) : t < n}

(* How many turns of one kind there were before the nth.                   *)
LEMMA TurnsFacts ==
    ASSUME TInv, NEW id, NEW n \in 1..(Len(order) + 1)
    PROVE  /\ IsFiniteSet(TurnsBefore(id, n))
           /\ Cardinality(TurnsBefore(id, n)) \in Nat
           /\ n <= Len(order) /\ order[n] = id =>
                 Cardinality(TurnsBefore(id, n + 1))
                     = Cardinality(TurnsBefore(id, n)) + 1
           /\ n <= Len(order) /\ order[n] # id =>
                 TurnsBefore(id, n + 1) = TurnsBefore(id, n)
<1>1. Len(order) \in Nat /\ DOMAIN order = 1..Len(order)
  BY AtInputFacts
<1>2. IsFiniteSet(1..Len(order)) /\ TurnsBefore(id, n) \subseteq 1..Len(order)
  BY <1>1, FS_Interval DEF TurnsBefore, Turns
<1>3. IsFiniteSet(TurnsBefore(id, n))
  BY <1>2, FS_Subset
<1>4. n \notin TurnsBefore(id, n)
  BY DEF TurnsBefore
<1>5. n <= Len(order) /\ order[n] = id =>
          TurnsBefore(id, n + 1) = TurnsBefore(id, n) \cup {n}
  BY <1>1 DEF TurnsBefore, Turns
<1>6. n <= Len(order) /\ order[n] # id =>
          TurnsBefore(id, n + 1) = TurnsBefore(id, n)
  BY <1>1 DEF TurnsBefore, Turns
<1>7. Cardinality(TurnsBefore(id, n) \cup {n})
          = Cardinality(TurnsBefore(id, n)) + 1
  BY <1>3, <1>4, FS_AddElement
<1> QED BY <1>3, <1>5, <1>6, <1>7, FS_CardinalityType

(* A step either stays in its turn, or begins the next one afresh.         *)
LEMMA TurnStep ==
    ASSUME TInv, [Next]_vars
    PROVE  \/ turn' = turn /\ (k' = k \/ k' = k + 1)
           \/ turn' = turn /\ Now("guess") /\ ~RealMatch
           \/ /\ turn' = turn + 1 /\ k' = 1 /\ r' = 0 /\ turn <= Len(order)
              /\ order[turn] = "real" => k > Len(tx.vin)
              /\ ~RealMatch
<1>1. CASE RunOutput
  BY <1>1 DEF RunOutput, Running, TInv, FreshInv, RealMatch, Scanning
<1>2. CASE NextIdentifier
  BY <1>2 DEF NextIdentifier, AtEnd, Running, RealMatch, Scanning, AtInput,
              TInv, CursorInv
<1>3. CASE StartMatching
  BY <1>3 DEF StartMatching, Now, Running, RealMatch, Scanning
<1>4. CASE /\ turn' = turn
           /\ k' = k \/ k' = k + 1
  BY <1>4
<1> QED
  BY <1>1, <1>2, <1>3, <1>4
     DEF Next, Identify, SkipInput, LookUpRing, ScanMember, MatchRing,
         GuessMember, CheckOffsets, RealNoMatch, RealMatch, RealRefused,
         PopBlock, vars, cursor, NextInput, AfterMember

(* How often an input may have been recorded: once by each RealInput that  *)
(* is done with it.                                                        *)
RecordsOf(j) ==
    {m \in DOMAIN identified["real"] :
        identified["real"][m].key_img = tx.vin[j].k_image}

Passed(id, j) ==
    Cardinality(TurnsBefore(id, turn)) + (IF Now(id) /\ j < k THEN 1 ELSE 0)

RealOnce ==
    \A j \in DOMAIN tx.vin : tx.vin[j].is_key =>
        Cardinality(RecordsOf(j)) <= Passed("real", j)

(* One record more of an input is counted once.                            *)
LEMMA RecordsOfFacts ==
    ASSUME TInv, NEW j
    PROVE  /\ IsFiniteSet(RecordsOf(j)) /\ Cardinality(RecordsOf(j)) \in Nat
           /\ Len(identified["real"]) \in Nat
           /\ Len(identified["real"]) + 1 \notin RecordsOf(j)
<1>1. identified["real"] \in Seq(InputRecord)
  BY DEF TInv, ResultsInv
<1>2. DOMAIN identified["real"] = 1..Len(identified["real"])
      /\ Len(identified["real"]) \in Nat
  BY <1>1
<1>3. IsFiniteSet(1..Len(identified["real"]))
  <2> DEFINE n == Len(identified["real"])
  <2>1. n \in Int /\ 1 \in Int
    BY <1>2
  <2> HIDE DEF n
  <2>2. IsFiniteSet(1..n)
    BY <2>1, FS_Interval
  <2> QED BY <2>2 DEF n
<1>4. RecordsOf(j) \subseteq 1..Len(identified["real"])
  BY <1>2 DEF RecordsOf
<1>5. IsFiniteSet(RecordsOf(j))
  BY <1>3, <1>4, FS_Subset
<1> QED BY <1>2, <1>4, <1>5, FS_CardinalityType

(* The turns count on: an input that was passed stays passed.              *)
LEMMA PassedGrows ==
    ASSUME TInv, [Next]_vars, NEW j \in DOMAIN tx.vin
    PROVE  /\ Passed("real", j) \in Nat /\ Passed("real", j)' \in Nat
           /\ Passed("real", j) <= Passed("real", j)'
           /\ turn' = turn /\ k' = k + 1 /\ Now("real") /\ j = k =>
                 Passed("real", j)' = Passed("real", j) + 1
<1>1. /\ turn \in 1..(Len(order) + 1) /\ Len(order) \in Nat /\ k \in Nat
      /\ order' = order /\ j \in Nat /\ k >= 1 /\ j <= Len(tx.vin)
      /\ Len(tx.vin) \in Nat
  BY AccountGrows, AtInputFacts DEF TInv, CursorInv
<1>2. Turns("real")' = Turns("real")
  BY <1>1 DEF Turns
<1>3. TurnsBefore("real", turn)' = {t \in Turns("real") : t < turn'}
  BY <1>2 DEF TurnsBefore
<1>4. Now("real")' <=> turn' <= Len(order) /\ order[turn'] = "real"
  BY <1>1 DEF Now
<1>5. CASE turn' = turn /\ (k' = k \/ k' = k + 1)
  <2>1. TurnsBefore("real", turn)' = TurnsBefore("real", turn)
        /\ (Now("real")' <=> Now("real"))
    BY <1>3, <1>4, <1>5 DEF TurnsBefore, Now
  <2>2. Cardinality(TurnsBefore("real", turn)) \in Nat
    BY <1>1, TurnsFacts
  <2> QED BY <1>1, <1>5, <2>1, <2>2 DEF Passed
<1>6. CASE turn' = turn /\ Now("guess")
  <2>1. TurnsBefore("real", turn)' = TurnsBefore("real", turn)
        /\ ~Now("real") /\ ~Now("real")'
    BY <1>3, <1>4, <1>6 DEF TurnsBefore, Now
  <2>2. Cardinality(TurnsBefore("real", turn)) \in Nat
    BY <1>1, TurnsFacts
  <2> QED BY <1>1, <2>1, <2>2 DEF Passed
<1>7. CASE turn' = turn + 1 /\ k' = 1 /\ turn <= Len(order)
  <2>1. TurnsBefore("real", turn)' = TurnsBefore("real", turn + 1)
    BY <1>3, <1>7 DEF TurnsBefore
  <2>2. ~(j < k')
    BY <1>1, <1>7
  <2>3. Passed("real", j)' = Cardinality(TurnsBefore("real", turn + 1))
        /\ turn' # turn
    BY <1>1, <1>7, <2>1, <2>2, TurnsFacts DEF Passed
  <2>4. /\ Cardinality(TurnsBefore("real", turn)) \in Nat
        /\ turn + 1 \in 1..(Len(order) + 1)
        /\ Cardinality(TurnsBefore("real", turn + 1)) \in Nat
    BY <1>1, <1>7, TurnsFacts
  <2>5. Passed("real", j) <= Cardinality(TurnsBefore("real", turn + 1))
        /\ Passed("real", j) \in Nat
    BY <1>1, <1>7, <2>4, TurnsFacts DEF Passed, Now
  <2> QED BY <2>3, <2>4, <2>5
<1> QED BY <1>5, <1>6, <1>7, TurnStep

(* An input is not recorded more often, whatever step is taken.            *)
LEMMA NextRealOnce == TInv /\ RealOnce /\ [Next]_vars => RealOnce'
<1> SUFFICES ASSUME TInv, RealOnce, [Next]_vars
             PROVE  RealOnce'
  OBVIOUS
<1>1. tx' = tx
  BY AccountGrows
<1> SUFFICES ASSUME NEW j \in DOMAIN tx.vin, tx.vin[j].is_key
             PROVE  Cardinality(RecordsOf(j)') <= Passed("real", j)'
  BY <1>1 DEF RealOnce
<1>2. /\ Passed("real", j) \in Nat /\ Passed("real", j)' \in Nat
      /\ Passed("real", j) <= Passed("real", j)'
      /\ Cardinality(RecordsOf(j)) \in Nat
      /\ Cardinality(RecordsOf(j)) <= Passed("real", j)
  BY PassedGrows, RecordsOfFacts DEF RealOnce
<1>3. CASE ~RealMatch
  <2>1. RecordsOf(j)' = RecordsOf(j)
    BY <1>1, <1>3, RealKept DEF RecordsOf
  <2> QED BY <1>2, <2>1
<1>4. CASE RealMatch
  <2>1. PICK x \in InputRecord :
            /\ x.key_img = tx.vin[k].k_image
            /\ identified["real"] \in Seq(InputRecord)
            /\ identified'["real"] = Append(identified["real"], x)
    BY <1>4, RealMatchRecord
  <2>2. /\ k \in DOMAIN tx.vin /\ tx.vin[k].is_key /\ Now("real")
        /\ turn' = turn /\ k' = k + 1
    BY <1>4, RealMatchFacts
       DEF RealMatch, NextInput, Now, AtInput, Running
  <2> DEFINE last == Len(identified["real"]) + 1
  <2>3. DOMAIN identified'["real"] = DOMAIN identified["real"] \cup {last}
        /\ identified'["real"][last] = x
        /\ \A m \in DOMAIN identified["real"] :
              identified'["real"][m] = identified["real"][m]
    BY <2>1
  <2> HIDE DEF last
  <2>4. CASE j = k
    <3>1. RecordsOf(j)' = RecordsOf(j) \cup {last}
      BY <1>1, <2>1, <2>3, <2>4 DEF RecordsOf
    <3>2. Cardinality(RecordsOf(j) \cup {last}) = Cardinality(RecordsOf(j)) + 1
      BY RecordsOfFacts, FS_AddElement DEF last
    <3>3. Passed("real", j)' = Passed("real", j) + 1
      BY <2>2, <2>4, PassedGrows
    <3> QED BY <1>2, <3>1, <3>2, <3>3
  <2>5. CASE j # k
    <3>1. tx.vin[j].k_image # tx.vin[k].k_image
      BY <2>2, <2>5, SpendAssumption DEF TInv, FixedInv
    <3>2. RecordsOf(j)' = RecordsOf(j)
      BY <1>1, <2>1, <2>3, <3>1 DEF RecordsOf
    <3> QED BY <1>2, <3>2
  <2> QED BY <2>4, <2>5
<1> QED BY <1>3, <1>4

(* At the beginning nothing is recorded.                                   *)
LEMMA InitReal == Init => RealTrue /\ RealOnce
<1> SUFFICES ASSUME Init PROVE RealTrue /\ RealOnce
  OBVIOUS
<1>1. identified["real"] = <<>> /\ TInv
  BY InitTInv DEF Init
<1>2. RealTrue
  BY <1>1 DEF RealTrue
<1>3. ASSUME NEW j \in DOMAIN tx.vin
      PROVE  Cardinality(RecordsOf(j)) <= Passed("real", j)
  <2>1. RecordsOf(j) = {}
    BY <1>1 DEF RecordsOf
  <2>2. Cardinality(TurnsBefore("real", turn)) \in Nat
    BY <1>1, TurnsFacts DEF TInv, CursorInv
  <2> QED BY <2>1, <2>2, FS_EmptySet DEF Passed
<1> QED BY <1>2, <1>3 DEF RealOnce

(* Outputs of the chain with the same one-time key are the same payment.   *)
(* Where they are not, as on the TwinChain of MCInputScan, GuessInput and  *)
(* RealInput may report the amount of the other one.                       *)
EqualKeysEqualAmounts ==
    \A x, y \in Refs : PubKey(x) = PubKey(y) =>
        /\ Output(x).spend_key = Output(y).spend_key
        /\ Amount(Chain[x[1]], x[2]) = Amount(Chain[y[1]], y[2])

(* The transaction of a ring member has outputs to refer to.               *)
LEMMA RefOf ==
    ASSUME NEW ref \in Refs, NEW l \in DOMAIN Chain[ref[1]].vout
    PROVE  <<ref[1], l>> \in Refs
  BY RefFacts DEF Refs

(* If equal keys are equal payments, the record is true of the ring member *)
(* that carries the key.                                                   *)
LEMMA RealOfIsTrueInfo ==
    ASSUME TInv, EqualKeysEqualAmounts, NEW j \in DOMAIN tx.vin, NEW x,
           RealOf(x, searcher, account, tx.vin[j])
    PROVE  /\ tx.vin[j].is_key /\ x.key_img = tx.vin[j].k_image
           /\ x.out_pub_key = x.key_img
           /\ x \in TrueInfos(account, j)
<1>1. /\ tx \in Spends /\ tx.vin[j].is_key
      /\ \A n \in DOMAIN tx.vin[j].ring : tx.vin[j].ring[n] \in Refs
  BY SpendFacts DEF TInv, FixedInv, RealOf
<1>2. PICK m \in DOMAIN tx.vin[j].ring :
          \E l \in DOMAIN Chain[tx.vin[j].ring[m][1]].vout :
              /\ CanFind(searcher, account, Chain[tx.vin[j].ring[m][1]], l)
              /\ Chain[tx.vin[j].ring[m][1]].vout[l].pub_key
                     = tx.vin[j].k_image
              /\ x = Input(tx.vin[j].k_image,
                           Amount(Chain[tx.vin[j].ring[m][1]], l),
                           tx.vin[j].k_image)
  BY DEF RealOf
<1> DEFINE t == tx.vin[j].ring[m][1]
<1>3. PICK l \in DOMAIN Chain[t].vout :
          /\ CanFind(searcher, account, Chain[t], l)
          /\ Chain[t].vout[l].pub_key = tx.vin[j].k_image
          /\ x = Input(tx.vin[j].k_image, Amount(Chain[t], l),
                       tx.vin[j].k_image)
  BY <1>2
<1> DEFINE other == <<t, l>>
<1>4. other \in Refs /\ other[1] = t /\ other[2] = l
  BY <1>1, RefOf
<1>5. PICK n \in DOMAIN tx.vin[j].ring :
          PubKey(tx.vin[j].ring[n]) = tx.vin[j].k_image
  BY <1>1, SpendAssumption
<1> DEFINE ref == tx.vin[j].ring[n]
<1>6. ref \in Refs /\ ref \in Range(tx.vin[j].ring)
  BY <1>1 DEF Range
<1>7. PubKey(other) = PubKey(ref)
  BY <1>3, <1>4, <1>5 DEF PubKey
<1>8. /\ Output(other).spend_key = Output(ref).spend_key
      /\ Amount(Chain[t], l) = Amount(Chain[ref[1]], ref[2])
  BY <1>4, <1>6, <1>7 DEF EqualKeysEqualAmounts
<1>9. IsOurs(account, ref)
  BY <1>3, <1>4, <1>8 DEF CanFind, IsOurs, Output
<1>10. x = TrueInfo(j, ref)
  BY <1>3, <1>5, <1>8 DEF TrueInfo
<1>11. x \in TrueInfos(account, j)
  BY <1>6, <1>9, <1>10 DEF TrueInfos
<1> QED BY <1>1, <1>3, <1>11 DEF Input

(* Both invariants give the property.                                      *)
LEMMA RealsAreOurs ==
    ASSUME TInv, RealTrue, RealOnce, EqualKeysEqualAmounts
    PROVE  RealInputsAreOurs
<1> SUFFICES ASSUME NEW n \in DOMAIN identified["real"]
             PROVE  LET real == identified["real"]
                    IN  /\ real[n].out_pub_key = real[n].key_img
                        /\ \E j \in DOMAIN tx.vin :
                              /\ tx.vin[j].is_key
                              /\ real[n] \in TrueInfos(account, j)
                        /\ Cardinality({m \in DOMAIN real :
                                           real[m].key_img = real[n].key_img})
                              <= Cardinality({t \in Turns("real") : t <= turn})
  BY DEF RealInputsAreOurs
<1>1. PICK j \in DOMAIN tx.vin :
          RealOf(identified["real"][n], searcher, account, tx.vin[j])
  BY DEF RealTrue
<1>2. /\ tx.vin[j].is_key
      /\ identified["real"][n].key_img = tx.vin[j].k_image
      /\ identified["real"][n].out_pub_key = identified["real"][n].key_img
      /\ identified["real"][n] \in TrueInfos(account, j)
  BY <1>1, RealOfIsTrueInfo
<1>3. Cardinality(RecordsOf(j)) <= Passed("real", j)
      /\ Cardinality(RecordsOf(j)) \in Nat
  BY <1>2, RecordsOfFacts DEF RealOnce
<1>4. /\ turn \in 1..(Len(order) + 1) /\ Len(order) \in Nat
      /\ DOMAIN order = 1..Len(order)
  BY AtInputFacts DEF TInv, CursorInv
<1>5. {t \in Turns("real") : t <= turn} = TurnsBefore("real", turn + 1)
  BY <1>4 DEF Turns, TurnsBefore
<1>6. Passed("real", j) <= Cardinality(TurnsBefore("real", turn + 1))
      /\ Cardinality(TurnsBefore("real", turn + 1)) \in Nat
  <2>1. CASE turn <= Len(order)
    <3>1. turn + 1 \in 1..(Len(order) + 1)
      BY <1>4, <2>1
    <3> QED BY <1>4, <2>1, <3>1, TurnsFacts DEF Passed, Now
  <2>2. CASE turn > Len(order)
    <3>1. TurnsBefore("real", turn + 1) = TurnsBefore("real", turn)
      BY <1>4, <2>2 DEF TurnsBefore, Turns
    <3> QED BY <1>4, <2>2, <3>1, TurnsFacts DEF Passed, Now
  <2> QED BY <1>4, <2>1, <2>2
<1>7. Passed("real", j) \in Nat
  BY <1>4, TurnsFacts DEF Passed
<1>8. {m \in DOMAIN identified["real"] :
          identified["real"][m].key_img = identified["real"][n].key_img}
          = RecordsOf(j)
  BY <1>2 DEF RecordsOf
<1>9. Cardinality(RecordsOf(j)) <= Cardinality(TurnsBefore("real", turn + 1))
  BY <1>3, <1>6, <1>7
<1> QED BY <1>2, <1>5, <1>8, <1>9

(* What RealInput reports was spent, is ours, and is reported once by each *)
(* RealInput that ran, whatever the others found and wherever it threw     *)
(* (UniversalIdentifier.cpp:609-800), if equal one-time keys are equal     *)
(* payments.                                                               *)
THEOREM RealsAlwaysOurs ==
    ASSUME EqualKeysEqualAmounts
    PROVE  Spec => []RealInputsAreOurs
<1>1. Init => TInv /\ RealTrue /\ RealOnce
  BY InitTInv, InitReal
<1>2. TInv /\ RealTrue /\ RealOnce /\ [Next]_vars
          => (TInv /\ RealTrue /\ RealOnce)'
  BY NextTInv, NextRealTrue, NextRealOnce
<1>3. TInv /\ RealTrue /\ RealOnce => RealInputsAreOurs
  BY RealsAreOurs
<1> QED BY <1>1, <1>2, <1>3, PTL DEF Spec

-----------------------------------------------------------------------------
(* What RealInput does not miss.                                           *)

Reported(j) ==
    \E n \in DOMAIN identified["real"] :
        identified["real"][n].key_img = tx.vin[j].k_image

(* The spent output, if Output finds it with what was known at first, and  *)
(* saves the derivation it was sent with.                                  *)
KnownSpent(j, ref) ==
    /\ Spent(j, ref) /\ IsOurs(initial, ref) /\ Output(ref).is_key
    /\ Derivable(Chain[ref[1]], ref[2], Output(ref).via)
    /\ IsRct(Chain[ref[1]]) \/ Output(ref).via = "main"

(* Nothing known was missed: neither in an input that is done with, nor    *)
(* among the ring members before the current one.                          *)
SeenAt(j) ==
    /\ Ran("real") => Reported(j)
    /\ Now("real") /\ j < k => Reported(j)
    /\ Now("real") /\ j = k =>
          \A m \in DOMAIN tx.vin[j].ring :
              m < r => ~KnownSpent(j, tx.vin[j].ring[m])

SeenInv ==
    status # "threw" => \A j \in DOMAIN tx.vin : SpentKnown(j) => SeenAt(j)

(* Where a ring member is passed over, its output is not the spent one.    *)
LEMMA NoMatchNoSpent ==
    ASSUME TInv, RealNoMatch, HasSpendKey
    PROVE  /\ k \in DOMAIN tx.vin /\ r \in DOMAIN tx.vin[k].ring
           /\ ~KnownSpent(k, tx.vin[k].ring[r])
<1>1. found # {} /\ Running /\ AtInput
  BY DEF RealNoMatch, Scanning, AtInput
<1>2. k \in DOMAIN tx.vin /\ r \in DOMAIN tx.vin[k].ring /\ Member \in Refs
      /\ Member = tx.vin[k].ring[r]
  <2>1. tx \in Spends
    BY DEF TInv, FixedInv
  <2> QED BY <1>1, <2>1, AtFound, AtInputFacts, SpendFacts DEF Member
<1> SUFFICES ASSUME KnownSpent(k, Member)
             PROVE  FALSE
  BY <1>2
<1> DEFINE t == Chain[Member[1]]
<1>3. PICK infos : /\ found = {infos}
                   /\ GoodFound(infos, searcher, initial, account, t)
  BY <1>1, AtFound
<1>4. Member[2] \in DOMAIN t.vout /\ Output(Member) = t.vout[Member[2]]
  BY <1>2, RefFacts DEF Output
<1>5. CanFind(searcher, initial, t, Member[2])
  BY <1>4 DEF KnownSpent, IsOurs, CanFind
<1>6. PICK m \in DOMAIN infos : infos[m].idx_in_tx = Member[2]
  BY <1>3, <1>4, <1>5 DEF GoodFound
<1>7. Truthful(infos[m], searcher, account, t)
  BY <1>3 DEF GoodFound, AllTruthful
<1>8. infos[m].derivation = t.vout[Member[2]].via
  BY <1>4, <1>6, <1>7 DEF Truthful, DerivationToSave, KnownSpent
<1>9. infos[m].pub_key = tx.vin[k].k_image
  BY <1>4, <1>6, <1>7 DEF Truthful, KnownSpent, Spent, PubKey, Output
<1>10. IsImage(infos[m])
  BY <1>6, <1>8, <1>9 DEF IsImage, OpensOutput
<1>11. Decisive(infos) # {}
  BY <1>10 DEF Decisive
<1>12. Decisive(infos) = {}
  BY <1>3 DEF RealNoMatch
<1> QED BY <1>11, <1>12

(* A report is not taken back ...                                          *)
LEMMA ReportedKept ==
    ASSUME TInv, [Next]_vars, NEW j \in DOMAIN tx.vin, Reported(j)
    PROVE  Reported(j)'
<1>1. tx' = tx
  BY AccountGrows
<1>2. CASE ~RealMatch
  BY <1>1, <1>2, RealKept DEF Reported
<1>3. CASE RealMatch
  <2>1. PICK x \in InputRecord :
            /\ identified["real"] \in Seq(InputRecord)
            /\ identified'["real"] = Append(identified["real"], x)
    BY <1>3, RealMatchRecord
  <2> QED BY <1>1, <2>1, AppendFacts DEF Reported
<1> QED BY <1>2, <1>3

(* ... and a match is one.                                                 *)
LEMMA MatchReported ==
    ASSUME TInv, RealMatch
    PROVE  \E n \in DOMAIN identified'["real"] :
              identified'["real"][n].key_img = tx.vin[k].k_image
<1>1. PICK x \in InputRecord :
          /\ x.key_img = tx.vin[k].k_image
          /\ identified["real"] \in Seq(InputRecord)
          /\ identified'["real"] = Append(identified["real"], x)
  BY RealMatchRecord
<1> QED BY <1>1, AppendFacts

(* What is known to be spent does not change.                              *)
LEMMA SpentStays ==
    ASSUME TInv, [Next]_vars, NEW j \in DOMAIN tx.vin
    PROVE  /\ SpentKnown(j)' <=> SpentKnown(j)
           /\ \A ref : KnownSpent(j, ref)' <=> KnownSpent(j, ref)
           /\ status' # "threw" => status # "threw"
<1>1. UNCHANGED <<searcher, tx, order, initial>>
  BY AccountGrows
<1>2. status' # "threw" => status # "threw"
  BY DEF Next, Identify, SkipInput, LookUpRing, ScanMember, MatchRing,
         GuessMember, CheckOffsets, RealNoMatch, RealMatch, RealRefused,
         RunOutput, StartMatching, NextIdentifier, AtEnd, Scanning, AtInput,
         Running, PopBlock, vars
<1> QED
  BY <1>1, <1>2 DEF SpentKnown, KnownSpent, Spent, IsOurs, HasSpendKey

(* A step in which RealInput passes nothing over.                          *)
LEMMA SeenKept ==
    ASSUME TInv, SeenInv, [Next]_vars, turn' = turn,
           Now("real") => k' = k /\ (r' = r \/ r' = 1)
    PROVE  SeenInv'
<1>1. UNCHANGED <<searcher, tx, order, initial>>
  BY AccountGrows
<1>2. (Now("real")' <=> Now("real")) /\ (Ran("real")' <=> Ran("real"))
  BY <1>1 DEF Now, Ran, Turns
<1>3. ASSUME NEW j \in DOMAIN tx.vin, SpentKnown(j), status # "threw"
      PROVE  SeenAt(j)'
  <2>1. SeenAt(j)
    BY <1>3 DEF SeenInv
  <2>2. Reported(j) => Reported(j)'
    BY ReportedKept
  <2>3. \A m \in DOMAIN tx.vin[j].ring : m \in Nat /\ ~(m < 1)
    BY SpendFacts DEF TInv, FixedInv
  <2>4. Now("real") /\ j = k /\ k' = k =>
            \A m \in DOMAIN tx.vin[j].ring :
                m < r' => ~KnownSpent(j, tx.vin[j].ring[m])
    BY <2>1, <2>3 DEF SeenAt
  <2> QED BY <1>1, <1>2, <2>1, <2>2, <2>4, SpentStays DEF SeenAt
<1> QED BY <1>1, <1>3, SpentStays DEF SeenInv

(* A step in which RealInput leaves an input.                              *)
LEMMA SeenNextInput ==
    ASSUME TInv, SeenInv, [Next]_vars, turn' = turn, AtInput, NextInput,
           SpentKnown(k) =>
               \E n \in DOMAIN identified'["real"] :
                   identified'["real"][n].key_img = tx.vin[k].k_image
    PROVE  SeenInv'
<1>1. UNCHANGED <<searcher, tx, order, initial>>
  BY AccountGrows
<1>2. (Now("real")' <=> Now("real")) /\ (Ran("real")' <=> Ran("real"))
  BY <1>1 DEF Now, Ran, Turns
<1>3. k' = k + 1 /\ r' = 0 /\ k \in Nat
  BY DEF NextInput, TInv, CursorInv
<1>4. ASSUME NEW j \in DOMAIN tx.vin, SpentKnown(j), status # "threw"
      PROVE  SeenAt(j)'
  <2>1. SeenAt(j) /\ j \in Nat
    BY <1>4, AtInputFacts DEF SeenInv
  <2>2. Reported(j) => Reported(j)'
    BY ReportedKept
  <2>3. j = k => Reported(j)'
    BY <1>1, <1>4 DEF Reported
  <2>4. j < k + 1 => j < k \/ j = k
    BY <1>3, <2>1
  <2>5. \A m \in DOMAIN tx.vin[j].ring : m \in Nat /\ ~(m < 0)
    BY SpendFacts DEF TInv, FixedInv
  <2> QED BY <1>1, <1>2, <1>3, <2>1, <2>2, <2>3, <2>4, <2>5 DEF SeenAt
<1> QED BY <1>1, <1>4, SpentStays DEF SeenInv

(* A step into the next turn.                                              *)
LEMMA SeenNextTurn ==
    ASSUME TInv, SeenInv, [Next]_vars, turn' = turn + 1, k' = 1, r' = 0,
           turn <= Len(order), order[turn] = "real" => k > Len(tx.vin)
    PROVE  SeenInv'
<1>1. UNCHANGED <<searcher, tx, order, initial>>
  BY AccountGrows
<1>2. /\ turn \in Nat /\ k \in Nat /\ Len(tx.vin) \in Nat
      /\ DOMAIN tx.vin = 1..Len(tx.vin) /\ DOMAIN order \subseteq Nat
  BY AtInputFacts DEF TInv, CursorInv
<1>3. Ran("real")' => Ran("real") \/ Now("real")
  BY <1>1, <1>2 DEF Now, Ran, Turns
<1>4. ASSUME NEW j \in DOMAIN tx.vin, SpentKnown(j), status # "threw"
      PROVE  SeenAt(j)'
  <2>1. SeenAt(j) /\ j \in Nat
    BY <1>4, AtInputFacts DEF SeenInv
  <2>2. Reported(j) => Reported(j)'
    BY ReportedKept
  <2>3. Now("real") => j < k
    BY <1>2, <2>1 DEF Now
  <2>4. Ran("real")' => Reported(j)'
    BY <1>3, <2>1, <2>2, <2>3 DEF SeenAt
  <2>5. \A m \in DOMAIN tx.vin[j].ring : m \in Nat /\ ~(m < 0)
    BY SpendFacts DEF TInv, FixedInv
  <2>6. ~(j < 1)
    BY <1>2
  <2> QED BY <1>1, <2>4, <2>5, <2>6 DEF SeenAt
<1> QED BY <1>1, <1>4, SpentStays DEF SeenInv

(* The only step that could miss a spending does not.                      *)
LEMMA NoMatchSeen == TInv /\ SeenInv /\ RealNoMatch => SeenInv'
<1> SUFFICES ASSUME TInv, SeenInv, RealNoMatch PROVE SeenInv'
  OBVIOUS
<1>1. /\ AtInput /\ Running /\ Now("real") /\ tx.vin[k].is_key
      /\ [Next]_vars /\ turn' = turn /\ AfterMember
  BY DEF RealNoMatch, Scanning, AtInput, Running, Now, Next, Identify
<1>2. UNCHANGED <<searcher, tx, order, initial>>
  BY <1>1, AccountGrows
<1>3. /\ k \in DOMAIN tx.vin /\ r \in Nat
      /\ DOMAIN tx.vin[k].ring = 1..Len(tx.vin[k].ring)
      /\ Len(tx.vin[k].ring) \in Nat
  <2>1. tx \in Spends
    BY DEF TInv, FixedInv
  <2> QED BY <1>1, <2>1, AtInputFacts, SpendFacts DEF TInv, CursorInv
<1>4. SpentKnown(k) /\ status # "threw" =>
          \A m \in DOMAIN tx.vin[k].ring :
              m <= r => ~KnownSpent(k, tx.vin[k].ring[m])
  <2> SUFFICES ASSUME SpentKnown(k), status # "threw",
                      NEW m \in DOMAIN tx.vin[k].ring, m <= r
               PROVE  ~KnownSpent(k, tx.vin[k].ring[m])
    OBVIOUS
  <2>1. m = r => ~KnownSpent(k, tx.vin[k].ring[m])
    BY NoMatchNoSpent DEF SpentKnown
  <2>2. m < r => ~KnownSpent(k, tx.vin[k].ring[m])
    BY <1>1, <1>3 DEF SeenInv, SeenAt
  <2> QED BY <1>3, <2>1, <2>2
<1>5. CASE k' = k /\ r' = r + 1
  <2>1. (Now("real")' <=> Now("real")) /\ (Ran("real")' <=> Ran("real"))
    BY <1>1, <1>2 DEF Now, Ran, Turns
  <2>2. ASSUME NEW j \in DOMAIN tx.vin, SpentKnown(j), status # "threw"
        PROVE  SeenAt(j)'
    <3>1. SeenAt(j)
      BY <2>2 DEF SeenInv
    <3>2. Reported(j) => Reported(j)'
      BY <1>1, ReportedKept
    <3>3. j = k => \A m \in DOMAIN tx.vin[j].ring :
              m < r' => ~KnownSpent(j, tx.vin[j].ring[m])
      BY <1>3, <1>4, <1>5, <2>2
    <3> QED BY <1>1, <1>2, <1>5, <2>1, <3>1, <3>2, <3>3, SpentStays DEF SeenAt
  <2> QED BY <1>1, <1>2, <2>2, SpentStays DEF SeenInv
<1>6. CASE NextInput /\ r >= Len(tx.vin[k].ring)
  <2>1. SpentKnown(k) /\ status # "threw" => FALSE
    <3> SUFFICES ASSUME SpentKnown(k), status # "threw" PROVE FALSE
      OBVIOUS
    <3>1. PICK m \in DOMAIN tx.vin[k].ring : KnownSpent(k, tx.vin[k].ring[m])
      BY DEF SpentKnown, KnownSpent, Range
    <3>2. m <= r
      BY <1>3, <1>6
    <3> QED BY <1>4, <3>1, <3>2
  <2>2. status # "threw"
    BY <1>1 DEF Running
  <2> QED BY <1>1, <1>6, <2>1, <2>2, SeenNextInput
<1> QED BY <1>1, <1>3, <1>5, <1>6 DEF AfterMember

(* No step misses one.                                                     *)
LEMMA NextSeen == TInv /\ SeenInv /\ [Next]_vars => SeenInv'
<1> SUFFICES ASSUME TInv, SeenInv, [Next]_vars
             PROVE  SeenInv'
  OBVIOUS
<1>1. CASE RealNoMatch
  BY <1>1, NoMatchSeen
<1>2. CASE RealMatch
  BY <1>2, SeenNextInput, MatchReported, RealMatchFacts DEF RealMatch
<1>3. CASE SkipInput
  BY <1>3, SeenNextInput DEF SkipInput, SpentKnown
<1>4. CASE RunOutput
  <2>1. /\ turn' = turn + 1 /\ order[turn] = "output" /\ turn <= Len(order)
        /\ k' = 1 /\ r' = 0
    BY <1>4 DEF RunOutput, Running, TInv, FreshInv
  <2> QED BY <2>1, SeenNextTurn
<1>5. CASE NextIdentifier
  <2>1. /\ turn' = turn + 1 /\ turn <= Len(order) /\ k' = 1 /\ r' = 0
        /\ order[turn] = "real" => k > Len(tx.vin)
    BY <1>5 DEF NextIdentifier, AtEnd, Running
  <2> QED BY <2>1, SeenNextTurn
<1>6. CASE LookUpRing \/ ScanMember \/ RealRefused \/ PopBlock
             \/ UNCHANGED vars
  <2>1. turn' = turn /\ k' = k /\ (r' = r \/ r' = 1)
    BY <1>6 DEF LookUpRing, ScanMember, RealRefused, PopBlock, vars, cursor
  <2> QED BY <2>1, SeenKept
<1>7. CASE GuessMember \/ StartMatching \/ CheckOffsets \/ MatchRing
  <2>1. turn' = turn
    BY <1>7 DEF GuessMember, StartMatching, CheckOffsets, MatchRing
  <2>2. ~Now("real")
    <3>1. CASE GuessMember \/ StartMatching
      BY <3>1 DEF GuessMember, StartMatching, Scanning, Now
    <3>2. CASE CheckOffsets \/ MatchRing
      BY <3>2, MatchingFound DEF CheckOffsets, MatchRing, Now
    <3> QED BY <1>7, <3>1, <3>2
  <2> QED BY <2>1, <2>2, SeenKept
<1> QED
  BY <1>1, <1>2, <1>3, <1>4, <1>5, <1>6, <1>7 DEF Next, Identify

(* At the beginning there is nothing to have missed.                       *)
LEMMA InitSeen == Init => SeenInv
<1> SUFFICES ASSUME Init, NEW j \in DOMAIN tx.vin PROVE SeenAt(j)
  BY DEF SeenInv
<1>1. TInv
  BY InitTInv
<1>2. /\ DOMAIN order \subseteq 1..Len(order) /\ Len(order) \in Nat
      /\ DOMAIN tx.vin = 1..Len(tx.vin) /\ Len(tx.vin) \in Nat
      /\ DOMAIN tx.vin[j].ring \subseteq Nat
  BY <1>1, AtInputFacts, SpendFacts DEF TInv, FixedInv
<1>3. turn = 1 /\ k = 1 /\ r = 0
  BY DEF Init
<1>4. ~Ran("real")
  BY <1>2, <1>3 DEF Ran, Turns
<1>5. ~(j < k)
  BY <1>2, <1>3
<1>6. \A m \in DOMAIN tx.vin[j].ring : ~(m < r)
  BY <1>2, <1>3
<1> QED BY <1>4, <1>5, <1>6 DEF SeenAt

(* Once RealInput returned, no input that spends an output of an address   *)
(* known at first is without a record, whatever stands before that output  *)
(* in its ring and whatever the earlier identifiers did to the account     *)
(* (UniversalIdentifier.cpp:629-797).                                      *)
THEOREM KnownSpendsAlwaysFound == Spec => []KnownSpendsFound
<1>1. Init => TInv /\ SeenInv
  BY InitTInv, InitSeen
<1>2. TInv /\ SeenInv /\ [Next]_vars => (TInv /\ SeenInv)'
  BY NextTInv, NextSeen
<1>3. SeenInv => KnownSpendsFound
  BY DEF SeenInv, SeenAt, KnownSpendsFound, Reported
<1> QED BY <1>1, <1>2, <1>3, PTL DEF Spec

-----------------------------------------------------------------------------
(* What GuessInput and Input record.                                       *)

(* What is in a concatenation.                                             *)
LEMMA RangeOfBoth ==
    ASSUME NEW S, NEW s \in Seq(S), NEW t \in Seq(S)
    PROVE  Range(s \o t) = Range(s) \cup Range(t)
<1>1. /\ s \o t \in Seq(S) /\ Len(s \o t) = Len(s) + Len(t)
      /\ Len(s) \in Nat /\ Len(t) \in Nat
      /\ DOMAIN (s \o t) = 1..(Len(s) + Len(t))
      /\ DOMAIN s = 1..Len(s) /\ DOMAIN t = 1..Len(t)
  OBVIOUS
<1>2. ASSUME NEW n \in DOMAIN (s \o t)
      PROVE  (s \o t)[n] \in Range(s) \cup Range(t)
  <2>1. CASE n <= Len(s)
    <3>1. n \in DOMAIN s /\ (s \o t)[n] = s[n]
      BY <1>1, <2>1
    <3> QED BY <3>1 DEF Range
  <2>2. CASE n > Len(s)
    <3>1. n - Len(s) \in DOMAIN t /\ (s \o t)[n] = t[n - Len(s)]
      BY <1>1, <2>2
    <3> QED BY <3>1 DEF Range
  <2> QED BY <1>1, <2>1, <2>2
<1>3. ASSUME NEW n \in DOMAIN s
      PROVE  s[n] \in Range(s \o t)
  <2>1. n \in DOMAIN (s \o t) /\ (s \o t)[n] = s[n]
    BY <1>1
  <2> QED BY <2>1 DEF Range
<1>4. ASSUME NEW n \in DOMAIN t
      PROVE  t[n] \in Range(s \o t)
  <2>1. Len(s) + n \in DOMAIN (s \o t) /\ (s \o t)[Len(s) + n] = t[n]
    BY <1>1
  <2> QED BY <2>1 DEF Range
<1>5. Range(s \o t) \subseteq Range(s) \cup Range(t)
  BY <1>2 DEF Range
<1>6. Range(s) \subseteq Range(s \o t) /\ Range(t) \subseteq Range(s \o t)
  BY <1>3, <1>4 DEF Range
<1> QED BY <1>5, <1>6

(* The entries that an input matches, and what is recorded for them.       *)
Matched(txin, known) ==
    {e \in known :
        \E m \in DOMAIN txin.ring : e.pub_key = PubKey(txin.ring[m])}

(* The records of a ring are those of its matches.                         *)
LEMMA MatchesRange ==
    ASSUME NEW txin \in TxIn, NEW known \in SUBSET KnownEntry
    PROVE  LET ms == MatchesOfRing(txin, known)
           IN  /\ \A x \in Range(ms) : \E e \in Matched(txin, known) :
                     x = RecordOfEntry(txin, e)
               /\ \A e \in Matched(txin, known) :
                     \E f \in known : /\ f.pub_key = e.pub_key
                                      /\ RecordOfEntry(txin, f) \in Range(ms)
<1> DEFINE ms == MatchesOfRing(txin, known)
<1>1. DOMAIN txin.ring = 1..Len(txin.ring)
  BY DEF TxIn
<1>2. /\ MatchesTrue(txin, known, ms, Len(txin.ring))
      /\ MatchesComplete(txin, known, ms, Len(txin.ring))
  BY MatchesOfRingFacts
<1> HIDE DEF ms
<1>3. ASSUME NEW x \in Range(ms)
      PROVE  \E e \in Matched(txin, known) : x = RecordOfEntry(txin, e)
  BY <1>1, <1>2, <1>3 DEF MatchesTrue, KnownAt, Matched, Range
<1>4. ASSUME NEW e \in Matched(txin, known)
      PROVE  \E f \in known : /\ f.pub_key = e.pub_key
                              /\ RecordOfEntry(txin, f) \in Range(ms)
  <2>1. PICK m \in DOMAIN txin.ring : e \in KnownAt(txin, known, m)
    BY DEF Matched, KnownAt
  <2>2. PICK l \in DOMAIN ms : \E f \in KnownAt(txin, known, m) :
            ms[l] = RecordOfEntry(txin, f)
    BY <1>1, <1>2, <2>1 DEF MatchesComplete
  <2> QED BY <2>1, <2>2 DEF KnownAt, Range
<1> QED BY <1>3, <1>4 DEF ms

(* What MatchRing does, unless it throws.                                  *)
LEMMA MatchRingFacts ==
    ASSUME TInv, MatchRing
    PROVE  LET id == order[turn]
               known == IF id = "guess" THEN known_outputs ELSE Given
               ms == MatchesOfRing(tx.vin[k], known)
           IN  /\ id \in {"input", "guess"} /\ AtInput /\ k \in DOMAIN tx.vin
               /\ tx.vin[k].is_key /\ tx.vin[k] \in TxIn
               /\ known \in SUBSET KnownEntry
               /\ id = "guess" => matching
               /\ \/ identified' = identified /\ status' = "threw"
                  \/ /\ identified' = [identified EXCEPT ![id] = @ \o ms]
                     /\ Range(identified'[id])
                            = Range(identified[id]) \cup Range(ms)
                     /\ NextInput /\ RingOnChain
<1> DEFINE id == order[turn]
           known == IF id = "guess" THEN known_outputs ELSE Given
           ms == MatchesOfRing(tx.vin[k], known)
<1>1. /\ id \in {"input", "guess"} /\ AtInput /\ k \in DOMAIN tx.vin
      /\ tx.vin[k].is_key /\ tx.vin[k] \in TxIn
  BY MatchingFound, AtInputFacts DEF MatchRing, TInv, CursorInv
<1>2. known = KnownOutputs /\ (id = "guess" => matching)
  BY <1>1 DEF KnownOutputs, MatchRing, Matching, TInv, FreshInv
<1>3. known \in SUBSET KnownEntry
  BY <1>2, KnownOutputsType
<1>4. ms \in Seq(InputRecord)
  <2>1. ms \in Seq(RecordOf(tx.vin[k]))
    BY <1>1, <1>3, MatchesOfRingFacts
  <2> QED BY <1>1, <2>1, RecordOfInput
<1>5. \/ identified' = identified /\ status' = "threw"
      \/ /\ identified' = [identified EXCEPT ![id] = @ \o ms]
         /\ NextInput /\ RingOnChain
  BY <1>2 DEF MatchRing, Throw
<1> HIDE DEF ms, known
<1>6. identified' = [identified EXCEPT ![id] = @ \o ms] =>
          Range(identified'[id]) = Range(identified[id]) \cup Range(ms)
  <2> SUFFICES ASSUME identified' = [identified EXCEPT ![id] = @ \o ms]
               PROVE  Range(identified'[id])
                          = Range(identified[id]) \cup Range(ms)
    OBVIOUS
  <2>1. identified[id] \in Seq(InputRecord)
        /\ identified'[id] = identified[id] \o ms
    BY <1>1 DEF TInv, ResultsInv
  <2> QED BY <1>4, <2>1, RangeOfBoth
<1> QED BY <1>1, <1>2, <1>3, <1>5, <1>6 DEF ms, known

(* Nothing else adds to the records of Input and GuessInput.               *)
LEMMA RecordsKept ==
    ASSUME TInv, [Next]_vars, NEW id \in {"input", "guess"},
           ~(MatchRing /\ order[turn] = id)
    PROVE  identified'[id] = identified[id]
<1>1. CASE MatchRing
  BY <1>1, MatchRingFacts DEF TInv, ResultsInv
<1>2. CASE RealMatch
  BY <1>2, RealMatchFacts DEF TInv, ResultsInv
<1>3. CASE UNCHANGED identified
  BY <1>3
<1> QED
  BY <1>1, <1>2, <1>3
     DEF Next, Identify, SkipInput, LookUpRing, ScanMember, RunOutput,
         GuessMember, StartMatching, CheckOffsets, RealNoMatch, RealRefused,
         NextIdentifier, PopBlock, vars, results

(* Outputs that Output can find, by what an account knows, and their       *)
(* entries in a map of known outputs.                                      *)
Findable(s, acc) ==
    {ref \in Refs : CanFind(s, acc, Chain[ref[1]], ref[2])}

EntryAt(ref) ==
    [pub_key |-> PubKey(ref), amount |-> Amount(Chain[ref[1]], ref[2])]

Findables(s, acc) == {EntryAt(ref) : ref \in Findable(s, acc)}

KnownTrue == known_outputs \subseteq Findables(searcher, account)

(* A larger account finds more.                                            *)
LEMMA FindablesMonotone ==
    ASSUME NEW s, NEW a, NEW b, a.subaddresses \subseteq b.subaddresses
    PROVE  Findables(s, a) \subseteq Findables(s, b)
  BY CanFindMonotone DEF Findables, Findable

(* The records of Output are entries of what it can find.                  *)
LEMMA TruthfulEntry ==
    ASSUME NEW ref \in Refs, NEW s, NEW acc, NEW infos,
           AllTruthful(infos, s, acc, Chain[ref[1]]), NEW n \in DOMAIN infos
    PROVE  /\ <<ref[1], infos[n].idx_in_tx>> \in Findable(s, acc)
           /\ EntryOf(infos[n]) = EntryAt(<<ref[1], infos[n].idx_in_tx>>)
<1>1. Truthful(infos[n], s, acc, Chain[ref[1]])
  BY DEF AllTruthful
<1> DEFINE other == <<ref[1], infos[n].idx_in_tx>>
<1>2. other \in Refs /\ other[1] = ref[1] /\ other[2] = infos[n].idx_in_tx
  BY <1>1, RefOf DEF Truthful
<1>3. CanFind(s, acc, Chain[other[1]], other[2])
  BY <1>1, <1>2 DEF Truthful
<1> HIDE DEF other
<1>4. EntryOf(infos[n]) = EntryAt(other)
  BY <1>1, <1>2 DEF EntryOf, EntryAt, Truthful, PubKey
<1> QED BY <1>2, <1>3, <1>4 DEF Findable, other

(* The map of GuessInput holds nothing but what the account can find.      *)
LEMMA NextKnownTrue == TInv /\ KnownTrue /\ [Next]_vars => KnownTrue'
<1> SUFFICES ASSUME TInv, KnownTrue, [Next]_vars
             PROVE  KnownTrue'
  OBVIOUS
<1>1. /\ searcher' = searcher
      /\ account.subaddresses \subseteq account'.subaddresses
  BY AccountGrows
<1>2. Findables(searcher, account) \subseteq Findables(searcher', account')
  BY <1>1, FindablesMonotone
<1>3. CASE GuessMember
  <2>1. found # {} /\ Running
    BY <1>3 DEF GuessMember, Scanning, AtInput
  <2>2. PICK infos :
            /\ found = {infos}
            /\ GoodFound(infos, searcher, initial, account, Chain[Member[1]])
    BY <2>1, AtFound
  <2>3. AllTruthful(infos, searcher, account, Chain[Member[1]])
        /\ Member \in Refs
    BY <2>1, <2>2, AtFound DEF GoodFound
  <2>4. \A n \in DOMAIN infos :
            EntryOf(infos[n]) \in Findables(searcher, account)
    BY <2>3, TruthfulEntry DEF Findables
  <2>5. known_outputs' = KnownAfter(known_outputs, infos)
    BY <1>3, <2>2 DEF GuessMember
  <2> QED BY <1>2, <2>4, <2>5, KnownAfterFrom DEF KnownTrue
<1>4. CASE known_outputs' \subseteq known_outputs
  BY <1>2, <1>4 DEF KnownTrue
<1> QED
  BY <1>3, <1>4
     DEF Next, Identify, SkipInput, LookUpRing, ScanMember, RunOutput,
         StartMatching, CheckOffsets, MatchRing, RealNoMatch, RealMatch,
         RealRefused, NextIdentifier, PopBlock, vars

(* x is the record of a match of txin's ring with an output of ours.       *)
GuessOf(x, s, acc, txin) ==
    /\ txin.is_key
    /\ \E e \in Matched(txin, Findables(s, acc)) : x = RecordOfEntry(txin, e)

GuessTrue ==
    \A x \in Range(identified["guess"]) : \E j \in DOMAIN tx.vin :
        GuessOf(x, searcher, account, tx.vin[j])

(* So does a record of such an entry hold for a larger account.            *)
LEMMA GuessOfMonotone ==
    ASSUME NEW x, NEW s, NEW a, NEW b, a.subaddresses \subseteq b.subaddresses,
           NEW txin, GuessOf(x, s, a, txin)
    PROVE  GuessOf(x, s, b, txin)
<1>1. Findables(s, a) \subseteq Findables(s, b)
  BY FindablesMonotone
<1> QED BY <1>1 DEF GuessOf, Matched

(* Every guess is such a record.                                           *)
LEMMA NextGuessTrue ==
    TInv /\ KnownTrue /\ GuessTrue /\ [Next]_vars => GuessTrue'
<1> SUFFICES ASSUME TInv, KnownTrue, GuessTrue, [Next]_vars
             PROVE  GuessTrue'
  OBVIOUS
<1>1. UNCHANGED <<searcher, tx>>
      /\ account.subaddresses \subseteq account'.subaddresses
  BY AccountGrows
<1>2. \A x \in Range(identified["guess"]) : \E j \in DOMAIN tx.vin :
          GuessOf(x, searcher, account', tx.vin[j])
  BY <1>1, GuessOfMonotone DEF GuessTrue
<1>3. CASE MatchRing /\ order[turn] = "guess"
  <2> DEFINE ms == MatchesOfRing(tx.vin[k], known_outputs)
  <2>1. /\ k \in DOMAIN tx.vin /\ tx.vin[k].is_key /\ tx.vin[k] \in TxIn
        /\ known_outputs \in SUBSET KnownEntry
        /\ \/ identified' = identified
           \/ Range(identified'["guess"])
                  = Range(identified["guess"]) \cup Range(ms)
    BY <1>3, MatchRingFacts
  <2>2. \A x \in Range(ms) : \E e \in Matched(tx.vin[k], known_outputs) :
            x = RecordOfEntry(tx.vin[k], e)
    BY <2>1, MatchesRange
  <2>3. Matched(tx.vin[k], known_outputs)
            \subseteq Matched(tx.vin[k], Findables(searcher, account))
    BY DEF KnownTrue, Matched
  <2> HIDE DEF ms
  <2>4. \A x \in Range(ms) : GuessOf(x, searcher, account, tx.vin[k])
    BY <2>1, <2>2, <2>3 DEF GuessOf
  <2>5. \A x \in Range(ms) : GuessOf(x, searcher, account', tx.vin[k])
    BY <1>1, <2>4, GuessOfMonotone
  <2> QED BY <1>1, <1>2, <2>1, <2>5 DEF GuessTrue
<1>4. CASE ~(MatchRing /\ order[turn] = "guess")
  <2>1. identified'["guess"] = identified["guess"]
    BY <1>4, RecordsKept
  <2> QED BY <1>1, <1>2, <2>1 DEF GuessTrue
<1> QED BY <1>3, <1>4

(* At the beginning there are no guesses.                                  *)
LEMMA InitGuess == Init => KnownTrue /\ GuessTrue
  BY DEF Init, KnownTrue, GuessTrue, Range

(* If equal keys are equal payments, such a record is true of the ring     *)
(* member.                                                                 *)
LEMMA GuessOfIsTrueInfo ==
    ASSUME TInv, EqualKeysEqualAmounts, NEW j \in DOMAIN tx.vin, NEW x,
           GuessOf(x, searcher, account, tx.vin[j])
    PROVE  tx.vin[j].is_key /\ x \in TrueInfos(account, j)
<1>1. \A n \in DOMAIN tx.vin[j].ring : tx.vin[j].ring[n] \in Refs
  BY SpendFacts DEF TInv, FixedInv
<1>2. PICK other \in Findable(searcher, account) :
          /\ x = RecordOfEntry(tx.vin[j], EntryAt(other))
          /\ \E m \in DOMAIN tx.vin[j].ring :
                EntryAt(other).pub_key = PubKey(tx.vin[j].ring[m])
  BY DEF GuessOf, Matched, Findables
<1>3. PICK m \in DOMAIN tx.vin[j].ring :
          PubKey(other) = PubKey(tx.vin[j].ring[m])
  BY <1>2 DEF EntryAt
<1> DEFINE ref == tx.vin[j].ring[m]
<1>4. /\ ref \in Refs /\ ref \in Range(tx.vin[j].ring) /\ other \in Refs
      /\ CanFind(searcher, account, Chain[other[1]], other[2])
  BY <1>1, <1>2 DEF Range, Findable
<1>5. /\ Output(other).spend_key = Output(ref).spend_key
      /\ Amount(Chain[other[1]], other[2]) = Amount(Chain[ref[1]], ref[2])
  BY <1>3, <1>4 DEF EqualKeysEqualAmounts
<1>6. IsOurs(account, ref)
  BY <1>4, <1>5 DEF CanFind, IsOurs, Output
<1>7. x = TrueInfo(j, ref)
  BY <1>2, <1>3, <1>5 DEF TrueInfo, RecordOfEntry, EntryAt
<1> QED BY <1>4, <1>6, <1>7 DEF TrueInfos, GuessOf

(* A guess is always a ring member of the input with its key image, an     *)
(* output of ours, with its amount, although one map holds the outputs of  *)
(* all rings and the inputs are gone through twice                         *)
(* (UniversalIdentifier.cpp:515-606), if equal one-time keys are equal     *)
(* payments.                                                               *)
THEOREM GuessesAlwaysTrue ==
    ASSUME EqualKeysEqualAmounts
    PROVE  Spec => []GuessesAreTrue
<1>1. Init => TInv /\ KnownTrue /\ GuessTrue
  BY InitTInv, InitGuess
<1>2. TInv /\ KnownTrue /\ GuessTrue /\ [Next]_vars
          => (TInv /\ KnownTrue /\ GuessTrue)'
  BY NextTInv, NextKnownTrue, NextGuessTrue
<1>3. TInv /\ GuessTrue => GuessesAreTrue
  <2> SUFFICES ASSUME TInv, GuessTrue, NEW n \in DOMAIN identified["guess"]
               PROVE  \E j \in DOMAIN tx.vin :
                         /\ tx.vin[j].is_key
                         /\ identified["guess"][n] \in TrueInfos(account, j)
    BY DEF GuessesAreTrue
  <2>1. identified["guess"][n] \in Range(identified["guess"])
    BY DEF Range
  <2>2. PICK j \in DOMAIN tx.vin :
            GuessOf(identified["guess"][n], searcher, account, tx.vin[j])
    BY <2>1 DEF GuessTrue
  <2> QED BY <2>2, GuessOfIsTrueInfo
<1> QED BY <1>1, <1>2, <1>3, PTL DEF Spec

-----------------------------------------------------------------------------
(* What GuessInput does not miss: outputs that can be found by a base, an  *)
(* account no larger than the one it began with.                           *)

RingTx(j, m) == Chain[tx.vin[j].ring[m][1]]

CollectedFrom(j, m, base) ==
    \A l \in DOMAIN RingTx(j, m).vout :
        CanFind(searcher, base, RingTx(j, m), l) =>
            \E e \in known_outputs : e.pub_key = RingTx(j, m).vout[l].pub_key

(* The map holds what the ring members so far brought.                     *)
Collected(base) ==
    Now("guess") =>
        \A j \in DOMAIN tx.vin : tx.vin[j].is_key =>
            \A m \in DOMAIN tx.vin[j].ring :
                matching \/ j < k \/ (j = k /\ m < r) =>
                    CollectedFrom(j, m, base)

FoundCovers(base) ==
    found # {} => \E infos :
        /\ found = {infos}
        /\ \A l \in DOMAIN Chain[Member[1]].vout :
              CanFind(searcher, base, Chain[Member[1]], l) =>
                  \E n \in DOMAIN infos :
                      infos[n].pub_key = Chain[Member[1]].vout[l].pub_key

(* Guesses for whatever a ring refers to and its transactions held of ours.*)
CoveredIn(j, base) ==
    \A m, n \in DOMAIN tx.vin[j].ring : \A l \in DOMAIN RingTx(j, m).vout :
        /\ CanFind(searcher, base, RingTx(j, m), l)
        /\ RingTx(j, m).vout[l].pub_key = PubKey(tx.vin[j].ring[n])
        => \E x \in Range(identified["guess"]) :
              /\ x.key_img = tx.vin[j].k_image
              /\ x.out_pub_key = RingTx(j, m).vout[l].pub_key

GuessedAt(j) == Ran("guess") \/ (Now("guess") /\ matching /\ j < k)

(* An input without guesses was skipped for its ring, and still would be.  *)
Covers(base) ==
    \A j \in DOMAIN tx.vin : tx.vin[j].is_key /\ GuessedAt(j) =>
        ~OnChain(Last(tx.vin[j].ring)) \/ CoveredIn(j, base)

CoverInv(base) ==
    /\ base.subaddresses \subseteq account.subaddresses
    /\ Collected(base) /\ FoundCovers(base) /\ Covers(base)

(* The chain only gets shorter, and no record is taken back.               *)
LEMMA HeightFalls ==
    ASSUME TInv, [Next]_vars
    PROVE  height' <= height /\ height \in Nat /\ height' \in Nat
<1>1. height \in Nat /\ height' \in Nat
  <2>1. TInv'
    BY NextTInv
  <2> QED BY <2>1 DEF TInv, CursorInv
<1>2. CASE PopBlock
  BY <1>1, <1>2 DEF PopBlock
<1>3. CASE height' = height
  BY <1>1, <1>3
<1> QED
  BY <1>1, <1>2, <1>3
     DEF Next, Identify, SkipInput, LookUpRing, ScanMember, RunOutput,
         GuessMember, StartMatching, CheckOffsets, MatchRing, RealNoMatch,
         RealMatch, RealRefused, NextIdentifier, vars

(* No record is taken back.                                                *)
LEMMA RecordsGrow ==
    ASSUME TInv, [Next]_vars, NEW id \in {"input", "guess"}
    PROVE  Range(identified[id]) \subseteq Range(identified'[id])
<1>1. CASE MatchRing /\ order[turn] = id
  BY <1>1, MatchRingFacts
<1>2. CASE ~(MatchRing /\ order[turn] = id)
  BY <1>2, RecordsKept
<1> QED BY <1>1, <1>2

(* An input that was covered, or skipped, stays so.                        *)
LEMMA CoveredStays ==
    ASSUME TInv, [Next]_vars, NEW j \in DOMAIN tx.vin, NEW base
    PROVE  /\ tx' = tx
           /\ CoveredIn(j, base) => CoveredIn(j, base)'
           /\ tx.vin[j].is_key /\ ~OnChain(Last(tx.vin[j].ring)) =>
                 ~OnChain(Last(tx.vin[j].ring))'
<1>1. UNCHANGED <<searcher, tx, order>>
  BY AccountGrows
<1>2. Range(identified["guess"]) \subseteq Range(identified'["guess"])
  BY RecordsGrow
<1>3. CoveredIn(j, base) => CoveredIn(j, base)'
  <2>1. \A m : RingTx(j, m)' = RingTx(j, m)
    BY <1>1 DEF RingTx
  <2>2. \A l, t : CanFind(searcher, base, t, l)'
                    <=> CanFind(searcher, base, t, l)
    BY <1>1
  <2> QED BY <1>1, <1>2, <2>1, <2>2 DEF CoveredIn
<1>4. tx.vin[j].is_key => Last(tx.vin[j].ring) \in Refs
  BY SpendFacts DEF TInv, FixedInv, Last
<1>5. tx.vin[j].is_key => Last(tx.vin[j].ring)[1] \in Nat
  <2> DEFINE ref == Last(tx.vin[j].ring)
  <2> HIDE DEF ref
  <2>1. ref \in Refs => ref[1] \in Nat
    BY RefFacts
  <2> QED BY <1>4, <2>1 DEF ref
<1> QED BY <1>1, <1>3, <1>5, HeightFalls DEF OnChain

(* What was found in a ring member holds all that the base can find.       *)
LEMMA NextFoundCovers ==
    ASSUME NEW base, TInv, CoverInv(base), [Next]_vars
    PROVE  FoundCovers(base)'
<1>1. UNCHANGED <<searcher, tx, order>>
  BY AccountGrows
<1>2. CASE ScanMember /\ found' # {}
  <2>1. AtInput /\ r > 0 /\ found = {} /\ UNCHANGED <<k, r>>
    BY <1>2 DEF ScanMember, Scanning, cursor
  <2>2. Member' = Member /\ Member \in Refs
        /\ Chain[Member[1]] \in Transaction
    BY <1>1, <2>1, AtInputFacts, RefFacts DEF Member
  <2>3. PICK result :
            /\ result = IdentifyOutputs(searcher, account, Chain[Member[1]])
            /\ ~result.threw /\ found' = {result.outputs}
    BY <1>2, <2>1 DEF ScanMember
  <2>4. GoodFound(result.outputs, searcher, base, result.account,
                  Chain[Member[1]])
    BY <2>2, <2>3, ResultGood DEF CoverInv
  <2>5. \A l \in DOMAIN Chain[Member[1]].vout :
            CanFind(searcher, base, Chain[Member[1]], l) =>
                \E n \in DOMAIN result.outputs :
                    result.outputs[n].pub_key
                        = Chain[Member[1]].vout[l].pub_key
    BY <2>4 DEF GoodFound, AllTruthful, Truthful
  <2> QED BY <1>1, <2>2, <2>3, <2>5 DEF FoundCovers
<1>3. CASE found' = {}
  BY <1>3 DEF FoundCovers
<1>4. CASE found' = found /\ UNCHANGED <<k, r>>
  <2>1. Member' = Member
    BY <1>1, <1>4 DEF Member
  <2> QED BY <1>1, <1>4, <2>1 DEF FoundCovers, CoverInv
<1>5. CASE found = {} /\ found' = found
  BY <1>3, <1>5
<1>6. found = {} \/ ~(SkipInput \/ LookUpRing \/ RunOutput \/ StartMatching
                      \/ CheckOffsets \/ MatchRing \/ NextIdentifier)
  <2>1. CASE SkipInput \/ LookUpRing
    BY <2>1 DEF SkipInput, LookUpRing, TInv, FoundInv, CursorInv
  <2>2. CASE CheckOffsets \/ MatchRing
    BY <2>2, MatchingFound DEF CheckOffsets, MatchRing
  <2>3. CASE RunOutput \/ StartMatching \/ NextIdentifier
    <3>1. Len(tx.vin) \in Nat /\ k \in Nat
      BY AtInputFacts DEF TInv, CursorInv
    <3> QED
      BY <2>3, <3>1 DEF RunOutput, StartMatching, NextIdentifier, AtEnd,
                        TInv, FoundInv
  <2> QED BY <2>1, <2>2, <2>3
<1> QED
  BY <1>2, <1>3, <1>4, <1>5, <1>6
     DEF Next, Identify, SkipInput, LookUpRing, ScanMember, RunOutput,
         GuessMember, StartMatching, CheckOffsets, MatchRing, RealNoMatch,
         RealMatch, RealRefused, NextIdentifier, PopBlock, vars, cursor

(* What a ring member brought is in the map afterwards.                    *)
LEMMA KnownAfterCovers ==
    ASSUME NEW known, NEW infos, NEW last \in Nat, DOMAIN infos = 1..last,
           NEW n \in DOMAIN infos
    PROVE  \E e \in KnownAfter(known, infos) : e.pub_key = infos[n].pub_key
<1> DEFINE same == {m \in DOMAIN infos : infos[m].pub_key = infos[n].pub_key}
<1>1. PICK m \in same : \A l \in same : m <= l
  <2>1. same \in SUBSET Nat /\ same # {}
    OBVIOUS
  <2> HIDE DEF same
  <2> QED BY <2>1, SmallestExists
<1>2. m \in DOMAIN infos /\ m \in Nat
      /\ infos[m].pub_key = infos[n].pub_key
  BY <1>1
<1>3. \A l \in 1..(m - 1) : infos[l].pub_key # infos[m].pub_key
  <2> SUFFICES ASSUME NEW l \in 1..(m - 1)
               PROVE  infos[l].pub_key # infos[m].pub_key
    OBVIOUS
  <2>1. l \in DOMAIN infos /\ l < m
    BY <1>2
  <2> QED BY <1>1, <1>2, <2>1
<1>4. CASE \A e \in known : e.pub_key # infos[m].pub_key
  <2>1. EntryOf(infos[m]) \in KnownAfter(known, infos)
    BY <1>2, <1>3, <1>4 DEF KnownAfter, EntryOf
  <2> QED BY <1>2, <2>1 DEF EntryOf
<1>5. CASE \E e \in known : e.pub_key = infos[m].pub_key
  BY <1>2, <1>5, KnownAfterFrom
<1> QED BY <1>4, <1>5

(* A step that leaves the map and the ring member alone.                   *)
LEMMA CollectedKept ==
    ASSUME NEW base, TInv, Collected(base), [Next]_vars,
           turn' = turn, known_outputs' = known_outputs,
           Now("guess") =>
               \A j \in DOMAIN tx.vin : tx.vin[j].is_key =>
                   \A m \in DOMAIN tx.vin[j].ring :
                       matching' \/ j < k' \/ (j = k' /\ m < r') =>
                           matching \/ j < k \/ (j = k /\ m < r)
    PROVE  Collected(base)'
<1>1. UNCHANGED <<searcher, tx, order>>
  BY AccountGrows
<1>2. Now("guess")' <=> Now("guess")
  BY <1>1 DEF Now
<1>3. \A j, m : CollectedFrom(j, m, base) => CollectedFrom(j, m, base)'
  <2>1. \A j, m : RingTx(j, m)' = RingTx(j, m)
    BY <1>1 DEF RingTx
  <2> QED BY <1>1, <2>1 DEF CollectedFrom
<1> QED BY <1>1, <1>2, <1>3 DEF Collected

(* GuessMember moves what was found to the map, and on.                    *)
LEMMA GuessMemberCollects ==
    ASSUME NEW base, TInv, CoverInv(base), GuessMember
    PROVE  Collected(base)'
<1>1. /\ AtInput /\ Running /\ Now("guess") /\ tx.vin[k].is_key /\ ~matching
      /\ found # {} /\ turn' = turn /\ matching' = matching /\ AfterMember
      /\ [Next]_vars
  BY DEF GuessMember, Scanning, AtInput, Running, Now, Next, Identify
<1>2. UNCHANGED <<searcher, tx, order>>
  BY <1>1, AccountGrows
<1>3. PICK infos :
          /\ found = {infos}
          /\ \A l \in DOMAIN Chain[Member[1]].vout :
                CanFind(searcher, base, Chain[Member[1]], l) =>
                    \E n \in DOMAIN infos :
                        infos[n].pub_key = Chain[Member[1]].vout[l].pub_key
  BY <1>1 DEF CoverInv, FoundCovers
<1>4. DOMAIN infos = 1..Len(infos) /\ Len(infos) \in Nat
  <2>1. PICK good : /\ found = {good}
                    /\ GoodFound(good, searcher, initial, account,
                                 Chain[Member[1]])
    BY <1>1, AtFound
  <2>2. good = infos
    BY <1>3, <2>1
  <2> QED BY <2>1, <2>2 DEF GoodFound
<1>5. known_outputs' = KnownAfter(known_outputs, infos)
  BY <1>3 DEF GuessMember
<1>6. known_outputs \subseteq known_outputs'
  BY <1>5, KnownAfterFrom
<1>7. /\ k \in DOMAIN tx.vin /\ k \in Nat /\ r \in Nat
      /\ DOMAIN tx.vin \subseteq Nat
      /\ \A j \in DOMAIN tx.vin : /\ DOMAIN tx.vin[j].ring \subseteq Nat
                                  /\ \A m \in DOMAIN tx.vin[j].ring :
                                        m <= Len(tx.vin[j].ring)
      /\ Len(tx.vin[k].ring) \in Nat
  <2>1. tx \in Spends
    BY DEF TInv, FixedInv
  <2> QED BY <1>1, <2>1, AtInputFacts, SpendFacts DEF TInv, CursorInv
<1>8. \A j, m : RingTx(j, m)' = RingTx(j, m)
  BY <1>2 DEF RingTx
<1>9. \A j, m : CollectedFrom(j, m, base) => CollectedFrom(j, m, base)'
  BY <1>2, <1>6, <1>8 DEF CollectedFrom
<1>10. CollectedFrom(k, r, base)
       \/ \A l \in DOMAIN RingTx(k, r).vout :
             CanFind(searcher, base, RingTx(k, r), l) =>
                 \E e \in known_outputs' :
                     e.pub_key = RingTx(k, r).vout[l].pub_key
  <2>1. RingTx(k, r) = Chain[Member[1]]
    BY DEF RingTx, Member
  <2> QED BY <1>3, <1>4, <1>5, <2>1, KnownAfterCovers
<1>11. ASSUME NEW j \in DOMAIN tx.vin, tx.vin[j].is_key,
              NEW m \in DOMAIN tx.vin[j].ring,
              j < k' \/ (j = k' /\ m < r')
       PROVE  CollectedFrom(j, m, base)'
  <2>1. j < k \/ (j = k /\ m < r) \/ (j = k /\ m = r)
    BY <1>1, <1>7, <1>11 DEF AfterMember, NextInput
  <2>2. CASE j < k \/ (j = k /\ m < r)
    BY <1>1, <1>9, <1>11, <2>2 DEF CoverInv, Collected
  <2>3. CASE j = k /\ m = r
    BY <1>2, <1>6, <1>8, <1>10, <2>3 DEF CollectedFrom
  <2> QED BY <2>1, <2>2, <2>3
<1> QED BY <1>1, <1>2, <1>11 DEF Collected

(* No step loses what was collected.                                       *)
LEMMA NextCollected ==
    ASSUME NEW base, TInv, CoverInv(base), [Next]_vars
    PROVE  Collected(base)'
<1>1. UNCHANGED <<searcher, tx, order>> /\ Collected(base)
  BY AccountGrows DEF CoverInv
<1>2. /\ DOMAIN tx.vin = 1..Len(tx.vin) /\ Len(tx.vin) \in Nat
      /\ k \in Nat /\ r \in Nat
      /\ \A j \in DOMAIN tx.vin : DOMAIN tx.vin[j].ring \subseteq Nat \ {0}
  BY AtInputFacts, SpendFacts DEF TInv, FixedInv, CursorInv
<1>3. CASE GuessMember
  BY <1>3, GuessMemberCollects
<1>4. CASE RunOutput \/ NextIdentifier
  <2>1. matching' = FALSE /\ k' = 1 /\ r' = 0
    BY <1>4 DEF RunOutput, NextIdentifier, Running, TInv, FreshInv
  <2>2. \A j \in DOMAIN tx.vin : ~(j < 1) /\
            \A m \in DOMAIN tx.vin[j].ring : ~(m < 0)
    BY <1>2
  <2> QED BY <1>1, <2>1, <2>2 DEF Collected
<1>5. CASE StartMatching
  <2>1. \A j \in DOMAIN tx.vin : j < k
    BY <1>2, <1>5 DEF StartMatching
  <2> QED BY <1>1, <1>5, <2>1, CollectedKept DEF StartMatching
<1>6. CASE SkipInput
  <2>1. \A j \in DOMAIN tx.vin : j < k + 1 => j < k \/ j = k
    BY <1>2
  <2>2. \A j \in DOMAIN tx.vin : \A m \in DOMAIN tx.vin[j].ring : ~(m < 0)
    BY <1>2
  <2> QED BY <1>1, <1>6, <2>1, <2>2, CollectedKept DEF SkipInput, NextInput
<1>7. CASE LookUpRing
  <2>1. \A j \in DOMAIN tx.vin : \A m \in DOMAIN tx.vin[j].ring : ~(m < 1)
    BY <1>2
  <2> QED BY <1>1, <1>7, <2>1, CollectedKept DEF LookUpRing
<1>8. CASE CheckOffsets \/ MatchRing
  <2>1. Now("guess") => matching
    BY <1>8 DEF CheckOffsets, MatchRing, Matching, Now
  <2> QED BY <1>1, <1>8, <2>1, CollectedKept DEF CheckOffsets, MatchRing
<1>9. CASE RealNoMatch \/ RealMatch
  <2>1. ~Now("guess")
    BY <1>9 DEF RealNoMatch, RealMatch, Scanning, Now
  <2> QED BY <1>1, <1>9, <2>1, CollectedKept DEF RealNoMatch, RealMatch
<1>10. CASE ScanMember \/ RealRefused \/ PopBlock \/ UNCHANGED vars
  <2>1. UNCHANGED <<turn, matching, k, r, known_outputs>>
    BY <1>10 DEF ScanMember, RealRefused, PopBlock, vars, cursor
  <2> QED BY <1>1, <2>1, CollectedKept
<1> QED
  BY <1>3, <1>4, <1>5, <1>6, <1>7, <1>8, <1>9, <1>10 DEF Next, Identify

(* GuessInput matched the ring of the current input.                       *)
LEMMA MatchRingCovers ==
    ASSUME NEW base, TInv, CoverInv(base), MatchRing, Now("guess"),
           NEW j \in DOMAIN tx.vin, j = k, status' # "threw"
    PROVE  CoveredIn(j, base)'
<1> DEFINE ms == MatchesOfRing(tx.vin[j], known_outputs)
<1>1. /\ tx.vin[j].is_key /\ tx.vin[j] \in TxIn
      /\ known_outputs \in SUBSET KnownEntry /\ matching
      /\ Range(identified'["guess"])
             = Range(identified["guess"]) \cup Range(ms)
      /\ [Next]_vars
  BY MatchRingFacts DEF Now, Next, Identify
<1>2. UNCHANGED <<searcher, tx, order>>
  BY <1>1, AccountGrows
<1>3. \A e \in Matched(tx.vin[j], known_outputs) :
          \E f \in known_outputs :
              /\ f.pub_key = e.pub_key
              /\ RecordOfEntry(tx.vin[j], f) \in Range(ms)
  BY <1>1, MatchesRange
<1> HIDE DEF ms
<1>4. ASSUME NEW m \in DOMAIN tx.vin[j].ring, NEW n \in DOMAIN tx.vin[j].ring,
             NEW l \in DOMAIN RingTx(j, m).vout,
             CanFind(searcher, base, RingTx(j, m), l),
             RingTx(j, m).vout[l].pub_key = PubKey(tx.vin[j].ring[n])
      PROVE  \E x \in Range(identified'["guess"]) :
                /\ x.key_img = tx.vin[j].k_image
                /\ x.out_pub_key = RingTx(j, m).vout[l].pub_key
  <2>1. CollectedFrom(j, m, base)
    BY <1>1 DEF CoverInv, Collected
  <2>2. PICK e \in known_outputs :
            e.pub_key = RingTx(j, m).vout[l].pub_key
    BY <1>4, <2>1 DEF CollectedFrom
  <2>3. e \in Matched(tx.vin[j], known_outputs)
    BY <1>4, <2>2 DEF Matched
  <2>4. PICK f \in known_outputs :
            /\ f.pub_key = e.pub_key
            /\ RecordOfEntry(tx.vin[j], f) \in Range(ms)
    BY <1>3, <2>3
  <2> QED BY <1>1, <2>2, <2>4 DEF RecordOfEntry, Input
<1>5. \A m : RingTx(j, m)' = RingTx(j, m)
  BY <1>2 DEF RingTx
<1> QED BY <1>2, <1>4, <1>5 DEF CoveredIn

(* A step that passes no input over, or a covered one.                     *)
LEMMA CoversKept ==
    ASSUME NEW base, TInv, CoverInv(base), [Next]_vars,
           \A j \in DOMAIN tx.vin : tx.vin[j].is_key /\ GuessedAt(j)' =>
               \/ GuessedAt(j)
               \/ ~OnChain(Last(tx.vin[j].ring))
               \/ CoveredIn(j, base)'
    PROVE  Covers(base)'
<1>1. tx' = tx
  BY AccountGrows
<1> SUFFICES ASSUME NEW j \in DOMAIN tx.vin, tx.vin[j].is_key, GuessedAt(j)'
             PROVE  ~OnChain(Last(tx.vin[j].ring))' \/ CoveredIn(j, base)'
  BY <1>1 DEF Covers
<1>2. ~OnChain(Last(tx.vin[j].ring)) \/ CoveredIn(j, base)
      \/ CoveredIn(j, base)'
  BY DEF CoverInv, Covers
<1> QED BY <1>2, CoveredStays

(* Which inputs a step adds to those GuessInput is done with.              *)
LEMMA GuessedStep ==
    ASSUME TInv, [Next]_vars, NEW j \in DOMAIN tx.vin, GuessedAt(j)',
           ~GuessedAt(j)
    PROVE  /\ j = k /\ Now("guess") /\ matching /\ status' # "threw"
           /\ SkipInput \/ (CheckOffsets /\ NextInput) \/ MatchRing
<1>1. UNCHANGED <<searcher, tx, order>>
  BY AccountGrows
<1>2. /\ DOMAIN tx.vin = 1..Len(tx.vin) /\ Len(tx.vin) \in Nat
      /\ k \in Nat /\ turn \in Nat /\ DOMAIN order \subseteq Nat /\ j \in Nat
      /\ DOMAIN order = 1..Len(order)
  BY AtInputFacts DEF TInv, CursorInv
<1>3. CASE turn' = turn /\ (matching' => matching) /\ (k' = k \/ k' = k + 1)
  <2>1. Ran("guess")' <=> Ran("guess")
    BY <1>1, <1>3 DEF Ran, Turns
  <2>2. j = k /\ k' = k + 1 /\ Now("guess") /\ matching
    BY <1>1, <1>2, <1>3, <2>1 DEF GuessedAt, Now
  <2>3. k' # k /\ Running
    <3>1. k' # k
      BY <1>2, <2>2
    <3> QED
      BY <3>1 DEF Next, Identify, SkipInput, LookUpRing, ScanMember,
         RunOutput, GuessMember, StartMatching, CheckOffsets, MatchRing,
         RealNoMatch, RealMatch, RealRefused, NextIdentifier, PopBlock, vars,
         cursor, AtEnd, Scanning, AtInput, Running
  <2>4. ~(RealNoMatch \/ RealMatch \/ GuessMember \/ ScanMember
          \/ LookUpRing \/ RealRefused)
    BY <2>2 DEF RealNoMatch, RealMatch, GuessMember, ScanMember, LookUpRing,
                RealRefused, Scanning
  <2>5. SkipInput \/ (CheckOffsets /\ NextInput) \/ (MatchRing /\ NextInput)
    <3>1. ~(RunOutput \/ NextIdentifier)
      <4>1. RunOutput \/ NextIdentifier => turn' = turn + 1
        BY DEF RunOutput, NextIdentifier
      <4>2. turn' # turn + 1
        BY <1>2, <1>3
      <4> QED BY <4>1, <4>2
    <3>2. ~StartMatching
      BY <2>2 DEF StartMatching
    <3>3. ~(PopBlock \/ UNCHANGED vars)
      BY <2>3 DEF PopBlock, vars, cursor
    <3>4. CheckOffsets => NextInput
      BY <2>3 DEF CheckOffsets
    <3>5. MatchRing => NextInput
      BY <2>3 DEF MatchRing
    <3> QED BY <2>4, <3>1, <3>2, <3>3, <3>4, <3>5 DEF Next, Identify
  <2>6. status' # "threw"
    BY <2>3, <2>5 DEF SkipInput, CheckOffsets, MatchRing, NextInput, Running,
                      Throw
  <2> QED BY <2>2, <2>5, <2>6
<1>4. CASE StartMatching
  <2>1. Ran("guess")' <=> Ran("guess")
    BY <1>1, <1>4 DEF Ran, Turns, StartMatching
  <2>2. ~(j < k')
    BY <1>2, <1>4 DEF StartMatching
  <2> QED BY <2>1, <2>2 DEF GuessedAt
<1>5. CASE turn' = turn + 1 /\ matching' = FALSE
           /\ (order[turn] = "guess" => matching /\ k > Len(tx.vin))
           /\ turn <= Len(order)
  <2>1. Ran("guess")'
    BY <1>5 DEF GuessedAt
  <2>2. Ran("guess") \/ Now("guess")
    BY <1>1, <1>2, <1>5, <2>1 DEF Ran, Turns, Now
  <2>3. Now("guess") => matching /\ j < k
    BY <1>2, <1>5 DEF Now
  <2> QED BY <2>2, <2>3 DEF GuessedAt
<1>6. CASE RunOutput
  <2>1. turn' = turn + 1 /\ matching' = FALSE /\ turn <= Len(order)
        /\ order[turn] # "guess"
    BY <1>6 DEF RunOutput, Running, TInv, FreshInv
  <2> QED BY <1>5, <2>1
<1>7. CASE NextIdentifier
  <2>1. turn' = turn + 1 /\ matching' = FALSE /\ turn <= Len(order)
        /\ (order[turn] = "guess" => matching /\ k > Len(tx.vin))
    BY <1>7 DEF NextIdentifier, AtEnd, Running
  <2> QED BY <1>5, <2>1
<1>8. CASE SkipInput \/ GuessMember \/ RealNoMatch \/ RealMatch
  BY <1>3, <1>8 DEF SkipInput, GuessMember, RealNoMatch, RealMatch, NextInput,
                    AfterMember
<1>9. CASE CheckOffsets \/ MatchRing \/ LookUpRing
  BY <1>3, <1>9 DEF CheckOffsets, MatchRing, LookUpRing, NextInput
<1>10. CASE ScanMember \/ RealRefused \/ PopBlock \/ UNCHANGED vars
  BY <1>3, <1>10 DEF ScanMember, RealRefused, PopBlock, vars, cursor
<1> QED
  BY <1>4, <1>6, <1>7, <1>8, <1>9, <1>10 DEF Next, Identify

(* Matching an input brings guesses for all of it that was collected.      *)
LEMMA NextCovers ==
    ASSUME NEW base, TInv, CoverInv(base), [Next]_vars
    PROVE  Covers(base)'
<1> SUFFICES ASSUME NEW j \in DOMAIN tx.vin, tx.vin[j].is_key, GuessedAt(j)',
                    ~GuessedAt(j)
             PROVE  ~OnChain(Last(tx.vin[j].ring)) \/ CoveredIn(j, base)'
  BY CoversKept
<1>1. /\ j = k /\ Now("guess") /\ matching /\ status' # "threw"
      /\ SkipInput \/ (CheckOffsets /\ NextInput) \/ MatchRing
  BY GuessedStep
<1>2. CASE SkipInput
  BY <1>1, <1>2 DEF SkipInput
<1>3. CASE CheckOffsets /\ NextInput
  <2>1. ~OnChain(Last(tx.vin[k].ring))
    <3>1. k \in Nat
      BY DEF TInv, CursorInv
    <3> QED BY <1>3, <3>1 DEF CheckOffsets, NextInput
  <2> QED BY <1>1, <2>1
<1>4. CASE MatchRing
  BY <1>1, <1>4, MatchRingCovers
<1> QED BY <1>1, <1>2, <1>3, <1>4

(* The three parts together are inductive, for each base.                  *)
LEMMA NextCoverInv ==
    ASSUME NEW base, TInv, CoverInv(base), [Next]_vars
    PROVE  CoverInv(base)'
<1>1. base.subaddresses \subseteq account'.subaddresses
  BY AccountGrows DEF CoverInv
<1> QED BY <1>1, NextCollected, NextFoundCovers, NextCovers DEF CoverInv

(* Where no GuessInput has begun yet, any account so far is a base.        *)
LEMMA CoverStart ==
    ASSUME NEW base, TInv, base.subaddresses \subseteq account.subaddresses,
           ~Ran("guess"), found = {}, ~matching, k = 1, r = 0
    PROVE  CoverInv(base)
<1>1. /\ DOMAIN tx.vin \subseteq Nat \ {0}
      /\ \A j \in DOMAIN tx.vin : DOMAIN tx.vin[j].ring \subseteq Nat \ {0}
  BY AtInputFacts, SpendFacts DEF TInv, FixedInv
<1>2. \A j \in DOMAIN tx.vin :
          ~(j < k) /\ \A m \in DOMAIN tx.vin[j].ring : ~(m < r)
  BY <1>1
<1>3. Collected(base) /\ Covers(base)
  BY <1>2 DEF Collected, Covers, GuessedAt
<1> QED BY <1>3 DEF CoverInv, FoundCovers

(* The same after a step.                                                  *)
LEMMA CoverStartNext ==
    ASSUME NEW base, TInv, TInv', [Next]_vars,
           base.subaddresses \subseteq account'.subaddresses,
           ~Ran("guess")', found' = {}, matching' = FALSE, k' = 1, r' = 0
    PROVE  CoverInv(base)'
<1>1. tx' = tx
  BY AccountGrows
<1>2. /\ DOMAIN tx.vin \subseteq Nat \ {0}
      /\ \A j \in DOMAIN tx.vin : DOMAIN tx.vin[j].ring \subseteq Nat \ {0}
  BY AtInputFacts, SpendFacts DEF TInv, FixedInv
<1>3. \A j \in DOMAIN tx.vin :
          ~(j < 1) /\ \A m \in DOMAIN tx.vin[j].ring : ~(m < 0)
  BY <1>2
<1>4. Collected(base)' /\ Covers(base)'
  BY <1>1, <1>3 DEF Collected, Covers, GuessedAt
<1> QED BY <1>4 DEF CoverInv, FoundCovers

(* Where the one GuessInput runs before any RealInput: it has guesses for  *)
(* every input that RealInput can look up, as the ring is on the chain.    *)
GuessFirst ==
    Once("guess") /\ \A s \in Turns("guess"), t \in Turns("real") : s < t

RealLooked(base) ==
    /\ \A x \in Range(identified["real"]) : \E j \in DOMAIN tx.vin :
          RealOf(x, searcher, account, tx.vin[j]) /\ CoveredIn(j, base)
    /\ Now("real") /\ k <= Len(tx.vin) /\ r > 0 => CoveredIn(k, base)

GuessFirstInv ==
    \E base : /\ base = initial /\ CoverInv(base)
              /\ GuessFirst => RealLooked(base)

(* An identifier that is there once has one turn.                          *)
LEMMA OnceSome ==
    ASSUME TInv, NEW id, Once(id)
    PROVE  \E t : Turns(id) = {t}
<1>1. DOMAIN order = 1..Len(order) /\ Len(order) \in Nat
  BY AtInputFacts
<1>2. IsFiniteSet(1..Len(order)) /\ Turns(id) \subseteq 1..Len(order)
  BY <1>1, FS_Interval DEF Turns
<1>3. IsFiniteSet(Turns(id))
  BY <1>2, FS_Subset
<1> QED BY <1>3, FS_Singleton DEF Once

(* When RealInput looks up a ring, GuessInput has done that input.         *)
LEMMA LookedUpCovered ==
    ASSUME NEW base, TInv, CoverInv(base), GuessFirst, LookUpRing, r' > 0,
           Now("real")
    PROVE  CoveredIn(k, base)
<1>1. /\ AtInput /\ Running /\ tx.vin[k].is_key /\ r = 0 /\ RingOnChain
  BY DEF LookUpRing, Scanning, AtInput, Running
<1>2. PICK s : Turns("guess") = {s}
  BY OnceSome DEF GuessFirst
<1>3. turn \in Turns("real") /\ s \in DOMAIN order /\ order[s] = "guess"
  BY <1>2, AtInputFacts DEF TInv, CursorInv, Now, Turns
<1>4. Ran("guess")
  BY <1>2, <1>3 DEF GuessFirst, Ran
<1>5. k \in DOMAIN tx.vin /\ Len(tx.vin[k].ring) \in DOMAIN tx.vin[k].ring
  <2>1. tx \in Spends
    BY DEF TInv, FixedInv
  <2> QED BY <1>1, <2>1, AtInputFacts, SpendFacts
<1>6. OnChain(Last(tx.vin[k].ring))
  BY <1>1, <1>5 DEF RingOnChain, Last
<1> QED BY <1>1, <1>4, <1>5, <1>6 DEF CoverInv, Covers, GuessedAt

(* What RealInput looks up or has recorded is covered.                     *)
LEMMA NextRealLooked ==
    ASSUME NEW base, TInv, CoverInv(base), GuessFirst, RealLooked(base),
           [Next]_vars
    PROVE  RealLooked(base)'
<1>1. UNCHANGED <<searcher, tx, order>>
      /\ account.subaddresses \subseteq account'.subaddresses
  BY AccountGrows
<1>2. \A j \in DOMAIN tx.vin : CoveredIn(j, base) => CoveredIn(j, base)'
  BY CoveredStays
<1>3. \A x \in Range(identified["real"]) : \E j \in DOMAIN tx.vin :
          RealOf(x, searcher, account', tx.vin[j]) /\ CoveredIn(j, base)'
  BY <1>1, <1>2, RealOfMonotone DEF RealLooked
<1>4. \A x \in Range(identified'["real"]) : \E j \in DOMAIN tx.vin :
          RealOf(x, searcher, account', tx.vin[j]) /\ CoveredIn(j, base)'
  <2>1. CASE RealMatch
    <3>1. PICK x \in InputRecord :
              /\ RealOf(x, searcher, account, tx.vin[k])
              /\ identified["real"] \in Seq(InputRecord)
              /\ identified'["real"] = Append(identified["real"], x)
      BY <2>1, RealMatchRecord
    <3>2. k \in DOMAIN tx.vin /\ k <= Len(tx.vin) /\ Now("real") /\ r > 0
      <4>1. tx \in Spends
        BY DEF TInv, FixedInv
      <4>2. /\ k \in DOMAIN tx.vin /\ Now("real")
            /\ r \in DOMAIN tx.vin[k].ring
        BY <2>1, RealMatchFacts DEF Now, AtInput, Running
      <4> QED BY <4>1, <4>2, SpendFacts
    <3>3. CoveredIn(k, base)
      BY <3>2 DEF RealLooked
    <3>4. \E j \in DOMAIN tx.vin :
              RealOf(x, searcher, account', tx.vin[j]) /\ CoveredIn(j, base)'
      <4>1. PICK j \in DOMAIN tx.vin : j = k
        BY <3>2
      <4>2. RealOf(x, searcher, account, tx.vin[j]) /\ CoveredIn(j, base)
        BY <3>1, <3>3, <4>1
      <4> QED BY <1>1, <1>2, <4>2, RealOfMonotone
    <3>5. \A y \in Range(identified'["real"]) :
              y \in Range(identified["real"]) \/ y = x
      BY <3>1, AppendFacts DEF Range
    <3> QED BY <1>3, <3>4, <3>5
  <2>2. CASE ~RealMatch
    BY <1>3, <2>2, RealKept
  <2> QED BY <2>1, <2>2
<1>5. Now("real")' /\ k' <= Len(tx.vin) /\ r' > 0 =>
          \E j \in DOMAIN tx.vin : j = k' /\ CoveredIn(j, base)'
  <2> SUFFICES ASSUME Now("real")', k' <= Len(tx.vin), r' > 0
               PROVE  \E j \in DOMAIN tx.vin : j = k' /\ CoveredIn(j, base)'
    OBVIOUS
  <2>1. turn' = turn
    <3>1. turn \in Nat /\ k \in Nat
      BY DEF TInv, CursorInv
    <3> QED BY <3>1, TurnStep
  <2>2. Now("real")
    BY <1>1, <2>1 DEF Now
  <2>3. k' \in DOMAIN tx.vin
    <3>1. TInv'
      BY NextTInv
    <3>2. k' \in Nat /\ k' >= 1
      BY <3>1 DEF TInv, CursorInv
    <3> QED BY <3>2, AtInputFacts
  <2>4. CASE LookUpRing
    <3>1. k' = k /\ CoveredIn(k, base)
      BY <2>2, <2>4, LookedUpCovered DEF LookUpRing
    <3>2. \E j \in DOMAIN tx.vin : j = k /\ CoveredIn(j, base)
      BY <2>3, <3>1
    <3> QED BY <1>2, <3>1, <3>2
  <2>5. CASE k' = k /\ r > 0
    <3>1. CoveredIn(k, base)
      BY <2>2, <2>5 DEF RealLooked
    <3>2. \E j \in DOMAIN tx.vin : j = k /\ CoveredIn(j, base)
      BY <2>3, <2>5, <3>1
    <3> QED BY <1>2, <2>5, <3>2
  <2>6. ~(CheckOffsets \/ MatchRing \/ GuessMember \/ StartMatching)
    <3>1. ~(CheckOffsets \/ MatchRing)
      BY <2>2, MatchingFound DEF CheckOffsets, MatchRing, Now
    <3> QED BY <2>2, <3>1 DEF GuessMember, StartMatching, Scanning, Now
  <2>7. ~(RunOutput \/ NextIdentifier)
    <3>1. turn \in Nat
      BY DEF TInv, CursorInv
    <3> QED BY <2>1, <3>1 DEF RunOutput, NextIdentifier
  <2>8. ~(SkipInput \/ RealMatch)
    BY DEF SkipInput, RealMatch, NextInput
  <2>9. CASE RealNoMatch
    <3>1. r > 0
      BY <2>9, AtFound DEF RealNoMatch, Scanning, AtInput
    <3>2. k' = k
      BY <2>9 DEF RealNoMatch, AfterMember, NextInput
    <3> QED BY <2>5, <3>1, <3>2
  <2>10. CASE ScanMember \/ RealRefused \/ PopBlock \/ UNCHANGED vars
    BY <2>5, <2>10 DEF ScanMember, RealRefused, PopBlock, vars, cursor
  <2> QED
    BY <2>4, <2>6, <2>7, <2>8, <2>9, <2>10 DEF Next, Identify
<1> QED BY <1>1, <1>4, <1>5 DEF RealLooked

(* The invariant for a GuessInput that runs first.                         *)
LEMMA NextGuessFirst == TInv /\ GuessFirstInv /\ [Next]_vars => GuessFirstInv'
<1> SUFFICES ASSUME TInv, GuessFirstInv, [Next]_vars
             PROVE  GuessFirstInv'
  OBVIOUS
<1>1. UNCHANGED <<order, initial>>
  BY AccountGrows
<1>2. PICK base : /\ base = initial /\ CoverInv(base)
                  /\ GuessFirst => RealLooked(base)
  BY DEF GuessFirstInv
<1>3. CoverInv(base)'
  BY <1>2, NextCoverInv
<1>4. GuessFirst' => GuessFirst
  BY <1>1 DEF GuessFirst, Once, Turns
<1>5. GuessFirst' => RealLooked(base)'
  BY <1>2, <1>4, NextRealLooked
<1> QED BY <1>1, <1>2, <1>3, <1>5 DEF GuessFirstInv

(* It holds at the beginning.                                              *)
LEMMA InitGuessFirst == Init => GuessFirstInv
<1> SUFFICES ASSUME Init PROVE GuessFirstInv
  OBVIOUS
<1>1. TInv
  BY InitTInv
<1>2. /\ turn = 1 /\ DOMAIN order \subseteq 1..Len(order)
      /\ Len(order) \in Nat
  BY <1>1, AtInputFacts DEF Init
<1>3. ~Ran("guess")
  BY <1>2 DEF Ran, Turns
<1>4. PICK base : base = initial
  OBVIOUS
<1>5. CoverInv(base)
  <2>1. /\ base.subaddresses \subseteq account.subaddresses
        /\ found = {} /\ ~matching /\ k = 1 /\ r = 0
    BY <1>4 DEF Init
  <2> QED BY <1>1, <1>3, <2>1, CoverStart
<1>6. RealLooked(base)
  BY DEF Init, RealLooked, Range
<1> QED BY <1>4, <1>5, <1>6 DEF GuessFirstInv

(* Where every GuessInput runs after every RealInput: the first begins     *)
(* with an account that finds all that RealInput found.                    *)
RealFirst == \A s \in Turns("guess"), t \in Turns("real") : t < s

RealFound(base) ==
    \A x \in Range(identified["real"]) : \E j \in DOMAIN tx.vin :
        RealOf(x, searcher, base, tx.vin[j])

RealFirstInv ==
    RealFirst /\ (Now("guess") \/ Ran("guess")) =>
        \E base : CoverInv(base) /\ RealFound(base)

(* Where RealInput runs first, the base is the account that it left.       *)
LEMMA NextRealFirst ==
    TInv /\ RealTrue /\ RealFirstInv /\ [Next]_vars => RealFirstInv'
<1> SUFFICES ASSUME TInv, RealTrue, RealFirstInv, [Next]_vars,
                    RealFirst', Now("guess")' \/ Ran("guess")'
             PROVE  (\E base : CoverInv(base) /\ RealFound(base))'
  BY DEF RealFirstInv
<1>1. UNCHANGED <<searcher, tx, order>>
  BY AccountGrows
<1>2. /\ RealFirst /\ turn \in Nat /\ DOMAIN order \subseteq Nat
      /\ turn <= Len(order) => turn \in DOMAIN order
  BY <1>1, AtInputFacts DEF RealFirst, Turns, TInv, CursorInv
<1>3. CASE Now("guess") \/ Ran("guess")
  <2>1. PICK base : CoverInv(base) /\ RealFound(base)
    BY <1>2, <1>3 DEF RealFirstInv
  <2>2. ~RealMatch
    <3> SUFFICES ASSUME RealMatch PROVE FALSE
      OBVIOUS
    <3>1. turn \in Turns("real") /\ order[turn] = "real"
      BY AtInputFacts, RealMatchFacts
         DEF AtInput, Running, TInv, CursorInv, Turns
    <3> QED BY <1>2, <1>3, <3>1 DEF RealFirst, Now, Ran, Turns
  <2>3. identified'["real"] = identified["real"]
    BY <2>2, RealKept
  <2>4. RealFound(base)'
    BY <1>1, <2>1, <2>3 DEF RealFound
  <2>5. CoverInv(base)'
    BY <2>1, NextCoverInv
  <2> QED BY <2>4, <2>5
<1>4. CASE ~Now("guess") /\ ~Ran("guess")
  <2>1. turn' = turn + 1 /\ k' = 1 /\ r' = 0
    <3>1. turn' = turn => FALSE
      BY <1>1, <1>4 DEF Now, Ran, Turns
    <3> QED BY <3>1, TurnStep
  <2>2. ~Ran("guess")'
    BY <1>1, <1>2, <1>4, <2>1, AtInputFacts
       DEF Now, Ran, Turns, TInv, CursorInv
  <2>3. RunOutput \/ NextIdentifier
    <3>1. turn' # turn
      BY <1>2, <2>1
    <3> QED
      BY <3>1 DEF Next, Identify, SkipInput, LookUpRing, ScanMember,
         GuessMember, StartMatching, CheckOffsets, MatchRing, RealNoMatch,
         RealMatch, RealRefused, PopBlock, vars, cursor
  <2>4. matching' = FALSE /\ found' = {}
    <3>1. CASE RunOutput
      BY <3>1 DEF RunOutput, Running, TInv, FreshInv, FoundInv
    <3>2. CASE NextIdentifier
      <4>1. found = {}
        BY <3>2, AtInputFacts DEF NextIdentifier, AtEnd, TInv, FoundInv,
                                  CursorInv
      <4> QED BY <3>2, <4>1 DEF NextIdentifier
    <3> QED BY <2>3, <3>1, <3>2
  <2>5. TInv' /\ RealTrue'
    BY NextTInv, NextRealTrue
  <2>6. PICK base : base = account'
    OBVIOUS
  <2>7. CoverInv(base)'
    BY <2>1, <2>2, <2>4, <2>5, <2>6, CoverStartNext
  <2>8. RealFound(base)'
    BY <2>5, <2>6 DEF RealFound, RealTrue, Range
  <2> QED BY <2>7, <2>8
<1> QED BY <1>3, <1>4

(* This holds at the beginning.                                            *)
LEMMA InitRealFirst == Init => RealFirstInv
<1> SUFFICES ASSUME Init PROVE RealFirstInv
  OBVIOUS
<1>1. PICK base : base = initial /\ CoverInv(base)
  BY InitGuessFirst DEF GuessFirstInv
<1>2. RealFound(base)
  BY DEF Init, RealFound, Range
<1> QED BY <1>1, <1>2 DEF RealFirstInv

(* A guess is the one record there can be for its key image and output.    *)
LEMMA GuessIsRecord ==
    ASSUME EqualKeysEqualAmounts, TInv, GuessTrue,
           NEW x \in Range(identified["guess"]),
           NEW ref \in Refs, x.out_pub_key = PubKey(ref)
    PROVE  x = Input(x.key_img, Amount(Chain[ref[1]], ref[2]), PubKey(ref))
<1>1. PICK j \in DOMAIN tx.vin : GuessOf(x, searcher, account, tx.vin[j])
  BY DEF GuessTrue
<1>2. PICK other \in Refs : x = RecordOfEntry(tx.vin[j], EntryAt(other))
  BY <1>1 DEF GuessOf, Matched, Findables, Findable
<1>3. PubKey(other) = PubKey(ref)
  BY <1>2 DEF RecordOfEntry, EntryAt, Input
<1>4. Amount(Chain[other[1]], other[2]) = Amount(Chain[ref[1]], ref[2])
  BY <1>3 DEF EqualKeysEqualAmounts
<1> QED BY <1>2, <1>3, <1>4 DEF RecordOfEntry, EntryAt, Input

(* A real input that the base can find is among the guesses.               *)
LEMMA CoveredReal ==
    ASSUME EqualKeysEqualAmounts, TInv, GuessTrue, NEW j \in DOMAIN tx.vin,
           NEW base, CoveredIn(j, base), NEW x,
           RealOf(x, searcher, base, tx.vin[j])
    PROVE  x \in Range(identified["guess"])
<1>1. /\ tx \in Spends /\ tx.vin[j].is_key
      /\ \A n \in DOMAIN tx.vin[j].ring : tx.vin[j].ring[n] \in Refs
  BY SpendFacts DEF TInv, FixedInv, RealOf
<1>2. PICK m \in DOMAIN tx.vin[j].ring :
          \E l \in DOMAIN RingTx(j, m).vout :
              /\ CanFind(searcher, base, RingTx(j, m), l)
              /\ RingTx(j, m).vout[l].pub_key = tx.vin[j].k_image
              /\ x = Input(tx.vin[j].k_image, Amount(RingTx(j, m), l),
                           tx.vin[j].k_image)
  BY DEF RealOf, RingTx
<1>3. PICK l \in DOMAIN RingTx(j, m).vout :
          /\ CanFind(searcher, base, RingTx(j, m), l)
          /\ RingTx(j, m).vout[l].pub_key = tx.vin[j].k_image
          /\ x = Input(tx.vin[j].k_image, Amount(RingTx(j, m), l),
                       tx.vin[j].k_image)
  BY <1>2
<1>4. \E n \in DOMAIN tx.vin[j].ring :
          PubKey(tx.vin[j].ring[n]) = tx.vin[j].k_image
  BY <1>1, SpendAssumption
<1>5. PICK y \in Range(identified["guess"]) :
          y.key_img = tx.vin[j].k_image /\ y.out_pub_key = tx.vin[j].k_image
  BY <1>3, <1>4 DEF CoveredIn
<1> DEFINE ref == <<tx.vin[j].ring[m][1], l>>
<1>6. ref \in Refs /\ ref[1] = tx.vin[j].ring[m][1] /\ ref[2] = l
      /\ Chain[ref[1]] = RingTx(j, m)
  BY <1>1, RefOf DEF RingTx
<1> HIDE DEF ref
<1>7. PubKey(ref) = tx.vin[j].k_image
  BY <1>3, <1>6 DEF PubKey
<1>8. y = Input(y.key_img, Amount(Chain[ref[1]], ref[2]), PubKey(ref))
  BY <1>5, <1>6, <1>7, GuessIsRecord
<1>9. y = x
  BY <1>3, <1>5, <1>6, <1>7, <1>8
<1> QED BY <1>5, <1>9

(* A real input of an address that was known at first could be found then. *)
LEMMA KnownReal ==
    ASSUME EqualKeysEqualAmounts, TInv, NEW i \in DOMAIN tx.vin, NEW x,
           RealOf(x, searcher, account, tx.vin[i]),
           NEW j \in DOMAIN tx.vin, x \in TrueInfos(initial, j)
    PROVE  RealOf(x, searcher, initial, tx.vin[i])
<1>1. \A n \in DOMAIN tx.vin : \A m \in DOMAIN tx.vin[n].ring :
          tx.vin[n].ring[m] \in Refs
  BY SpendFacts DEF TInv, FixedInv
<1>2. PICK ref \in Range(tx.vin[j].ring) :
          IsOurs(initial, ref) /\ x = TrueInfo(j, ref)
  BY DEF TrueInfos
<1>3. ref \in Refs /\ x.out_pub_key = PubKey(ref)
  BY <1>1, <1>2 DEF Range, TrueInfo, Input
<1>4. ASSUME NEW m \in DOMAIN tx.vin[i].ring,
             NEW l \in DOMAIN Chain[tx.vin[i].ring[m][1]].vout,
             CanFind(searcher, account, Chain[tx.vin[i].ring[m][1]], l),
             Chain[tx.vin[i].ring[m][1]].vout[l].pub_key = tx.vin[i].k_image,
             x.out_pub_key = tx.vin[i].k_image
      PROVE  CanFind(searcher, initial, Chain[tx.vin[i].ring[m][1]], l)
  <2> DEFINE other == <<tx.vin[i].ring[m][1], l>>
  <2>1. other \in Refs /\ other[1] = tx.vin[i].ring[m][1] /\ other[2] = l
    BY <1>1, RefOf
  <2> HIDE DEF other
  <2>2. PubKey(other) = PubKey(ref)
    BY <1>3, <1>4, <2>1 DEF PubKey
  <2>3. Output(other).spend_key = Output(ref).spend_key
    BY <1>3, <2>1, <2>2 DEF EqualKeysEqualAmounts
  <2> QED BY <1>2, <1>4, <2>1, <2>3 DEF CanFind, IsOurs, Output
<1>5. PICK m \in DOMAIN tx.vin[i].ring :
          \E l \in DOMAIN Chain[tx.vin[i].ring[m][1]].vout :
              /\ CanFind(searcher, account, Chain[tx.vin[i].ring[m][1]], l)
              /\ Chain[tx.vin[i].ring[m][1]].vout[l].pub_key
                     = tx.vin[i].k_image
              /\ x = Input(tx.vin[i].k_image,
                           Amount(Chain[tx.vin[i].ring[m][1]], l),
                           tx.vin[i].k_image)
  BY DEF RealOf
<1>6. x.out_pub_key = tx.vin[i].k_image
  BY <1>5 DEF Input
<1>7. tx.vin[i].is_key
  BY DEF RealOf
<1> QED BY <1>4, <1>5, <1>6, <1>7 DEF RealOf

(* The call is done after the last identifier.                             *)
DoneInv == status = "done" => turn > Len(order)

(* No step ends the call before its time.                                  *)
LEMMA NextDone == TInv /\ DoneInv /\ [Next]_vars => DoneInv'
<1> SUFFICES ASSUME TInv, DoneInv, [Next]_vars
             PROVE  DoneInv'
  OBVIOUS
<1>1. /\ order' = order /\ turn \in 1..(Len(order) + 1)
      /\ Len(order) \in Nat
  BY AccountGrows, AtInputFacts DEF TInv, CursorInv
<1>2. CASE RunOutput \/ NextIdentifier
  <2>1. turn' = turn + 1 /\ (status' = "done" => turn = Len(order))
    BY <1>2 DEF RunOutput, NextIdentifier, AtEnd, Running
  <2> QED BY <1>1, <2>1 DEF DoneInv
<1>3. CASE turn' = turn /\ (status' = status \/ status' = "threw")
  BY <1>1, <1>3 DEF DoneInv
<1>4. CASE LookUpRing \/ ScanMember \/ MatchRing \/ RealRefused
  BY <1>3, <1>4 DEF LookUpRing, ScanMember, MatchRing, RealRefused, Throw,
                    cursor
<1>5. CASE SkipInput \/ GuessMember \/ StartMatching \/ CheckOffsets
  BY <1>3, <1>5 DEF SkipInput, GuessMember, StartMatching, CheckOffsets
<1>6. CASE RealNoMatch \/ RealMatch \/ PopBlock \/ UNCHANGED vars
  BY <1>3, <1>6 DEF RealNoMatch, RealMatch, PopBlock, vars, cursor
<1> QED BY <1>2, <1>4, <1>5, <1>6 DEF Next, Identify

(* Where no block was lost, no ring is skipped.                            *)
LEMMA LastOnChain ==
    ASSUME TInv, height = Len(Chain), NEW j \in DOMAIN tx.vin,
           tx.vin[j].is_key
    PROVE  OnChain(Last(tx.vin[j].ring))
<1>1. tx \in Spends /\ Len(tx.vin[j].ring) \in DOMAIN tx.vin[j].ring
  BY SpendFacts DEF TInv, FixedInv
<1> DEFINE ref == Last(tx.vin[j].ring)
<1>2. ref \in Refs
  BY <1>1, SpendFacts DEF Last
<1> HIDE DEF ref
<1>3. ref[1] \in 1..Len(Chain) /\ Len(Chain) \in Nat
  BY <1>2, RefFacts, CallAssumption
<1>4. OnChain(ref)
  BY <1>3 DEF OnChain
<1> QED BY <1>4 DEF ref

CoverReal == GuessFirstInv /\ RealFirstInv

(* Together they give the property.                                        *)
LEMMA CoverRealCovers ==
    ASSUME EqualKeysEqualAmounts, TInv, GuessTrue, CoverReal, DoneInv
    PROVE  GuessCoversKnownReal
<1> SUFFICES ASSUME status = "done", Once("guess"), Once("real"),
                    NEW n \in DOMAIN identified["real"]
             PROVE  LET guessed_first == \A s \in Turns("guess"),
                                            t \in Turns("real") : s < t
                        x == identified["real"][n]
                    IN  \/ x \in Range(identified["guess"])
                        \/ guessed_first /\ \A j \in DOMAIN tx.vin :
                               x \notin TrueInfos(initial, j)
                        \/ ~guessed_first /\ height < Len(Chain)
  BY DEF GuessCoversKnownReal
<1> DEFINE x == identified["real"][n]
<1>1. x \in Range(identified["real"])
  BY DEF Range
<1>2. CASE GuessFirst
  <2> SUFFICES ASSUME NEW j \in DOMAIN tx.vin, x \in TrueInfos(initial, j)
               PROVE  x \in Range(identified["guess"])
    BY <1>2 DEF GuessFirst
  <2>1. PICK base : base = initial /\ RealLooked(base)
    BY <1>2 DEF CoverReal, GuessFirstInv
  <2> HIDE DEF x
  <2>2. PICK i \in DOMAIN tx.vin :
            RealOf(x, searcher, account, tx.vin[i]) /\ CoveredIn(i, base)
    BY <1>1, <2>1 DEF RealLooked
  <2>3. RealOf(x, searcher, base, tx.vin[i])
    BY <2>1, <2>2, KnownReal
  <2> QED BY <2>2, <2>3, CoveredReal
<1>3. CASE ~GuessFirst
  <2>1. ~\A s \in Turns("guess"), t \in Turns("real") : s < t
    BY <1>3 DEF GuessFirst
  <2> SUFFICES ASSUME ~(height < Len(Chain))
               PROVE  x \in Range(identified["guess"])
    BY <2>1
  <2>2. height = Len(Chain) /\ Len(Chain) \in Nat
    BY CallAssumption DEF TInv, CursorInv
  <2>3. PICK a, b : Turns("guess") = {a} /\ Turns("real") = {b}
    BY OnceSome
  <2>4. /\ a \in Nat /\ b \in Nat /\ a # b /\ a \in DOMAIN order
        /\ order[a] = "guess" /\ DOMAIN order = 1..Len(order)
        /\ Len(order) \in Nat
    BY <2>3, AtInputFacts DEF Turns
  <2>5. RealFirst
    BY <2>1, <2>3, <2>4 DEF RealFirst
  <2>6. Ran("guess")
    <3>1. turn \in Nat /\ turn > Len(order)
      BY DEF DoneInv, TInv, CursorInv
    <3>2. a < turn /\ a \in Turns("guess")
      BY <2>3, <2>4, <3>1
    <3> QED BY <3>2 DEF Ran
  <2>7. PICK base : CoverInv(base) /\ RealFound(base)
    BY <2>5, <2>6 DEF CoverReal, RealFirstInv
  <2> HIDE DEF x
  <2>8. PICK i \in DOMAIN tx.vin : RealOf(x, searcher, base, tx.vin[i])
    BY <1>1, <2>7 DEF RealFound
  <2>9. tx.vin[i].is_key
    BY <2>8 DEF RealOf
  <2>10. OnChain(Last(tx.vin[i].ring))
    BY <2>2, <2>9, LastOnChain
  <2>11. CoveredIn(i, base)
    BY <2>6, <2>7, <2>9, <2>10 DEF CoverInv, Covers, GuessedAt
  <2> QED BY <2>8, <2>11, CoveredReal
<1> QED BY <1>2, <1>3

(* The guesses contain the real inputs: those of addresses known before    *)
(* the call, or all of them if RealInput ran first and grew the account,   *)
(* unless the chain lost a block in between (UniversalIdentifier.hpp:216,  *)
(* UniversalIdentifier.cpp:515-606, 609-800), if equal one-time keys are   *)
(* equal payments.                                                         *)
THEOREM GuessAlwaysCoversKnownReal ==
    ASSUME EqualKeysEqualAmounts
    PROVE  Spec => []GuessCoversKnownReal
<1> DEFINE Inv == /\ TInv /\ RealTrue /\ KnownTrue /\ GuessTrue
                  /\ GuessFirstInv /\ RealFirstInv /\ DoneInv
<1>1. Init => Inv
  <2>1. Init => DoneInv
    BY DEF Init, DoneInv
  <2> QED
    BY <2>1, InitTInv, InitReal, InitGuess, InitGuessFirst, InitRealFirst
<1>2. Inv /\ [Next]_vars => Inv'
  BY NextTInv, NextRealTrue, NextKnownTrue, NextGuessTrue, NextGuessFirst,
     NextRealFirst, NextDone
<1>3. Inv => GuessCoversKnownReal
  BY CoverRealCovers DEF CoverReal
<1> QED BY <1>1, <1>2, <1>3, PTL DEF Spec

-----------------------------------------------------------------------------
(* What Input reports, when it is given the outputs of the wallet.         *)

InputOf(x, txin) ==
    /\ txin.is_key
    /\ \E e \in Matched(txin, Given) : x = RecordOfEntry(txin, e)

InputTrue ==
    \A x \in Range(identified["input"]) : \E j \in DOMAIN tx.vin :
        InputOf(x, tx.vin[j])

InputAt(j) == Ran("input") \/ (Now("input") /\ j < k)

MatchedIn(j) ==
    \A e \in Matched(tx.vin[j], Given) : \E f \in Given :
        /\ f.pub_key = e.pub_key
        /\ RecordOfEntry(tx.vin[j], f) \in Range(identified["input"])

InputCovers ==
    \A j \in DOMAIN tx.vin : tx.vin[j].is_key /\ InputAt(j) =>
        ~OnChain(Last(tx.vin[j].ring)) \/ MatchedIn(j)

(* Every record of Input is a match with what it was given.                *)
LEMMA NextInputTrue == TInv /\ InputTrue /\ [Next]_vars => InputTrue'
<1> SUFFICES ASSUME TInv, InputTrue, [Next]_vars
             PROVE  InputTrue'
  OBVIOUS
<1>1. tx' = tx
  BY AccountGrows
<1>2. CASE MatchRing /\ order[turn] = "input"
  <2> DEFINE ms == MatchesOfRing(tx.vin[k], Given)
  <2>1. /\ k \in DOMAIN tx.vin /\ tx.vin[k].is_key /\ tx.vin[k] \in TxIn
        /\ Given \in SUBSET KnownEntry
        /\ \/ identified' = identified
           \/ Range(identified'["input"])
                  = Range(identified["input"]) \cup Range(ms)
    BY <1>2, MatchRingFacts
  <2>2. \A x \in Range(ms) : \E e \in Matched(tx.vin[k], Given) :
            x = RecordOfEntry(tx.vin[k], e)
    BY <2>1, MatchesRange
  <2> HIDE DEF ms
  <2>3. \A x \in Range(ms) : InputOf(x, tx.vin[k])
    BY <2>1, <2>2 DEF InputOf
  <2> QED BY <1>1, <2>1, <2>3 DEF InputTrue
<1>3. CASE ~(MatchRing /\ order[turn] = "input")
  BY <1>1, <1>3, RecordsKept DEF InputTrue
<1> QED BY <1>2, <1>3

(* Which inputs a step adds to those Input is done with.                   *)
LEMMA InputStep ==
    ASSUME TInv, [Next]_vars, NEW j \in DOMAIN tx.vin, InputAt(j)',
           ~InputAt(j)
    PROVE  /\ j = k /\ Now("input")
           /\ SkipInput \/ (CheckOffsets /\ NextInput)
              \/ (MatchRing /\ NextInput)
<1>1. UNCHANGED <<searcher, tx, order>>
  BY AccountGrows
<1>2. /\ DOMAIN tx.vin = 1..Len(tx.vin) /\ Len(tx.vin) \in Nat
      /\ k \in Nat /\ turn \in Nat /\ DOMAIN order \subseteq Nat /\ j \in Nat
  BY AtInputFacts DEF TInv, CursorInv
<1>3. turn' = turn /\ Now("input") => j = k /\ k' # k
  <2> SUFFICES ASSUME turn' = turn, Now("input")
               PROVE  j = k /\ k' # k
    OBVIOUS
  <2>1. ~Now("guess")
    BY DEF Now
  <2>2. k' = k \/ k' = k + 1
    BY <1>2, <2>1, TurnStep
  <2>3. ~Ran("input")'
    BY <1>1 DEF Ran, Turns, InputAt
  <2>4. j < k'
    BY <2>3 DEF InputAt
  <2>5. ~(j < k)
    BY DEF InputAt
  <2> QED BY <1>2, <2>2, <2>4, <2>5
<1>4. turn' = turn => Now("input")
  BY <1>1 DEF Ran, Turns, InputAt, Now
<1>5. CASE turn' = turn
  <2>1. ~(RunOutput \/ NextIdentifier)
    <3>1. RunOutput \/ NextIdentifier => turn' = turn + 1
      BY DEF RunOutput, NextIdentifier
    <3> QED BY <1>2, <1>5, <3>1
  <2>2. ~(StartMatching \/ LookUpRing \/ ScanMember \/ GuessMember
          \/ RealNoMatch \/ RealMatch \/ RealRefused)
    BY <1>4, <1>5 DEF StartMatching, LookUpRing, ScanMember, GuessMember,
                      RealNoMatch, RealMatch, RealRefused, Scanning, Now
  <2>3. ~(PopBlock \/ UNCHANGED vars)
    BY <1>3, <1>4, <1>5 DEF PopBlock, vars, cursor
  <2>4. CheckOffsets => NextInput
    BY <1>3, <1>4, <1>5 DEF CheckOffsets
  <2>5. MatchRing => NextInput
    BY <1>3, <1>4, <1>5 DEF MatchRing
  <2> QED
    BY <1>3, <1>4, <1>5, <2>1, <2>2, <2>3, <2>4, <2>5 DEF Next, Identify
<1>6. CASE turn' # turn
  <2>1. turn' = turn + 1 /\ k' = 1
    BY <1>6, TurnStep
  <2>2. ~(j < k')
    BY <1>2, <2>1
  <2>3. Ran("input")'
    BY <2>2 DEF InputAt
  <2>4. Now("input")
    BY <1>1, <1>2, <2>1, <2>3, AtInputFacts
       DEF Ran, Turns, Now, InputAt, TInv, CursorInv
  <2>5. NextIdentifier
    <3>1. ~RunOutput
      BY <2>4 DEF RunOutput, Now
    <3> QED
      BY <1>6, <3>1 DEF Next, Identify, SkipInput, LookUpRing, ScanMember,
         GuessMember, StartMatching, CheckOffsets, MatchRing, RealNoMatch,
         RealMatch, RealRefused, PopBlock, vars, cursor
  <2>6. k > Len(tx.vin)
    BY <2>4, <2>5 DEF NextIdentifier, AtEnd, Now
  <2> QED BY <1>2, <2>4, <2>6 DEF InputAt
<1> QED BY <1>5, <1>6

(* No match is missing where the ring is on the chain.                     *)
LEMMA NextInputCovers == TInv /\ InputCovers /\ [Next]_vars => InputCovers'
<1> SUFFICES ASSUME TInv, InputCovers, [Next]_vars
             PROVE  InputCovers'
  OBVIOUS
<1>1. tx' = tx
  BY AccountGrows
<1> SUFFICES ASSUME NEW j \in DOMAIN tx.vin, tx.vin[j].is_key, InputAt(j)'
             PROVE  ~OnChain(Last(tx.vin[j].ring))' \/ MatchedIn(j)'
  BY <1>1 DEF InputCovers
<1>2. ~OnChain(Last(tx.vin[j].ring)) => ~OnChain(Last(tx.vin[j].ring))'
  BY CoveredStays
<1>3. MatchedIn(j) => MatchedIn(j)'
  <2>1. Range(identified["input"]) \subseteq Range(identified'["input"])
    BY RecordsGrow
  <2> QED BY <1>1, <2>1 DEF MatchedIn
<1>4. CASE InputAt(j)
  BY <1>2, <1>3, <1>4 DEF InputCovers
<1>5. CASE ~InputAt(j)
  <2>1. /\ j = k /\ Now("input")
        /\ SkipInput \/ (CheckOffsets /\ NextInput)
           \/ (MatchRing /\ NextInput)
    BY <1>5, InputStep
  <2>3. ~SkipInput
    BY <2>1 DEF SkipInput
  <2>4. CASE CheckOffsets /\ NextInput
    <3>1. ~OnChain(Last(tx.vin[k].ring))
      <4>1. k \in Nat
        BY DEF TInv, CursorInv
      <4> QED BY <2>4, <4>1 DEF CheckOffsets, NextInput
    <3> QED BY <1>2, <2>1, <3>1
  <2>5. CASE MatchRing /\ NextInput
    <3> DEFINE ms == MatchesOfRing(tx.vin[j], Given)
    <3>1. /\ tx.vin[j] \in TxIn /\ Given \in SUBSET KnownEntry
          /\ Range(identified'["input"])
                 = Range(identified["input"]) \cup Range(ms)
      <4>1. status' # "threw"
        <5>1. k' # k
          BY <2>5 DEF NextInput, TInv, CursorInv
        <5> QED BY <2>5, <5>1 DEF MatchRing, AtInput, Running
      <4> QED BY <2>1, <2>5, <4>1, MatchRingFacts DEF Now
    <3>2. \A e \in Matched(tx.vin[j], Given) :
              \E f \in Given :
                  /\ f.pub_key = e.pub_key
                  /\ RecordOfEntry(tx.vin[j], f) \in Range(ms)
      BY <3>1, MatchesRange
    <3> HIDE DEF ms
    <3> QED BY <1>1, <3>1, <3>2 DEF MatchedIn
  <2> QED BY <2>1, <2>3, <2>4, <2>5
<1> QED BY <1>4, <1>5

(* At the beginning Input has no records.                                  *)
LEMMA InitInput == Init => InputTrue /\ InputCovers
<1> SUFFICES ASSUME Init PROVE InputTrue /\ InputCovers
  OBVIOUS
<1>1. /\ turn = 1 /\ k = 1 /\ DOMAIN order \subseteq 1..Len(order)
      /\ Len(order) \in Nat /\ DOMAIN tx.vin = 1..Len(tx.vin)
      /\ Len(tx.vin) \in Nat
  BY InitTInv, AtInputFacts DEF Init
<1>2. ~Ran("input")
  BY <1>1 DEF Ran, Turns
<1>3. \A j \in DOMAIN tx.vin : ~(j < k)
  BY <1>1
<1> QED BY <1>2, <1>3 DEF Init, InputTrue, InputCovers, InputAt, Range

(* No one-time key is used twice.                                          *)
DistinctKeys == \A x, y \in Refs : PubKey(x) = PubKey(y) => x = y

(* Input was given what can be found of the wallet, of all its addresses.  *)
WalletOutputs ==
    {ref \in Refs :
        /\ Output(ref).is_key /\ Output(ref).spend_key # OtherKey
        /\ Derivable(Chain[ref[1]], ref[2], Output(ref).via)}

GivenIsWallet == Given = {EntryAt(ref) : ref \in WalletOutputs}

(* Whatever an account finds is one of the wallet.                         *)
LEMMA FindableInWallet ==
    ASSUME TInv, NEW ref \in Findable(searcher, account)
    PROVE  ref \in WalletOutputs
<1>1. /\ ref \in Refs /\ CanFind(searcher, account, Chain[ref[1]], ref[2])
      /\ IsSearcher(searcher) /\ GoodAccount(account)
  BY AtInputFacts DEF Findable
<1>2. Ours(searcher, account, Output(ref).spend_key) # {}
  BY <1>1 DEF CanFind, Output
<1>3. Output(ref).spend_key \in Key
  <2>1. CASE searcher.pacc
    BY <1>1, <1>2, <2>1, GoodIsSound DEF Ours, Lookup, Sound
  <2>2. CASE ~searcher.pacc
    BY <1>1, <1>2, <2>2 DEF Ours, IsSearcher
  <2> QED BY <2>1, <2>2
<1> QED
  BY <1>1, <1>3, OtherKeyAssumption DEF WalletOutputs, CanFind, Output

(* A guess was found, so it is of the wallet, and Input has it.            *)
LEMMA GuessInInput ==
    ASSUME DistinctKeys, GivenIsWallet, TInv, GuessTrue, InputCovers,
           Ran("input"), height = Len(Chain),
           NEW x \in Range(identified["guess"])
    PROVE  x \in Range(identified["input"])
<1>1. PICK j \in DOMAIN tx.vin : GuessOf(x, searcher, account, tx.vin[j])
  BY DEF GuessTrue
<1>2. tx.vin[j].is_key
  BY <1>1 DEF GuessOf
<1>3. PICK e \in Matched(tx.vin[j], Findables(searcher, account)) :
          x = RecordOfEntry(tx.vin[j], e)
  BY <1>1 DEF GuessOf
<1>4. PICK ref \in Findable(searcher, account) : e = EntryAt(ref)
  BY DEF Matched, Findables
<1>5. ref \in WalletOutputs
  BY FindableInWallet
<1>6. e \in Matched(tx.vin[j], Given)
  BY <1>4, <1>5 DEF Matched, GivenIsWallet
<1>7. MatchedIn(j)
  BY <1>2, LastOnChain DEF InputCovers, InputAt
<1>8. PICK f \in Given :
          /\ f.pub_key = e.pub_key
          /\ RecordOfEntry(tx.vin[j], f) \in Range(identified["input"])
  BY <1>6, <1>7 DEF MatchedIn
<1>9. PICK other \in WalletOutputs : f = EntryAt(other)
  BY DEF GivenIsWallet
<1>10. other = ref
  BY <1>4, <1>5, <1>8, <1>9 DEF EntryAt, DistinctKeys, WalletOutputs
<1> QED BY <1>3, <1>4, <1>8, <1>9, <1>10

(* What Input found of a known address, GuessInput collected.              *)
LEMMA KnownInputGuessed ==
    ASSUME DistinctKeys, GivenIsWallet, TInv, GuessTrue, GuessFirstInv,
           InputTrue, Ran("guess"), height = Len(Chain),
           NEW j \in DOMAIN tx.vin, tx.vin[j].is_key,
           NEW x \in Range(identified["input"]), x \in TrueInfos(initial, j)
    PROVE  x \in Range(identified["guess"])
<1>1. \A m \in DOMAIN tx.vin[j].ring : tx.vin[j].ring[m] \in Refs
  BY SpendFacts DEF TInv, FixedInv
<1>2. PICK m \in DOMAIN tx.vin[j].ring :
          /\ IsOurs(initial, tx.vin[j].ring[m])
          /\ x = TrueInfo(j, tx.vin[j].ring[m])
  BY DEF TrueInfos, Range
<1> DEFINE ref == tx.vin[j].ring[m]
<1>3. /\ ref \in Refs /\ x.out_pub_key = PubKey(ref)
      /\ x.key_img = tx.vin[j].k_image
      /\ x = Input(tx.vin[j].k_image, Amount(Chain[ref[1]], ref[2]),
                   PubKey(ref))
  BY <1>1, <1>2 DEF TrueInfo, Input
<1>4. PICK i \in DOMAIN tx.vin : InputOf(x, tx.vin[i])
  BY DEF InputTrue
<1>5. PICK other \in WalletOutputs :
          x = RecordOfEntry(tx.vin[i], EntryAt(other))
  BY <1>4 DEF InputOf, Matched, GivenIsWallet
<1>6. PubKey(other) = PubKey(ref) /\ other \in Refs
  BY <1>3, <1>5 DEF RecordOfEntry, Input, EntryAt, WalletOutputs
<1>7. other = ref
  BY <1>3, <1>6 DEF DistinctKeys
<1>8. ref[2] \in DOMAIN RingTx(j, m).vout
      /\ RingTx(j, m) = Chain[ref[1]]
      /\ RingTx(j, m).vout[ref[2]].pub_key = PubKey(ref)
  BY <1>3, RefFacts DEF RingTx, PubKey
<1>9. CanFind(searcher, initial, RingTx(j, m), ref[2])
  BY <1>2, <1>7, <1>8 DEF CanFind, WalletOutputs, Output, IsOurs
<1>10. PICK base : base = initial /\ CoverInv(base)
  BY DEF GuessFirstInv
<1>11. CoveredIn(j, base)
  BY <1>10, LastOnChain DEF CoverInv, Covers, GuessedAt
<1>12. PICK y \in Range(identified["guess"]) :
           y.key_img = tx.vin[j].k_image /\ y.out_pub_key = PubKey(ref)
  <2>1. CanFind(searcher, base, RingTx(j, m), ref[2])
        /\ PubKey(ref) = PubKey(tx.vin[j].ring[m])
    BY <1>9, <1>10
  <2> HIDE DEF ref
  <2>2. \E y \in Range(identified["guess"]) :
            /\ y.key_img = tx.vin[j].k_image
            /\ y.out_pub_key = RingTx(j, m).vout[ref[2]].pub_key
    BY <1>8, <1>11, <2>1 DEF CoveredIn
  <2> QED BY <1>8, <2>2
<1>13. EqualKeysEqualAmounts
  BY DEF DistinctKeys, EqualKeysEqualAmounts
<1> HIDE DEF ref
<1>14. y = x
  BY <1>3, <1>12, <1>13, GuessIsRecord
<1> QED BY <1>12, <1>14

(* GuessInput finds what Input finds when it is given the outputs of the   *)
(* wallet: nothing else, and nothing less of the addresses that were known *)
(* before the call (UniversalIdentifier.cpp:411-437, 515-606), if no key   *)
(* is used twice.                                                          *)
THEOREM GuessAlwaysAgreesWithInput ==
    ASSUME DistinctKeys, GivenIsWallet
    PROVE  Spec => []GuessAgreesWithInput
<1> DEFINE Inv == /\ TInv /\ KnownTrue /\ GuessTrue /\ GuessFirstInv
                  /\ InputTrue /\ InputCovers
<1>1. Init => Inv
  BY InitTInv, InitGuess, InitGuessFirst, InitInput
<1>2. Inv /\ [Next]_vars => Inv'
  BY NextTInv, NextKnownTrue, NextGuessTrue, NextGuessFirst, NextInputTrue,
     NextInputCovers
<1>3. Inv => GuessAgreesWithInput
  BY GuessInInput, KnownInputGuessed DEF GuessAgreesWithInput
<1> QED BY <1>1, <1>2, <1>3, PTL DEF Spec

-----------------------------------------------------------------------------
(* What is left of a spending after its change.                            *)

(* The one Output identifier has found all change there was to find.       *)
OutputsInv ==
    /\ ~Ran("output") => outputs = <<>>
    /\ Once("output") /\ Ran("output") /\ status # "threw" =>
          /\ GoodFound(outputs, searcher, initial, account, tx.out)
          /\ InOrder(outputs)

(* What was found stays true of a larger account.                          *)
LEMMA GoodFoundMonotone ==
    ASSUME NEW s, NEW known, NEW a, NEW b,
           a.subaddresses \subseteq b.subaddresses, NEW t, NEW infos,
           GoodFound(infos, s, known, a, t)
    PROVE  GoodFound(infos, s, known, b, t)
  BY TruthfulMonotone DEF GoodFound

(* Output finds all change when it runs ...                                *)
LEMMA RunOutputOutputs == TInv /\ OutputsInv /\ RunOutput => OutputsInv'
<1> SUFFICES ASSUME TInv, OutputsInv, RunOutput PROVE OutputsInv'
  OBVIOUS
<1>1. PICK result :
          /\ result = IdentifyOutputs(searcher, account, tx.out)
          /\ account' = result.account
          /\ outputs' = outputs \o result.outputs
          /\ status' = "threw" \/ ~result.threw
  BY DEF RunOutput
<1>2. /\ UNCHANGED <<searcher, tx, order, initial>> /\ turn' = turn + 1
      /\ order[turn] = "output" /\ turn <= Len(order)
  BY DEF RunOutput, fixed, Running
<1>3. turn \in Turns("output") /\ turn \in Nat
  BY <1>2, AtInputFacts DEF TInv, CursorInv, Turns
<1>4. Ran("output")'
  <2>1. Turns("output")' = Turns("output") /\ turn < turn'
    BY <1>2, <1>3 DEF Turns
  <2> QED BY <1>3, <2>1 DEF Ran
<1>5. ASSUME Once("output"), status' # "threw"
      PROVE  /\ GoodFound(outputs', searcher, initial, account', tx.out)
             /\ InOrder(outputs')
  <2>1. ~Ran("output")
    <3>1. PICK t : Turns("output") = {t}
      BY <1>5, OnceSome
    <3>2. t = turn
      BY <1>3, <3>1
    <3> QED BY <1>3, <3>1, <3>2 DEF Ran
  <2>2. /\ InOrder(result.outputs) /\ result.outputs \in Seq(InfosOf(tx.out))
        /\ GoodFound(result.outputs, searcher, initial, result.account, tx.out)
    BY <1>1, <1>5, ResultGood, AtInputFacts DEF TInv, AccountInv, Extends
  <2>3. outputs' = result.outputs
    BY <1>1, <2>1, <2>2 DEF OutputsInv
  <2> QED BY <1>1, <2>2, <2>3
<1>6. Once("output")' = Once("output")
  BY <1>2 DEF Once, Turns
<1> QED BY <1>2, <1>4, <1>5, <1>6 DEF OutputsInv

(* ... and no other step changes that.                                     *)
LEMMA NextOutputs == TInv /\ OutputsInv /\ [Next]_vars => OutputsInv'
<1> SUFFICES ASSUME TInv, OutputsInv, [Next]_vars
             PROVE  OutputsInv'
  OBVIOUS
<1>1. CASE RunOutput
  BY <1>1, RunOutputOutputs
<1>2. CASE ~RunOutput
  <2>1. /\ UNCHANGED <<searcher, tx, order, initial>>
        /\ account.subaddresses \subseteq account'.subaddresses
    BY AccountGrows
  <2>2. UNCHANGED outputs /\ (status' # "threw" => status # "threw")
    <3>1. CASE SkipInput \/ LookUpRing \/ ScanMember \/ GuessMember
      BY <3>1 DEF SkipInput, LookUpRing, ScanMember, GuessMember, Scanning,
                  AtInput, Running, results
    <3>2. CASE StartMatching \/ CheckOffsets \/ MatchRing \/ RealNoMatch
      BY <3>2 DEF StartMatching, CheckOffsets, MatchRing, RealNoMatch,
                  Scanning, AtInput, Running, results
    <3>3. CASE RealMatch \/ RealRefused \/ NextIdentifier \/ PopBlock
                 \/ UNCHANGED vars
      BY <3>3 DEF RealMatch, RealRefused, NextIdentifier, PopBlock, AtEnd,
                  Scanning, AtInput, Running, results, vars
    <3> QED BY <1>2, <3>1, <3>2, <3>3 DEF Next, Identify
  <2>3. turn' = turn \/ (turn' = turn + 1 /\ order[turn] # "output")
    <3>1. CASE NextIdentifier
      BY <3>1 DEF NextIdentifier, AtEnd
    <3>2. CASE turn' = turn
      BY <3>2
    <3> QED
      BY <1>2, <3>1, <3>2
         DEF Next, Identify, SkipInput, LookUpRing, ScanMember, MatchRing,
             GuessMember, StartMatching, CheckOffsets, RealNoMatch, RealMatch,
             RealRefused, PopBlock, vars, cursor
  <2>4. Turns("output")' = Turns("output")
    BY <2>1 DEF Turns
  <2>5. \A t \in Turns("output") : t < turn' <=> t < turn
    <3>1. \A t \in Turns("output") : t \in Nat /\ order[t] = "output"
      BY AtInputFacts DEF Turns
    <3>2. turn \in Nat
      BY DEF TInv, CursorInv
    <3> QED BY <2>3, <3>1, <3>2
  <2>6. Ran("output")' = Ran("output") /\ Once("output")' = Once("output")
    BY <2>4, <2>5 DEF Ran, Once
  <2>7. GoodFound(outputs, searcher, initial, account, tx.out) =>
            GoodFound(outputs, searcher, initial, account', tx.out)
    BY <2>1, GoodFoundMonotone
  <2> QED BY <2>1, <2>2, <2>6, <2>7 DEF OutputsInv
<1> QED BY <1>1, <1>2

(* At the beginning there are no outputs.                                  *)
LEMMA InitOutputs == Init => OutputsInv
<1> SUFFICES ASSUME Init PROVE OutputsInv
  OBVIOUS
<1>1. turn = 1 /\ outputs = <<>> /\ order \in Seq(Identifiers)
  BY CallAssumption DEF Init, Identifiers
<1>2. ~Ran("output")
  BY <1>1 DEF Ran, Turns
<1> QED BY <1>1, <1>2 DEF OutputsInv

Change == [n \in ChangeOf(account) |-> [amount |-> Amount(tx.out, n)]]

(* Each output that was found is change, and the other way round.          *)
LEMMA ChangeFound ==
    ASSUME TInv, GoodFound(outputs, searcher, initial, account, tx.out),
           InOrder(outputs), ChangeOf(account) = ChangeOf(initial)
    PROVE  SumAmounts(outputs) = SumAmounts(Change)
<1> DEFINE p == [m \in DOMAIN outputs |-> outputs[m].idx_in_tx]
<1>1. /\ outputs \in Seq(InfosOf(tx.out)) /\ Len(outputs) \in Nat
      /\ DOMAIN outputs = 1..Len(outputs) /\ tx.out \in Transaction
      /\ \A m \in DOMAIN outputs : outputs[m] \in InfosOf(tx.out)
  BY AtInputFacts DEF TInv, ResultsInv
<1>2. IsFiniteSet(DOMAIN outputs) /\ HasAmounts(outputs)
  <2>1. IsFiniteSet(1..Len(outputs))
    BY <1>1, FS_Interval
  <2>2. \A m \in DOMAIN outputs : outputs[m].amount \in Nat
    BY <1>1 DEF InfosOf
  <2> QED BY <1>1, <2>1, <2>2 DEF HasAmounts
<1>3. ASSUME NEW m \in DOMAIN outputs
      PROVE  /\ p[m] \in ChangeOf(account)
             /\ Change[p[m]].amount = outputs[m].amount
  <2>1. Truthful(outputs[m], searcher, account, tx.out)
    BY DEF GoodFound, AllTruthful
  <2>2. p[m] \in ChangeOf(account)
    BY <2>1 DEF Truthful, CanFind, ChangeOf
  <2> QED BY <2>1, <2>2 DEF Change, Truthful
<1>4. \A l, m \in DOMAIN outputs : p[l] = p[m] => l = m
  <2> SUFFICES ASSUME NEW l \in DOMAIN outputs, NEW m \in DOMAIN outputs,
                      l # m
               PROVE  p[l] # p[m]
    OBVIOUS
  <2>1. l < m \/ m < l
    BY <1>1
  <2>2. p[l] \in Nat /\ p[m] \in Nat
    BY <1>1 DEF InfosOf, Transaction
  <2>3. p[l] < p[m] \/ p[m] < p[l]
    BY <2>1 DEF InOrder
  <2> QED BY <2>2, <2>3
<1>5. \A n \in ChangeOf(account) : \E m \in DOMAIN outputs : p[m] = n
  BY DEF ChangeOf, CanFind, GoodFound
<1>6. /\ DOMAIN Change = ChangeOf(account)
      /\ p \in [DOMAIN outputs -> DOMAIN Change]
  BY <1>3 DEF Change
<1>7. IsFiniteSet(DOMAIN Change) /\ HasAmounts(Change)
  <2>1. IsFiniteSet(1..Len(tx.out.vout))
        /\ DOMAIN Change \subseteq 1..Len(tx.out.vout)
    <3>1. /\ Len(tx.out.vout) \in Nat
          /\ DOMAIN tx.out.vout = 1..Len(tx.out.vout)
      BY <1>1 DEF Transaction
    <3>2. IsFiniteSet(1..Len(tx.out.vout))
      BY <3>1, FS_Interval
    <3> QED BY <1>6, <3>1, <3>2 DEF ChangeOf
  <2>2. \A n \in DOMAIN Change : Amount(tx.out, n) \in Nat
    <3>1. DOMAIN Change \subseteq DOMAIN tx.out.vout
      BY <1>6 DEF ChangeOf
    <3>2. \A n \in DOMAIN tx.out.vout : tx.out.vout[n] \in TxOut
      BY <1>1, OutputType
    <3> QED BY <3>1, <3>2 DEF Amount, TxOut
  <2>3. HasAmounts(Change)
    BY <1>6, <2>2 DEF HasAmounts, Change
  <2> QED BY <2>1, <2>3, FS_Subset
<1> HIDE DEF p
<1> QED BY <1>2, <1>3, <1>4, <1>5, <1>6, <1>7, SumReordered

RealInputs == [j \in DOMAIN tx.vin |-> TrueInfo(j, SpentRef(j))]

(* A spending that can be found is among the guesses.                      *)
LEMMA SpentGuessed ==
    ASSUME EqualKeysEqualAmounts, TInv, GuessTrue, NEW base, base = initial,
           CoverInv(base), Ran("guess"), height = Len(Chain),
           NEW j \in DOMAIN tx.vin, SpentKnown(j)
    PROVE  \E n \in DOMAIN identified["guess"] :
               identified["guess"][n] = RealInputs[j]
<1>1. /\ tx \in Spends /\ tx.vin[j].is_key
      /\ \A m \in DOMAIN tx.vin[j].ring : tx.vin[j].ring[m] \in Refs
  BY SpendFacts DEF TInv, FixedInv, SpentKnown
<1>2. PICK known \in Range(tx.vin[j].ring) :
          /\ Spent(j, known) /\ IsOurs(initial, known) /\ Output(known).is_key
          /\ Derivable(Chain[known[1]], known[2], Output(known).via)
  BY DEF SpentKnown
<1>3. PICK m \in DOMAIN tx.vin[j].ring : known = tx.vin[j].ring[m]
  BY DEF Range
<1>4. /\ known \in Refs /\ RingTx(j, m) = Chain[known[1]]
      /\ known[2] \in DOMAIN RingTx(j, m).vout
      /\ RingTx(j, m).vout[known[2]].pub_key = PubKey(known)
  BY <1>1, <1>3, RefFacts DEF RingTx, PubKey
<1>5. CanFind(searcher, base, RingTx(j, m), known[2])
  BY <1>2, <1>4 DEF CanFind, Output, IsOurs
<1>6. CoveredIn(j, base)
  BY <1>1, LastOnChain DEF CoverInv, Covers, GuessedAt
<1>7. PICK y \in Range(identified["guess"]) :
          y.key_img = tx.vin[j].k_image /\ y.out_pub_key = PubKey(known)
  BY <1>3, <1>4, <1>5, <1>6 DEF CoveredIn
<1> DEFINE ref == SpentRef(j)
<1>8. Spent(j, ref)
  BY <1>2 DEF SpentRef
<1>9. ref \in Refs /\ PubKey(ref) = PubKey(known)
  BY <1>1, <1>2, <1>8 DEF Spent, Range
<1> HIDE DEF ref
<1>10. y = TrueInfo(j, ref)
  BY <1>7, <1>9, GuessIsRecord DEF TrueInfo
<1>11. \E n \in DOMAIN identified["guess"] : identified["guess"][n] = y
  BY <1>7 DEF Range
<1> QED BY <1>10, <1>11 DEF RealInputs, ref

(* As many guesses as inputs: they are the real inputs, in some order.     *)
LEMMA GuessesAreTheInputs ==
    ASSUME EqualKeysEqualAmounts, TInv, GuessTrue, NEW base, base = initial,
           CoverInv(base), Ran("guess"), height = Len(Chain),
           \A j \in DOMAIN tx.vin : SpentKnown(j),
           Len(identified["guess"]) = Len(tx.vin)
    PROVE  SumAmounts(identified["guess"]) = SumAmounts(RealInputs)
<1> DEFINE guesses == identified["guess"]
           D == DOMAIN tx.vin
           E == DOMAIN guesses
           p == [j \in D |-> CHOOSE n \in E : guesses[n] = RealInputs[j]]
<1>1. /\ tx \in Spends /\ Len(tx.vin) \in Nat /\ D = 1..Len(tx.vin)
      /\ guesses \in Seq(InputRecord) /\ E = 1..Len(tx.vin)
  BY SpendFacts DEF TInv, FixedInv, ResultsInv
<1>2. \A j \in D : p[j] \in E /\ guesses[p[j]] = RealInputs[j]
  BY SpentGuessed
<1>3. /\ DOMAIN RealInputs = D
      /\ \A j \in D : RealInputs[j].key_img = tx.vin[j].k_image
  BY DEF RealInputs, TrueInfo, Input
<1>4. IsFiniteSet(D) /\ IsFiniteSet(E) /\ Cardinality(E) = Cardinality(D)
  <2>1. IsFiniteSet(1..Len(tx.vin))
    BY <1>1, FS_Interval
  <2> QED BY <1>1, <2>1
<1>5. HasAmounts(guesses)
  <2>1. \A n \in E : guesses[n] \in InputRecord
    BY <1>1
  <2>2. \A n \in E : guesses[n].amount \in Nat
    BY <2>1 DEF InputRecord
  <2> QED BY <2>2 DEF HasAmounts
<1>6. \A i, j \in D : p[i] = p[j] => i = j
  <2> SUFFICES ASSUME NEW i \in D, NEW j \in D, p[i] = p[j]
               PROVE  i = j
    OBVIOUS
  <2>1. tx.vin[i].k_image = tx.vin[j].k_image
    <3>1. RealInputs[i] = RealInputs[j]
      <4> HIDE DEF p, D, E, guesses
      <4> QED BY <1>2
    <3> QED BY <1>3, <3>1
  <2>2. tx.vin[i].is_key /\ tx.vin[j].is_key
    BY DEF SpentKnown
  <2> QED BY <1>1, <2>1, <2>2, SpendAssumption
<1>7. HasAmounts(RealInputs)
  BY <1>2, <1>3, <1>5 DEF HasAmounts
<1>8. p \in [D -> E] /\ E = DOMAIN guesses
  BY <1>2
<1> HIDE DEF p, D, E, guesses
<1>9. \A n \in E : \E j \in D : p[j] = n
  <2> SUFFICES ASSUME NEW n \in E, \A j \in D : p[j] # n
               PROVE  FALSE
    OBVIOUS
  <2> DEFINE rest == E \ {n}
  <2>1. /\ IsFiniteSet(rest) /\ Cardinality(rest) = Cardinality(E) - 1
        /\ Cardinality(E) \in Nat
    BY <1>4, FS_RemoveElement, FS_CardinalityType
  <2>2. p \in [D -> rest]
    BY <1>8
  <2> HIDE DEF rest
  <2>3. Cardinality(rest) < Cardinality(D)
    BY <1>4, <2>1
  <2>4. \E i, j \in D : i # j /\ p[i] = p[j]
    BY <1>4, <2>1, <2>2, <2>3, FS_PigeonHole
  <2> QED BY <1>6, <2>4
<1>10. SumAmounts(RealInputs) = SumAmounts(guesses)
  <2>1. \A j \in D : guesses[p[j]].amount = RealInputs[j].amount
    BY <1>2
  <2> QED
    BY <1>3, <1>4, <1>5, <1>6, <1>7, <1>8, <1>9, <2>1, SumReordered
<1> QED BY <1>10 DEF guesses

(* If the transaction spends only outputs of addresses that were known,    *)
(* returns change only to such, and there are as many guesses as inputs,   *)
(* as example.cpp:199 checks, the sum of the guesses less the outputs is   *)
(* what was spent (example.cpp:205, UniversalIdentifier.cpp:52-309,        *)
(* 515-606), if equal one-time keys are equal payments.                    *)
THEOREM PossibleSpendingAlwaysExact ==
    ASSUME EqualKeysEqualAmounts
    PROVE  Spec => []PossibleSpendingExact
<1> DEFINE Inv == /\ TInv /\ KnownTrue /\ GuessTrue /\ GuessFirstInv
                  /\ OutputsInv
<1>1. Init => Inv
  BY InitTInv, InitGuess, InitGuessFirst, InitOutputs
<1>2. Inv /\ [Next]_vars => Inv'
  BY NextTInv, NextKnownTrue, NextGuessTrue, NextGuessFirst, NextOutputs
<1>3. Inv => PossibleSpendingExact
  <2> SUFFICES ASSUME Inv, Ran("output"), Once("output"), Ran("guess"),
                      status # "threw", height = Len(Chain),
                      \A j \in DOMAIN tx.vin : SpentKnown(j),
                      ChangeOf(account) = ChangeOf(initial),
                      Len(identified["guess"]) = Len(tx.vin)
               PROVE  PossibleSpent
                          = SumAmounts(RealInputs) - SumAmounts(Change)
    BY DEF PossibleSpendingExact, RealInputs, Change
  <2>1. PICK base : base = initial /\ CoverInv(base)
    BY DEF GuessFirstInv
  <2>2. SumAmounts(identified["guess"]) = SumAmounts(RealInputs)
    BY <2>1, GuessesAreTheInputs
  <2>3. SumAmounts(outputs) = SumAmounts(Change)
    BY ChangeFound DEF OutputsInv
  <2> QED BY <2>2, <2>3 DEF PossibleSpent
<1> QED BY <1>1, <1>2, <1>3, PTL DEF Spec

-----------------------------------------------------------------------------
(* The call comes to an end.                                               *)

(* Positions are tuples of numbers.                                        *)
LEMMA PositionType ==
    ASSUME TInv
    PROVE  /\ turn \in Nat /\ k \in Nat /\ r \in Nat /\ matching \in BOOLEAN
           /\ DOMAIN Position = 1..4
           /\ Position[1] = turn
           /\ Position[2] = IF matching THEN 1 ELSE 0
           /\ Position[3] = k
           /\ Position[4] = 2 * r + IF found = {} THEN 0 ELSE 1
  BY DEF TInv, CursorInv, Position

(* To get further is to take a later place first.                          *)
LEMMA FurtherBy ==
    ASSUME NEW p, NEW q, DOMAIN p = 1..4
    PROVE  /\ p[1] < q[1] => Further(p, q)
           /\ p[1] = q[1] /\ p[2] < q[2] => Further(p, q)
           /\ p[1] = q[1] /\ p[2] = q[2] /\ p[3] < q[3] => Further(p, q)
           /\ p[1] = q[1] /\ p[2] = q[2] /\ p[3] = q[3] /\ p[4] < q[4]
                  => Further(p, q)
<1>1. /\ 1 \in DOMAIN p /\ 2 \in DOMAIN p /\ 3 \in DOMAIN p /\ 4 \in DOMAIN p
      /\ 1..(1 - 1) = {} /\ 1..(2 - 1) = {1} /\ 1..(3 - 1) = {1, 2}
      /\ 1..(4 - 1) = {1, 2, 3}
  OBVIOUS
<1> QED BY <1>1 DEF Further

(* A step within a turn that goes to the next input, pass, or half of a    *)
(* ring member.                                                            *)
LEMMA FurtherInTurn ==
    ASSUME TInv, TInv',
           \/ turn' = turn + 1
           \/ turn' = turn /\ ~matching /\ matching'
           \/ turn' = turn /\ matching' = matching /\ k' = k + 1
           \/ /\ turn' = turn /\ matching' = matching /\ k' = k
              /\ \/ r' = r + 1
                 \/ r' = r /\ found = {} /\ found' # {}
    PROVE  Further(Position, Position')
<1>1. /\ turn \in Nat /\ k \in Nat /\ r \in Nat /\ matching \in BOOLEAN
      /\ DOMAIN Position = 1..4
      /\ Position[1] = turn
      /\ Position[2] = IF matching THEN 1 ELSE 0
      /\ Position[3] = k
      /\ Position[4] = 2 * r + IF found = {} THEN 0 ELSE 1
  BY PositionType
<1>2. /\ turn' \in Nat /\ k' \in Nat /\ r' \in Nat /\ matching' \in BOOLEAN
      /\ Position'[1] = turn'
      /\ Position'[2] = IF matching' THEN 1 ELSE 0
      /\ Position'[3] = k'
      /\ Position'[4] = 2 * r' + IF found' = {} THEN 0 ELSE 1
  BY DEF TInv, CursorInv, Position
<1> DEFINE p == Position
           q == Position'
<1>3. CASE turn' = turn + 1
  <2>1. p[1] < q[1]
    BY <1>1, <1>2, <1>3
  <2> HIDE DEF p, q
  <2>2. Further(p, q)
    BY <1>1, <2>1, FurtherBy DEF p
  <2> QED BY <2>2 DEF p, q
<1>4. CASE turn' = turn /\ ~matching /\ matching'
  <2>1. p[1] = q[1] /\ p[2] < q[2]
    BY <1>1, <1>2, <1>4
  <2> HIDE DEF p, q
  <2>2. Further(p, q)
    BY <1>1, <2>1, FurtherBy DEF p
  <2> QED BY <2>2 DEF p, q
<1>5. CASE turn' = turn /\ matching' = matching /\ k' = k + 1
  <2>1. p[1] = q[1] /\ p[2] = q[2] /\ p[3] < q[3]
    BY <1>1, <1>2, <1>5
  <2> HIDE DEF p, q
  <2>2. Further(p, q)
    BY <1>1, <2>1, FurtherBy DEF p
  <2> QED BY <2>2 DEF p, q
<1>6. CASE /\ turn' = turn /\ matching' = matching /\ k' = k
           /\ \/ r' = r + 1
              \/ r' = r /\ found = {} /\ found' # {}
  <2>1. p[1] = q[1] /\ p[2] = q[2] /\ p[3] = q[3] /\ p[4] < q[4]
    <3>1. p[1] = q[1] /\ p[2] = q[2] /\ p[3] = q[3]
      BY <1>1, <1>2, <1>6
    <3>2. /\ p[4] \in {2 * r, 2 * r + 1}
          /\ found = {} => p[4] = 2 * r
          /\ q[4] \in {2 * r', 2 * r' + 1}
          /\ found' # {} => q[4] = 2 * r' + 1
      BY <1>1, <1>2
    <3> HIDE DEF p, q
    <3> QED BY <1>1, <1>2, <1>6, <3>1, <3>2
  <2> HIDE DEF p, q
  <2>2. Further(p, q)
    BY <1>1, <2>1, FurtherBy DEF p
  <2> QED BY <2>2 DEF p, q
<1> QED BY <1>3, <1>4, <1>5, <1>6

(* Every step is one of those, or an exception.                            *)
LEMMA StepAdvances ==
    ASSUME TInv, TInv', Identify
    PROVE  status' = "threw" \/ Further(Position, Position')
<1> SUFFICES ASSUME status' # "threw"
             PROVE  \/ turn' = turn + 1
                    \/ turn' = turn /\ ~matching /\ matching'
                    \/ turn' = turn /\ matching' = matching /\ k' = k + 1
                    \/ /\ turn' = turn /\ matching' = matching /\ k' = k
                       /\ \/ r' = r + 1
                          \/ r' = r /\ found = {} /\ found' # {}
  BY FurtherInTurn
<1>1. CASE SkipInput \/ RunOutput \/ NextIdentifier \/ StartMatching
  BY <1>1 DEF SkipInput, RunOutput, NextIdentifier, StartMatching, NextInput
<1>2. CASE LookUpRing
  BY <1>2 DEF LookUpRing, Throw
<1>3. CASE ScanMember
  BY <1>3 DEF ScanMember, Throw, cursor
<1>4. CASE GuessMember \/ RealNoMatch \/ RealMatch
  BY <1>4 DEF GuessMember, RealNoMatch, RealMatch, AfterMember, NextInput
<1>5. CASE CheckOffsets
  <2>1. /\ r = 0 /\ turn' = turn /\ matching' = matching
        /\ (r' = 1 /\ k' = k) \/ k' = k + 1
    BY <1>5 DEF CheckOffsets, NextInput
  <2> QED BY <2>1
<1>6. CASE MatchRing
  BY <1>6 DEF MatchRing, NextInput, Throw
<1>7. CASE RealRefused
  BY <1>7 DEF RealRefused, Throw
<1> QED BY <1>1, <1>2, <1>3, <1>4, <1>5, <1>6, <1>7 DEF Identify

(* Every step of the call gets it further, or ends it with an exception,   *)
(* for any rings, identifiers and losses of blocks; as TypeCorrect bounds  *)
(* how far it can come, a call takes finitely many steps                   *)
(* (UniversalIdentifier.cpp:359-461, 513-626, 628-781).                    *)
THEOREM CallAlwaysAdvances == Spec => CallAdvances
<1>1. Init => TInv
  BY InitTInv
<1>2. TInv /\ [Next]_vars => TInv'
  BY NextTInv
<1>3. TInv /\ TInv' /\ [Next]_vars =>
          [Identify => status' = "threw" \/ Further(Position, Position')]_vars
  BY StepAdvances
<1> QED BY <1>1, <1>2, <1>3, PTL DEF Spec, CallAdvances
=============================================================================
