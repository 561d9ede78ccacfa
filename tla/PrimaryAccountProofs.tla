------------------------ MODULE PrimaryAccountProofs ------------------------
(***************************************************************************)
(* The properties of PrimaryAccount, for every lookahead, word length,     *)
(* set of manually registered indices and derivation of keys.              *)
(***************************************************************************)
EXTENDS PrimaryAccount, SubaddressBookProofs

(* The inductive invariant: besides the properties themselves it says that *)
(* the primary address is registered, which populate never does (it starts *)
(* account 0 at address 1) and the coverage of account 0 rests on.         *)
IInv ==
    /\ GoodAccount(account)
    /\ promised \in UInt32
    /\ CoveredUpTo(account, promised)

(* The constructor establishes the invariant.                              *)
LEMMA InitIInv == Init => IInv
<1> SUFFICES ASSUME Init PROVE IInv
  OBVIOUS
<1>1. promised \in UInt32
  BY WordAssumption DEF Init, UInt32
<1>2. CoveredUpTo(account, promised)
  BY DEF Init, CoveredUpTo
<1> QED BY <1>1, <1>2, NewAccountGood DEF Init, IInv

(* A step that extends the account and promises nothing new keeps the      *)
(* invariant.                                                              *)
LEMMA PromiseKept ==
    ASSUME IInv, Extends(account, account'), UNCHANGED promised
    PROVE  IInv'
  BY CoveredMonotone DEF IInv, Extends

(* Every step keeps the invariant.                                         *)
LEMMA NextIInv == IInv /\ [Next]_vars => IInv'
<1> SUFFICES ASSUME IInv, [Next]_vars
             PROVE  IInv'
  OBVIOUS
<1>0. GoodAccount(account) /\ next \in UInt32
  BY GoodIsSound DEF IInv, next
<1>1. CASE Populate
  <2>1. 0 \in UInt32 /\ LOOKAHEAD_MAJOR \in UInt32 /\ CoveredUpTo(account, 0)
    BY LookaheadAssumption, WordAssumption DEF UInt32, CoveredUpTo
  <2>2. Extends(account, account') /\ CoveredUpTo(account', LOOKAHEAD_MAJOR)
    BY <1>0, <1>1, <2>1, PopulateGood DEF Populate
  <2>3. promised' \in {promised, LOOKAHEAD_MAJOR}
    BY <1>1 DEF Populate
  <2>4. promised' \in UInt32 /\ CoveredUpTo(account', promised')
    BY <2>1, <2>2, <2>3, CoveredMonotone DEF IInv, Extends
  <2> QED BY <2>2, <2>4 DEF IInv, Extends
<1>2. CASE Expand
  <2>1. PICK new_acc_id \in 0..MaxExpansion :
            account' = ExpandSubaddresses(account, new_acc_id)
    BY <1>2 DEF Expand
  <2>2. new_acc_id \in UInt32
    BY OwnerAssumption, WordAssumption DEF UInt32
  <2>3. Extends(account, account')
    BY <1>0, <2>1, <2>2, ExpandGood
  <2> QED BY <1>2, <2>3, PromiseKept DEF Expand
<1>3. CASE AddIndex
  <2>1. PICK idx \in Manual : account' = AddSubaddressIndex(account, idx)
    BY <1>3 DEF AddIndex
  <2>2. Extends(account, account')
    BY <1>0, <2>1, OwnerAssumption, AddIndexGood
  <2> QED BY <1>3, <2>2, PromiseKept DEF AddIndex
<1>4. CASE FoundOutput
  <2>1. PICK e \in account.subaddresses :
            /\ account' = AfterFound(account, e.idx[1])
            /\ promised' = PromisedAfter(promised, account, e.idx[1])
    BY <1>4 DEF FoundOutput
  <2>2. e.idx[1] \in UInt32
    BY <1>0, GoodIsSound DEF Sound, Index
  <2> QED BY <1>0, <2>1, <2>2, CapAssumption, FindKeepsPromise DEF IInv, Extends
<1>5. CASE UNCHANGED vars
  BY <1>5 DEF vars, IInv
<1> QED BY <1>1, <1>2, <1>3, <1>4, <1>5 DEF Next

(* The invariant holds for ever.                                           *)
THEOREM Invariant == Spec => []IInv
  BY InitIInv, NextIInv, PTL DEF Spec

(* The account stays a typed map with a 32-bit watermark: no conversion of *)
(* the expansion leaves the word.                                          *)
THEOREM TypeCorrect == Spec => []TypeOK
<1>1. IInv => TypeOK
  BY DEF IInv, TypeOK, GoodAccount
<1> QED BY <1>1, Invariant, PTL

(* Every registered key is filed under the index it was derived from.      *)
THEOREM KeysAlwaysMatch == Spec => []KeyMatchesIndex
<1>1. IInv => KeyMatchesIndex
  BY DEF IInv, KeyMatchesIndex, GoodAccount
<1> QED BY <1>1, Invariant, PTL

(* All accounts below the watermark are registered, whatever sequence of   *)
(* populates, expansions, manual registrations and finds led there.        *)
THEOREM WindowAlwaysCovered == Spec => []WindowCovered
<1>1. IInv => WindowCovered
  BY DEF IInv, WindowCovered, GoodAccount, next
<1> QED BY <1>1, Invariant, PTL

(* The lookahead behind a find inside the window is registered for ever.   *)
THEOREM LookaheadAlwaysCovered == Spec => []LookaheadCovered
<1>1. IInv => LookaheadCovered
  BY DEF IInv, LookaheadCovered
<1> QED BY <1>1, Invariant, PTL

(* No find registers more than MAX_NEW_ACCOUNTS accounts.                  *)
THEOREM ExpansionAlwaysBounded == Spec => ExpansionBounded
<1> DEFINE Bounded ==
        FoundOutput => Cardinality(AccountIds(account') \ AccountIds(account))
                           <= MAX_NEW_ACCOUNTS
<1>1. IInv /\ [Next]_vars => [Bounded]_vars
  <2>1. SUFFICES ASSUME IInv, FoundOutput
                 PROVE  Cardinality(AccountIds(account') \ AccountIds(account))
                           <= MAX_NEW_ACCOUNTS
    OBVIOUS
  <2>2. PICK e \in account.subaddresses : account' = AfterFound(account, e.idx[1])
    BY <2>1 DEF FoundOutput
  <2>3. GoodAccount(account) /\ e.idx[1] \in UInt32
    BY <2>1, GoodIsSound DEF IInv, Sound, Index
  <2> QED BY <2>2, <2>3, AfterFoundBounded
<1> QED BY <1>1, Invariant, PTL DEF Spec, ExpansionBounded
=============================================================================
