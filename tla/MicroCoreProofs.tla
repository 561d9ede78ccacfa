-------------------------- MODULE MicroCoreProofs ---------------------------
(***************************************************************************)
(* MicroCore for every set of transactions and blocks and any number of    *)
(* calls and changes: its answers were true at a moment of the call, and   *)
(* its three looks at the database are as good as one.                     *)
(***************************************************************************)
EXTENDS MicroCore, SequenceTheorems, TLAPS

Entry == [hash : TxHash, form : {"whole", "pruned"}]

(* Besides the types: when a call is running, that the present state of    *)
(* the transaction being read counts as seen, and that the second look     *)
(* failed for a reason.                                                    *)
IInv ==
    /\ TypeOK
    /\ result = "running" <=> pc \in {"next", "have", "get", "pruned"}
    /\ Reading => ledger[block[k]] \in seen
    /\ pc = "pruned" => seen \cap {"absent", "pruned"} # {}

LEMMA HashRead ==
    ASSUME IInv, Reading
    PROVE  /\ k \in DOMAIN block /\ k \in Nat /\ k <= Len(block)
           /\ block[k] \in TxHash
           /\ ledger[block[k]] \in Forms
<1>1. block \in Seq(TxHash) /\ k \in 1..Len(block)
  BY BlocksAssumption DEF IInv, TypeOK
<1> QED BY <1>1 DEF IInv, TypeOK

LEMMA InitIInv == Init => IInv
<1> SUFFICES ASSUME Init PROVE IInv
  OBVIOUS
<1>1. Len(block) \in Nat
  BY BlocksAssumption DEF Init
<1>2. txs \in Seq(Entry)
  BY DEF Init
<1>3. pc = "idle" /\ result = "none" /\ k \in 1..(Len(block) + 1) /\ seen = {}
  BY <1>1 DEF Init
<1>4. initialization_succeded \in BOOLEAN /\ core_has_db \in BOOLEAN
      /\ returned \subseteq BOOLEAN
  BY DEF Init
<1>5. TypeOK
  BY <1>2, <1>3, <1>4 DEF Init, TypeOK, Reading, Entry
<1> QED BY <1>3, <1>5 DEF IInv, Reading

(* A write of the node adds what it leaves to what was seen.               *)
LEMMA ChangeStep ==
    ASSUME IInv, NEW h \in TxHash, NEW form \in Forms, Change(h, form)
    PROVE  IInv'
<1>1. ledger' \in [TxHash -> Forms]
  BY DEF Change, IInv, TypeOK
<1>2. UNCHANGED <<pc, initialization_succeded, core_has_db, block, k, txs,
                  result, returned>>
  BY DEF Change, core, call
<1>3. CASE Reading
  <2>1. ledger'[block[k]] \in Forms
    BY <1>1, <1>3, HashRead
  <2>2. seen' = seen \cup {ledger'[block[k]]}
    BY <1>3 DEF Change, Reading
  <2> QED BY <1>1, <1>2, <2>1, <2>2 DEF IInv, TypeOK, Reading
<1>4. CASE ~Reading
  BY <1>1, <1>2, <1>4 DEF Change, IInv, TypeOK, Reading
<1> QED BY <1>3, <1>4

(* The entry after a push.                                                 *)
LEMMA PushFacts ==
    ASSUME IInv, Reading, NEW form \in {"whole", "pruned"}, Push(form)
    PROVE  /\ txs' \in Seq(Entry)
           /\ Len(txs') = Len(txs) + 1 /\ txs'[Len(txs')].form = form
           /\ k' = k + 1 /\ k' \in 1..(Len(block) + 1)
<1>1. [hash |-> block[k], form |-> form] \in Entry
  BY HashRead DEF Entry
<1>2. txs \in Seq(Entry)
  BY DEF IInv, TypeOK, Entry
<1>3. k \in 1..Len(block) /\ Len(block) \in Nat
  BY HashRead, BlocksAssumption DEF IInv, TypeOK
<1> QED BY <1>1, <1>2, <1>3 DEF Push

(* The three looks.                                                        *)
LEMMA LookStep ==
    ASSUME IInv, HaveTx \/ GetTx \/ GetPrunedTx
    PROVE  IInv'
<1>0. /\ Reading
      /\ UNCHANGED <<ledger, initialization_succeded, core_has_db, block,
                     returned, seen>>
  BY DEF HaveTx, GetTx, GetPrunedTx, Reading, core
<1>1. CASE ReturnFalse
  BY <1>0, <1>1 DEF ReturnFalse, IInv, TypeOK, Reading
<1>2. CASE \E form \in {"whole", "pruned"} : Push(form)
  <2>1. PICK form \in {"whole", "pruned"} : Push(form)
    BY <1>2
  <2>2. txs' \in Seq(Entry) /\ k' \in 1..(Len(block) + 1)
    BY <1>0, <2>1, PushFacts
  <2>3. pc' = "next" /\ result' = result
    BY <2>1 DEF Push
  <2> QED BY <1>0, <2>2, <2>3 DEF IInv, TypeOK, Reading, Entry
<1>3. CASE /\ UNCHANGED <<k, txs, result>>
           /\ \/ pc' = "get"
              \/ pc' = "pruned" /\ ledger[block[k]] # "whole"
  <2>1. ledger[block[k]] \in Forms /\ ledger[block[k]] \in seen
    BY <1>0, HashRead DEF IInv
  <2> QED BY <1>0, <1>3, <2>1 DEF IInv, TypeOK, Reading, Forms
<1> QED BY <1>1, <1>2, <1>3 DEF HaveTx, GetTx, GetPrunedTx

LEMMA NextIInv == IInv /\ [Next]_vars => IInv'
<1> SUFFICES ASSUME IInv, [Next]_vars PROVE IInv'
  OBVIOUS
<1>1. CASE AddTx \/ PruneTx \/ PopTx
  <2>1. PICK h \in TxHash, form \in Forms : Change(h, form)
    BY <1>1 DEF AddTx, PruneTx, PopTx, Forms
  <2> QED BY <2>1, ChangeStep
<1>2. CASE OpenDb \/ InitCore \/ InitMempool
  <2>1. UNCHANGED <<ledger, call, seen>>
        /\ pc \in {"idle", "core", "mempool"} /\ pc' \in {"idle", "core", "mempool"}
    BY <1>2 DEF OpenDb, InitCore, InitMempool
  <2>2. /\ initialization_succeded' \in {initialization_succeded, TRUE}
        /\ core_has_db' \in {core_has_db, TRUE}
        /\ returned' \subseteq returned \cup BOOLEAN
    BY <1>2 DEF OpenDb, InitCore, InitMempool
  <2>3. TypeOK'
    BY <2>1, <2>2 DEF IInv, TypeOK, Reading, call
  <2> QED BY <2>1, <2>3 DEF IInv, Reading, call
<1>3. CASE GetBlockCompleteEntry
  <2>1. block' \in Blocks /\ Len(block') \in Nat /\ k' = 1
    BY <1>3, BlocksAssumption DEF GetBlockCompleteEntry
  <2>2. txs' \in Seq(Entry)
    <3>1. txs \in Seq(Entry)
      BY DEF IInv, TypeOK, Entry
    <3>2. txs' = <<>> \/ txs' = txs
      BY <1>3 DEF GetBlockCompleteEntry
    <3> QED BY <3>1, <3>2, EmptySeq
  <2>3. /\ UNCHANGED <<ledger, core, seen>>
        /\ pc' = "next" /\ result' = "running"
    BY <1>3 DEF GetBlockCompleteEntry
  <2>4. k' \in 1..(Len(block') + 1)
    BY <2>1
  <2>5. TypeOK'
    BY <2>1, <2>2, <2>3, <2>4 DEF IInv, TypeOK, Reading, core, Entry
  <2> QED BY <2>3, <2>5 DEF IInv, Reading
<1>4. CASE NextTx
  <2>1. block \in Seq(TxHash) /\ k \in 1..Len(block)
    BY <1>4, BlocksAssumption DEF NextTx, IInv, TypeOK
  <2>2. ledger[block[k]] \in Forms
    BY <2>1 DEF IInv, TypeOK
  <2> QED BY <1>4, <2>1, <2>2 DEF NextTx, IInv, TypeOK, Reading, core, call
<1>5. CASE ReturnTrue
  BY <1>5 DEF ReturnTrue, IInv, TypeOK, Reading, core
<1>6. CASE HaveTx \/ GetTx \/ GetPrunedTx
  BY <1>6, LookStep
<1>7. CASE UNCHANGED vars
  BY <1>7 DEF vars, core, call, IInv, TypeOK, Reading
<1> QED BY <1>1, <1>2, <1>3, <1>4, <1>5, <1>6, <1>7 DEF Next

(* The invariant holds for ever.                                           *)
THEOREM Invariant == Spec => []IInv
  BY InitIInv, NextIInv, PTL DEF Spec

(* What get_tx answers was so at a moment while it ran.                    *)
THEOREM AnswersAlwaysSeen == Spec => AnswersWereSeen
<1> DEFINE Answer ==
      /\ result = "running" /\ result' = "false" => "absent" \in seen
      /\ Reading /\ k' = k + 1 =>
            \/ txs'[Len(txs')].form \in seen
            \/ txs'[Len(txs')].form = "pruned" /\ "absent" \in seen
<1>1. IInv /\ [Next]_vars => [Answer]_vars
  <2>1. SUFFICES ASSUME IInv, Next PROVE Answer
    OBVIOUS
  <2>2. CASE HaveTx \/ GetTx \/ GetPrunedTx
    <3>1. Reading /\ ledger[block[k]] \in seen
      BY <2>1, <2>2 DEF HaveTx, GetTx, GetPrunedTx, Reading, IInv
    <3>2. CASE ReturnFalse /\ ledger[block[k]] = "absent"
      <4>1. k \in Nat /\ k' = k
        BY <2>1, <3>1, <3>2, HashRead DEF ReturnFalse
      <4> QED BY <3>1, <3>2, <4>1
    <3>3. CASE Push("whole") /\ ledger[block[k]] = "whole"
      BY <2>1, <3>1, <3>3, PushFacts DEF Push
    <3>4. CASE Push("pruned") /\ pc = "pruned"
      <4>1. "absent" \in seen \/ "pruned" \in seen
        BY <2>1, <3>4 DEF IInv
      <4> QED BY <2>1, <3>1, <3>4, <4>1, PushFacts DEF Push
    <3>5. CASE UNCHANGED <<k, txs, result>>
      <4>1. k \in Nat
        BY <2>1, <3>1, HashRead
      <4> QED BY <3>5, <4>1
    <3> QED BY <2>2, <3>2, <3>3, <3>4, <3>5 DEF HaveTx, GetTx, GetPrunedTx
  <2>3. CASE ~(HaveTx \/ GetTx \/ GetPrunedTx)
    <3>1. k' = k \/ ~Reading
      BY <2>1, <2>3 DEF Next, AddTx, PruneTx, PopTx, Change, OpenDb, InitCore,
         InitMempool, GetBlockCompleteEntry, NextTx, ReturnTrue, Reading, call
    <3>2. result' # "false" \/ result' = result
      BY <2>1, <2>3 DEF Next, AddTx, PruneTx, PopTx, Change, OpenDb, InitCore,
         InitMempool, GetBlockCompleteEntry, NextTx, ReturnTrue, call
    <3>3. Reading => k \in Nat
      BY <2>1, HashRead
    <3> QED BY <3>1, <3>2, <3>3
  <2> QED BY <2>2, <2>3
<1> QED BY <1>1, Invariant, PTL DEF Spec, AnswersWereSeen

-----------------------------------------------------------------------------
(* The hashes of an entry.                                                 *)
Hashes(entry) == [n \in DOMAIN entry |-> entry[n].hash]

LEMMA HashesFacts ==
    ASSUME NEW entry \in Seq(Entry)
    PROVE  /\ Hashes(entry) \in Seq(TxHash)
           /\ Len(Hashes(entry)) = Len(entry)
           /\ \A n \in 1..Len(entry) : Hashes(entry)[n] = entry[n].hash
<1>1. Len(entry) \in Nat /\ DOMAIN entry = 1..Len(entry)
  BY LenProperties
<1>2. \A n \in 1..Len(entry) : entry[n].hash \in TxHash
  <2>1. \A n \in 1..Len(entry) : entry[n] \in Entry
    BY ElementOfSeq
  <2> QED BY <2>1 DEF Entry
<1>3. Hashes(entry) \in [1..Len(entry) -> TxHash]
  BY <1>1, <1>2 DEF Hashes
<1>4. Hashes(entry) \in Seq(TxHash)
  BY <1>1, <1>3, SeqDef
<1>5. DOMAIN Hashes(entry) = 1..Len(Hashes(entry)) /\ Len(Hashes(entry)) \in Nat
  BY <1>4, LenProperties
<1>6. DOMAIN Hashes(entry) = 1..Len(entry)
  BY <1>3
<1> HIDE DEF Hashes
<1>7. Len(Hashes(entry)) = Len(entry)
  <2>1. \A m, n \in Nat : 1..m = 1..n => m = n
    OBVIOUS
  <2> QED BY <1>1, <1>5, <1>6, <2>1
<1> QED BY <1>1, <1>4, <1>7 DEF Hashes

LEMMA HashesAppend ==
    ASSUME NEW entry \in Seq(Entry), NEW h \in TxHash, NEW form \in {"whole", "pruned"}
    PROVE  Hashes(Append(entry, [hash |-> h, form |-> form]))
             = Append(Hashes(entry), h)
<1> DEFINE e == [hash |-> h, form |-> form]
<1> DEFINE new == Append(entry, e)
<1> DEFINE one == Hashes(new)
<1> DEFINE two == Append(Hashes(entry), h)
<1>1. e \in Entry /\ e.hash = h
  BY DEF Entry
<1> HIDE DEF e
<1>2. /\ new \in Seq(Entry) /\ Len(new) = Len(entry) + 1 /\ Len(entry) \in Nat
      /\ \A n \in 1..Len(entry) : new[n] = entry[n]
      /\ new[Len(entry) + 1] = e
  BY <1>1, AppendProperties, LenProperties
<1> HIDE DEF new
<1>3. /\ one \in Seq(TxHash) /\ Len(one) = Len(entry) + 1
      /\ \A n \in 1..(Len(entry) + 1) : one[n] = new[n].hash
  BY <1>2, HashesFacts
<1>4. /\ two \in Seq(TxHash) /\ Len(two) = Len(entry) + 1
      /\ \A n \in 1..Len(entry) : two[n] = entry[n].hash
      /\ two[Len(entry) + 1] = h
  <2>1. /\ Hashes(entry) \in Seq(TxHash) /\ Len(Hashes(entry)) = Len(entry)
        /\ \A n \in 1..Len(entry) : Hashes(entry)[n] = entry[n].hash
    BY HashesFacts
  <2> QED BY <2>1, AppendProperties
<1> HIDE DEF one, two
<1>5. \A n \in 1..Len(one) : one[n] = two[n]
  <2> TAKE n \in 1..Len(one)
  <2>1. n \in 1..Len(entry) \/ n = Len(entry) + 1
    BY <1>2, <1>3
  <2>2. CASE n \in 1..Len(entry)
    BY <1>2, <1>3, <1>4, <2>2
  <2>3. CASE n = Len(entry) + 1
    BY <1>1, <1>2, <1>3, <1>4, <2>3
  <2> QED BY <2>1, <2>2, <2>3
<1>6. one = two
  BY <1>3, <1>4, <1>5, SeqEqual
<1> QED BY <1>6 DEF one, two, new, e

(* Three looks are as good as one: whatever was the last of them is the    *)
(* one at which the database was asked.                                    *)
THEOREM ReadsAreAtomic == Spec => AtomicReads
<1> DEFINE there == {h \in TxHash : ledger[h] # "absent"}
<1>1. Init => OneLook!Init
  BY DEF Init, OneLook!Init
<1>2. IInv /\ [Next]_vars => [OneLook!Next]_(OneLook!vars)
  <2>1. SUFFICES ASSUME IInv, [Next]_vars
                 PROVE  \/ OneLook!Next
                        \/ UNCHANGED <<there, block, k, Hashes(txs), result>>
    BY DEF OneLook!vars, Hashes
  <2>2. CASE AddTx \/ PruneTx \/ PopTx
    <3>1. UNCHANGED <<block, k, txs, result>>
      BY <2>2 DEF AddTx, PruneTx, PopTx, Change, call
    <3>2. OneLook!Write
      BY <3>1 DEF OneLook!Write
    <3> QED BY <3>2 DEF OneLook!Next
  <2>3. CASE GetBlockCompleteEntry
    <3>1. result # "running" /\ UNCHANGED ledger
      BY <2>1, <2>3 DEF GetBlockCompleteEntry, IInv
    <3>2. Hashes(txs)' \in {<<>>, Hashes(txs)}
      BY <2>3 DEF GetBlockCompleteEntry, Hashes
    <3>3. OneLook!Call
      BY <2>3, <3>1, <3>2 DEF GetBlockCompleteEntry, OneLook!Call, Hashes
    <3> QED BY <3>3 DEF OneLook!Next
  <2>4. CASE ReturnTrue
    <3>1. result = "running"
      BY <2>1, <2>4 DEF ReturnTrue, IInv
    <3>2. OneLook!Return
      BY <2>4, <3>1 DEF ReturnTrue, OneLook!Return
    <3> QED BY <3>2 DEF OneLook!Next
  <2>5. CASE HaveTx \/ GetTx \/ GetPrunedTx
    <3>1. /\ Reading /\ result = "running"
          /\ UNCHANGED <<ledger, block>>
      BY <2>1, <2>5 DEF HaveTx, GetTx, GetPrunedTx, Reading, IInv
    <3>2. /\ k <= Len(block) /\ block[k] \in TxHash
      BY <2>1, <3>1, HashRead
    <3>3. CASE ReturnFalse /\ ledger[block[k]] = "absent"
      <4>1. OneLook!Look
        BY <3>1, <3>2, <3>3 DEF ReturnFalse, OneLook!Look
      <4> QED BY <4>1 DEF OneLook!Next
    <3>4. CASE /\ \E form \in {"whole", "pruned"} : Push(form)
               /\ ledger[block[k]] # "absent"
      <4>1. /\ Hashes(txs)' = Append(Hashes(txs), block[k])
            /\ k' = k + 1 /\ result' = result
        <5>1. txs \in Seq(Entry)
          BY <2>1 DEF IInv, TypeOK, Entry
        <5>2. PICK form \in {"whole", "pruned"} : Push(form)
          BY <3>4
        <5>3. Hashes(txs)' = Hashes(Append(txs, [hash |-> block[k], form |-> form]))
          BY <5>2 DEF Push, Hashes
        <5> QED BY <3>2, <5>1, <5>2, <5>3, HashesAppend DEF Push
      <4>2. OneLook!Look
        BY <3>1, <3>2, <3>4, <4>1 DEF OneLook!Look, Hashes
      <4> QED BY <4>2 DEF OneLook!Next
    <3>5. CASE UNCHANGED <<k, txs, result>>
      BY <3>1, <3>5 DEF Hashes
    <3> QED BY <2>5, <3>3, <3>4, <3>5 DEF HaveTx, GetTx, GetPrunedTx
  <2>6. CASE OpenDb \/ InitCore \/ InitMempool \/ NextTx \/ UNCHANGED vars
    <3>1. UNCHANGED <<ledger, block, k, txs, result>>
      BY <2>6 DEF OpenDb, InitCore, InitMempool, NextTx, vars, call
    <3> QED BY <3>1 DEF Hashes
  <2> QED BY <2>1, <2>2, <2>3, <2>4, <2>5, <2>6 DEF Next
<1> QED BY <1>1, <1>2, Invariant, PTL DEF Spec, AtomicReads, OneLook!Spec

(* The position never leaves the block while it is read.                   *)
THEOREM TypeCorrect == Spec => []TypeOK
<1>1. IInv => TypeOK
  BY DEF IInv
<1> QED BY <1>1, Invariant, PTL

-----------------------------------------------------------------------------
(* What is known of the database while init() is on its way to success.    *)
ToldInv ==
    /\ initialization_succeded <=> TRUE \in returned
    /\ initialization_succeded \/ pc = "mempool" \/ result # "none" => core_has_db

LEMMA NextTold == IInv /\ ToldInv /\ [Next]_vars => ToldInv'
<1> SUFFICES ASSUME IInv, ToldInv, [Next]_vars PROVE ToldInv'
  OBVIOUS
<1>1. CASE OpenDb \/ InitCore \/ InitMempool
  <2>1. initialization_succeded \in BOOLEAN /\ UNCHANGED result
    BY <1>1 DEF OpenDb, InitCore, InitMempool, call, IInv, TypeOK
  <2>2. CASE OpenDb
    BY <2>1, <2>2 DEF OpenDb, ToldInv
  <2>3. CASE InitCore
    BY <2>1, <2>3 DEF InitCore, ToldInv
  <2>4. CASE InitMempool
    BY <2>1, <2>4 DEF InitMempool, ToldInv
  <2> QED BY <1>1, <2>2, <2>3, <2>4
<1>2. CASE GetBlockCompleteEntry
  <2>1. /\ UNCHANGED <<initialization_succeded, core_has_db, returned>>
        /\ core_has_db
    BY <1>2 DEF GetBlockCompleteEntry, core, ToldInv
  <2> QED BY <2>1 DEF ToldInv
<1>3. CASE ReturnTrue \/ HaveTx \/ GetTx \/ GetPrunedTx
  <2>1. /\ UNCHANGED <<initialization_succeded, core_has_db, returned>>
        /\ pc \in {"next", "have", "get", "pruned"}
    BY <1>3 DEF ReturnTrue, HaveTx, GetTx, GetPrunedTx, core
  <2>2. core_has_db
    BY <2>1 DEF IInv, ToldInv
  <2> QED BY <2>1, <2>2 DEF ToldInv
<1>4. CASE AddTx \/ PruneTx \/ PopTx \/ NextTx \/ UNCHANGED vars
  <2>1. /\ UNCHANGED <<initialization_succeded, core_has_db, returned, result>>
        /\ pc' = pc \/ pc' = "have"
    BY <1>4 DEF AddTx, PruneTx, PopTx, Change, NextTx, vars, core, call
  <2> QED BY <2>1 DEF ToldInv
<1> QED BY <1>1, <1>2, <1>3, <1>4 DEF Next

(* Between calls, however many failed before and after, init_success()     *)
(* says whether one returned true, and nothing is read without a database. *)
THEOREM InitSuccessAlwaysTold == Spec => []InitSuccessIsTold
<1>1. Init => ToldInv
  BY DEF Init, ToldInv
<1>2. ToldInv => InitSuccessIsTold
  BY DEF ToldInv, InitSuccessIsTold
<1> QED BY <1>1, <1>2, NextTold, Invariant, PTL DEF Spec
=============================================================================
