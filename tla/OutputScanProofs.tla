-------------------------- MODULE OutputScanProofs --------------------------
(***************************************************************************)
(* What OutputScan records, for every chain, every set of searchers and    *)
(* any number of scans: nothing false, nothing typed wrong, nothing known  *)
(* missed, no receipt within the gap limit missed; and that the scanner    *)
(* changes its account only as PrimaryAccount allows.                      *)
(***************************************************************************)
EXTENDS OutputScan, OutputIdentifyProofs, SequenceTheorems

-----------------------------------------------------------------------------
(* The inductive invariant.                                                *)

(* What a pass has gone through, it has not missed.                        *)
NothingMissed ==
    status \in {"scanning", "done"} =>
        \A n \in DOMAIN tx.vout :
            n < i /\ Findable(n) /\ KnownTo(known, tx.vout[n].spend_key)
                => Recorded(n)

AccountInv ==
    /\ GoodAccount(account)
    /\ promised \in UInt32
    /\ CoveredUpTo(account, promised)
    /\ known.subaddresses \subseteq account.subaddresses

(* The loop never looks before the first output, and a pass that is done   *)
(* has gone through all of them.                                           *)
LoopInv ==
    /\ status = "scanning" => i # 0
    /\ status = "done" => i > Len(tx.vout)

RecordInv == RecordsAreTrue /\ RctDerivationMatches

IInv == TypeOK /\ AccountInv /\ LoopInv /\ RecordInv /\ NothingMissed

(* Nothing is recorded before the first scan.                              *)
LEMMA InitIInv == Init => IInv
<1> SUFFICES ASSUME Init PROVE IInv
  OBVIOUS
<1>1. account = NewAccount /\ GoodAccount(account)
  BY NewAccountGood DEF Init
<1>2. Len(tx.vout) \in Nat
  BY ScanAssumption DEF Init, Transaction
<1>3. identified_outputs = <<>>
  BY DEF Init
<1>4. TypeOK
  BY <1>1, <1>2, <1>3 DEF Init, TypeOK, GoodAccount
<1>5. AccountInv
  BY <1>1, WordAssumption DEF Init, AccountInv, CoveredUpTo, UInt32
<1>6. LoopInv /\ NothingMissed
  BY DEF Init, LoopInv, NothingMissed
<1>7. RecordInv
  BY <1>3 DEF RecordInv, RecordsAreTrue, RctDerivationMatches
<1> QED BY <1>4, <1>5, <1>6, <1>7 DEF IInv

(* A step that changes neither the identifier's records nor its            *)
(* transaction keeps what is true of them.                                 *)
LEMMA RecordsKept ==
    ASSUME IInv, UNCHANGED <<searcher, tx, identified_outputs>>
    PROVE  /\ RecordInv'
           /\ identified_outputs' \in Seq(OutputInfo')
           /\ \A n : Recorded(n)' <=> Recorded(n)
           /\ \A n : Findable(n)' <=> Findable(n)
<1>1. OutputInfo' = OutputInfo
  BY DEF OutputInfo
<1>2. identified_outputs' \in Seq(OutputInfo')
  BY <1>1 DEF IInv, TypeOK
<1>3. RecordsAreTrue'
  BY DEF IInv, RecordInv, RecordsAreTrue, TrueRecord
<1>4. RctDerivationMatches'
  BY DEF IInv, RecordInv, RctDerivationMatches
<1>5. \A n : Recorded(n)' <=> Recorded(n)
  BY DEF Recorded
<1>6. \A n : Findable(n)' <=> Findable(n)
  BY DEF Findable
<1> QED BY <1>2, <1>3, <1>4, <1>5, <1>6 DEF RecordInv

(* A step that leaves the account and its history alone.                   *)
LEMMA AccountKept ==
    ASSUME IInv, UNCHANGED <<account, promised>>,
           known' = known \/ known' = account
    PROVE  AccountInv'
  BY DEF IInv, AccountInv

LEMMA LengthOfTx ==
    TypeOK => Len(tx.vout) \in Nat /\ i \in Nat /\ tx \in Transaction
  BY ScanAssumption DEF TypeOK, Transaction

-----------------------------------------------------------------------------
(* The client's steps.                                                     *)

LEMMA PopulateStep == IInv /\ Populate => IInv'
<1> SUFFICES ASSUME IInv, Populate PROVE IInv'
  OBVIOUS
<1>1. 0 \in UInt32 /\ LOOKAHEAD_MAJOR \in UInt32 /\ CoveredUpTo(account, 0)
  BY LookaheadAssumption, WordAssumption DEF UInt32, CoveredUpTo
<1>2. Extends(account, account') /\ CoveredUpTo(account', LOOKAHEAD_MAJOR)
  BY <1>1, PopulateGood DEF Populate, IInv, AccountInv
<1>3. promised' \in {promised, LOOKAHEAD_MAJOR}
  BY DEF Populate
<1>4. AccountInv'
  BY <1>1, <1>2, <1>3, CoveredMonotone
     DEF IInv, AccountInv, Extends, Populate
<1>5. TypeOK'
  BY <1>4, RecordsKept
     DEF IInv, TypeOK, Populate, identifier, AccountInv, GoodAccount
<1>6. LoopInv'
  BY DEF IInv, LoopInv, Populate, identifier
<1>7. NothingMissed'
  BY RecordsKept DEF IInv, NothingMissed, KnownTo, Populate, identifier
<1> QED BY <1>4, <1>5, <1>6, <1>7, RecordsKept DEF IInv, Populate, identifier

LEMMA BeginStep == IInv /\ Begin => IInv'
<1> SUFFICES ASSUME IInv, Begin PROVE IInv'
  OBVIOUS
<1>1. tx' \in Txs /\ tx' \in Transaction /\ Len(tx'.vout) \in Nat
  <2>1. tx' \in Txs
    BY ScanAssumption DEF Begin, IInv, TypeOK
  <2> QED BY <2>1, ScanAssumption DEF Transaction
<1>2. identified_outputs' = <<>> /\ i' = 1 /\ status' = "scanning"
  BY DEF Begin
<1>3. AccountInv'
  BY AccountKept DEF Begin
<1>4. TypeOK'
  BY <1>1, <1>2 DEF IInv, TypeOK, Begin
<1>5. LoopInv'
  BY <1>2 DEF LoopInv
<1>6. RecordInv'
  BY <1>2 DEF RecordInv, RecordsAreTrue, RctDerivationMatches
<1>7. NothingMissed'
  <2>1. \A n \in DOMAIN tx'.vout : ~(n < 1)
    BY <1>1 DEF Transaction
  <2> QED BY <1>2, <2>1 DEF NothingMissed
<1> QED BY <1>3, <1>4, <1>5, <1>6, <1>7 DEF IInv

LEMMA IdentifyAgainStep == IInv /\ IdentifyAgain => IInv'
<1> SUFFICES ASSUME IInv, IdentifyAgain PROVE IInv'
  OBVIOUS
<1>1. i' = 1 /\ status' = "scanning"
  BY DEF IdentifyAgain
<1>2. AccountInv'
  BY AccountKept DEF IdentifyAgain
<1>3. TypeOK'
  BY <1>1, RecordsKept, LengthOfTx DEF IInv, TypeOK, IdentifyAgain
<1>4. LoopInv'
  BY <1>1 DEF LoopInv
<1>5. NothingMissed'
  <2>1. tx' = tx
    BY DEF IdentifyAgain
  <2>2. \A n \in DOMAIN tx'.vout : ~(n < 1)
    BY <2>1, LengthOfTx DEF IInv, Transaction
  <2> QED BY <1>1, <2>2 DEF NothingMissed
<1> QED BY <1>2, <1>3, <1>4, <1>5, RecordsKept DEF IInv, IdentifyAgain

-----------------------------------------------------------------------------
(* The steps of the loop.                                                  *)

(* Where the loop stands: at an output of the transaction.                 *)
LEMMA AtOutput ==
    ASSUME IInv, Scanning
    PROVE  /\ i \in DOMAIN tx.vout /\ i \in Nat
           /\ tx.vout[i] \in TxOut
           /\ status = "scanning"
<1>1. i \in Nat /\ tx \in Transaction /\ Len(tx.vout) \in Nat
  BY LengthOfTx DEF IInv
<1>2. status = "scanning" /\ i # 0 /\ i <= Len(tx.vout)
  BY DEF IInv, LoopInv, Scanning
<1>3. tx.vout \in Seq(TxOut)
  BY <1>1 DEF Transaction
<1>4. i \in DOMAIN tx.vout
  BY <1>1, <1>2, <1>3
<1> QED BY <1>1, <1>2, <1>4, OutputType

(* What is known and can be found matches, since the account forgets       *)
(* nothing.                                                                *)
LEMMA KnownMatches ==
    ASSUME IInv, Scanning, Findable(i), KnownTo(account, tx.vout[i].spend_key)
    PROVE  Matches # {}
<1>1. tx.vout[i].via \in Derivations
  BY AtOutput DEF TxOut
<1> QED BY <1>1, FindableMatches DEF Findable, KnownTo, Matches

(* An output that is skipped is not one that was known and can be found.   *)
LEMMA SkipOutputStep == IInv /\ SkipOutput => IInv'
<1> SUFFICES ASSUME IInv, SkipOutput PROVE IInv'
  OBVIOUS
<1>0. /\ Scanning /\ i' = i + 1 /\ tx' = tx /\ status' = "scanning"
      /\ known' = known /\ searcher' = searcher
  BY AtOutput DEF SkipOutput, history
<1>1. AccountInv'
  BY AccountKept DEF SkipOutput, history
<1>2. TypeOK'
  <2>1. i' \in 0..(Len(tx'.vout) + 1)
    BY <1>0, LengthOfTx DEF IInv, Scanning
  <2> QED BY <2>1, RecordsKept DEF IInv, TypeOK, SkipOutput
<1>3. LoopInv'
  BY <1>0, AtOutput DEF LoopInv
<1>4. ~(Findable(i) /\ KnownTo(known, tx.vout[i].spend_key))
  <2>1. SUFFICES ASSUME Findable(i), KnownTo(known, tx.vout[i].spend_key)
                 PROVE  FALSE
    OBVIOUS
  <2>2. KnownTo(account, tx.vout[i].spend_key)
    BY <2>1, OursMonotone DEF KnownTo, IInv, AccountInv
  <2>3. tx.vout[i].is_key /\ Matches # {}
    BY <1>0, <2>1, <2>2, KnownMatches DEF Findable
  <2> QED BY <2>3 DEF SkipOutput
<1>5. NothingMissed'
  <2>1. SUFFICES ASSUME NEW n \in DOMAIN tx.vout, n < i + 1, Findable(n),
                        KnownTo(known, tx.vout[n].spend_key)
                 PROVE  Recorded(n)
    BY <1>0, RecordsKept DEF NothingMissed, KnownTo, SkipOutput
  <2>2. n \in Nat /\ i \in Nat
    BY LengthOfTx DEF IInv, Transaction
  <2>3. n < i \/ n = i
    BY <2>1, <2>2
  <2> QED BY <1>0, <1>4, <2>1, <2>3, AtOutput DEF IInv, NothingMissed
<1> QED BY <1>1, <1>2, <1>3, <1>5, RecordsKept DEF IInv, SkipOutput

(* The loop stops, by an exception, a crash, or at its end.                *)
LEMMA StopStep ==
    ASSUME IInv, CannotDecode \/ Crash \/ Finish
    PROVE  IInv'
<1>0. UNCHANGED <<searcher, account, tx, i, identified_outputs, total_received,
                  total_xmr, scans, passes, known, before, promised, owed,
                  rewound, populated>>
  BY DEF CannotDecode, Crash, Finish, history
<1>1. AccountInv'
  BY <1>0, AccountKept
<1>2. status' \in {"failed", "crashed", "done"}
      /\ (status' = "done" => i > Len(tx.vout) /\ status = "scanning")
  BY DEF CannotDecode, Crash, Finish
<1>3. TypeOK'
  BY <1>0, <1>2, RecordsKept DEF IInv, TypeOK
<1>4. LoopInv'
  BY <1>0, <1>2 DEF LoopInv
<1>5. NothingMissed'
  BY <1>0, <1>2, RecordsKept DEF IInv, NothingMissed, KnownTo
<1> QED BY <1>0, <1>1, <1>3, <1>4, <1>5, RecordsKept DEF IInv

LEMMA StutterStep ==
    ASSUME IInv, UNCHANGED vars
    PROVE  IInv'
<1>0. UNCHANGED <<searcher, account, tx, i, status, identified_outputs,
                  total_received, total_xmr, known, promised>>
  BY DEF vars, identifier, history
<1>1. AccountInv'
  BY <1>0, AccountKept
<1>2. TypeOK'
  BY <1>0, RecordsKept DEF IInv, TypeOK
<1>3. LoopInv'
  BY <1>0 DEF IInv, LoopInv
<1>4. NothingMissed'
  BY <1>0, RecordsKept DEF IInv, NothingMissed, KnownTo
<1> QED BY <1>0, <1>1, <1>2, <1>3, <1>4, RecordsKept DEF IInv

(* What a find does to the account.                                        *)
LEMMA FoundAccount ==
    ASSUME IInv, RecordOutput
    PROVE  AccountInv'
<1>1. PICK e \in Matches :
        /\ account' = AccountAfter(searcher, account, e)
        /\ promised' = IF searcher.pacc
                       THEN PromisedAfter(promised, account, e.idx[1])
                       ELSE promised
  BY DEF RecordOutput
<1>2. known' = known
  BY DEF RecordOutput
<1>3. CASE ~searcher.pacc
  <2>1. UNCHANGED <<account, promised>>
    BY <1>1, <1>3 DEF AccountAfter
  <2> QED BY <1>2, <2>1, AccountKept
<1>4. CASE searcher.pacc
  <2>1. e.idx[1] \in UInt32
    BY ScanAssumption, MatchIsTrue
       DEF Matches, IInv, AccountInv, TypeOK, IsSearcher, Index
  <2>2. account' = AfterFound(account, e.idx[1])
        /\ promised' = PromisedAfter(promised, account, e.idx[1])
    BY <1>1, <1>4 DEF AccountAfter
  <2>3. /\ Extends(account, account')
        /\ promised' \in UInt32
        /\ CoveredUpTo(account', promised')
    BY <2>1, <2>2, CapAssumption, FindKeepsPromise DEF IInv, AccountInv
  <2> QED BY <1>2, <2>3 DEF Extends, IInv, AccountInv
<1> QED BY <1>3, <1>4

(* What a find adds to the records: one, and a true one.                   *)
LEMMA FoundRecord ==
    ASSUME IInv, RecordOutput
    PROVE  \E r \in OutputInfo :
              /\ identified_outputs' = Append(identified_outputs, r)
              /\ r.idx_in_tx = i
              /\ TrueRecord(r)
              /\ IsRct(tx) => r.derivation = tx.vout[i].via
<1>0. Scanning /\ tx.vout[i].is_key
  BY DEF RecordOutput
<1>1. PICK e \in Matches :
        identified_outputs' = Append(identified_outputs, Info(tx, i, e, Used))
  BY DEF RecordOutput
<1> DEFINE r == Info(tx, i, e, Used)
<1>2. IsSearcher(searcher) /\ GoodAccount(account)
  BY ScanAssumption DEF IInv, TypeOK, AccountInv, IsSearcher
<1>3. /\ e.key \in Key /\ e.idx \in Index
      /\ tx.vout[i].spend_key = e.key
      /\ tx.vout[i].via = Used
      /\ IF searcher.pacc THEN e.key = SpendKey[e.idx]
                          ELSE e.key = searcher.address /\ e.idx = NoIndex
  BY <1>2, MatchIsTrue DEF Matches, Used
<1>4. Used \in Derivations
  BY DEF Used, UsedDerivation, Derivations
<1>5. r \in OutputInfo
  BY <1>0, <1>3, <1>4, AtOutput, LengthOfTx, InfoType
     DEF IInv, OutputInfo, InfosOf
<1>6. r.idx_in_tx = i /\ (IsRct(tx) => r.derivation = tx.vout[i].via)
  BY <1>3 DEF Info, DerivationToSave
<1>7. TrueRecord(r)
  BY <1>0, <1>3 DEF TrueRecord, Info, Amount, IsRct
<1> QED BY <1>1, <1>5, <1>6, <1>7

LEMMA RecordOutputStep == IInv /\ RecordOutput => IInv'
<1> SUFFICES ASSUME IInv, RecordOutput PROVE IInv'
  OBVIOUS
<1>0. /\ Scanning /\ i' = i + 1 /\ status' = "scanning"
      /\ searcher' = searcher /\ tx' = tx /\ known' = known
  BY AtOutput DEF RecordOutput
<1>1. PICK r \in OutputInfo :
        /\ identified_outputs' = Append(identified_outputs, r)
        /\ r.idx_in_tx = i
        /\ TrueRecord(r)
        /\ IsRct(tx) => r.derivation = tx.vout[i].via
  BY FoundRecord
<1>2. identified_outputs \in Seq(OutputInfo) /\ OutputInfo' = OutputInfo
  BY <1>0 DEF IInv, TypeOK, OutputInfo
<1>3. /\ identified_outputs' \in Seq(OutputInfo')
      /\ \A n \in DOMAIN identified_outputs' :
            \/ /\ n \in DOMAIN identified_outputs
               /\ identified_outputs'[n] = identified_outputs[n]
            \/ identified_outputs'[n] = r
      /\ \A n \in DOMAIN identified_outputs :
            /\ n \in DOMAIN identified_outputs'
            /\ identified_outputs'[n] = identified_outputs[n]
      /\ \E n \in DOMAIN identified_outputs' : identified_outputs'[n] = r
  BY <1>1, <1>2, AppendFacts
<1>4. AccountInv'
  BY FoundAccount
<1>5. TypeOK'
  <2>1. i' \in 0..(Len(tx'.vout) + 1)
    BY <1>0, LengthOfTx DEF IInv, Scanning
  <2>2. Amount(tx, i) \in Nat
    BY <1>0, AtOutput, LengthOfTx DEF IInv, Amount, TxOut
  <2>3. total_received' \in Nat /\ total_xmr' \in Nat
    BY <2>2 DEF IInv, TypeOK, RecordOutput
  <2> QED BY <1>0, <1>3, <1>4, <2>1, <2>3
          DEF IInv, TypeOK, AccountInv, GoodAccount
<1>6. LoopInv'
  BY <1>0, AtOutput DEF LoopInv
<1>7. RecordsAreTrue'
  <2>1. SUFFICES ASSUME NEW n \in DOMAIN identified_outputs'
                 PROVE  TrueRecord(identified_outputs'[n])
    BY <1>0 DEF RecordsAreTrue, TrueRecord
  <2> QED BY <1>1, <1>3 DEF IInv, RecordInv, RecordsAreTrue
<1>8. RctDerivationMatches'
  BY <1>0, <1>1, <1>3 DEF IInv, RecordInv, RctDerivationMatches
<1>9. NothingMissed'
  <2>1. SUFFICES ASSUME NEW n \in DOMAIN tx.vout, n < i + 1, Findable(n),
                        KnownTo(known, tx.vout[n].spend_key)
                 PROVE  Recorded(n)'
    BY <1>0 DEF NothingMissed, KnownTo, Findable
  <2>2. n \in Nat /\ i \in Nat
    BY LengthOfTx DEF IInv, Transaction
  <2>3. CASE n = i
    BY <1>1, <1>3, <2>3 DEF Recorded
  <2>4. CASE n < i
    <3>1. Recorded(n)
      BY <1>0, <2>1, <2>4, AtOutput DEF IInv, NothingMissed
    <3> QED BY <1>3, <3>1 DEF Recorded
  <2> QED BY <2>1, <2>2, <2>3, <2>4
<1> QED BY <1>4, <1>5, <1>6, <1>7, <1>8, <1>9 DEF IInv, RecordInv

LEMMA NextIInv == IInv /\ [Next]_vars => IInv'
  BY PopulateStep, BeginStep, IdentifyAgainStep, SkipOutputStep,
     RecordOutputStep, StopStep, StutterStep DEF Next

-----------------------------------------------------------------------------
(* The invariant holds for ever.                                           *)
THEOREM Invariant == Spec => []IInv
  BY InitIInv, NextIInv, PTL DEF Spec

(* The records and the account stay typed.                                 *)
THEOREM TypeCorrect == Spec => []TypeOK
<1>1. IInv => TypeOK
  BY DEF IInv
<1> QED BY <1>1, Invariant, PTL

(* Whatever is recorded was sent to the searcher, as recorded.             *)
THEOREM RecordsAlwaysTrue == Spec => []RecordsAreTrue
<1>1. IInv => RecordsAreTrue
  BY DEF IInv, RecordInv
<1> QED BY <1>1, Invariant, PTL

(* The derivation saved for a ringct output is the one it was sent with.   *)
THEOREM RctDerivationAlwaysMatches == Spec => []RctDerivationMatches
<1>1. IInv => RctDerivationMatches
  BY DEF IInv, RecordInv
<1> QED BY <1>1, Invariant, PTL

(* A pass that ends has recorded all outputs to addresses that were known  *)
(* when it began.                                                          *)
THEOREM KnownIsNeverMissed == Spec => []KnownNeverMissed
<1>1. IInv => KnownNeverMissed
  <2>1. SUFFICES ASSUME IInv, status = "done", NEW n \in DOMAIN tx.vout,
                        Findable(n), KnownTo(known, tx.vout[n].spend_key)
                 PROVE  Recorded(n)
    BY DEF KnownNeverMissed
  <2>2. Len(tx.vout) \in Nat /\ i \in Nat /\ i > Len(tx.vout)
    BY <2>1, LengthOfTx DEF IInv, LoopInv
  <2>3. n \in Nat /\ n <= Len(tx.vout)
    BY <2>1, LengthOfTx DEF IInv, Transaction
  <2> QED BY <2>1, <2>2, <2>3 DEF IInv, NothingMissed
<1> QED BY <1>1, Invariant, PTL

-----------------------------------------------------------------------------
(* As long as the watermark was never set back, no find lies above it, and *)
(* what the gap limit owes is what the account promises.                   *)
Below(a) == \A e \in a.subaddresses : e.idx[1] <= a.next_acc_id_to_populate

OwedInv == ~rewound => owed = promised /\ Below(account)

LEMMA EntriesBelow ==
    ASSUME NEW start \in UInt32, NEW last \in UInt32,
           NEW e \in EntriesFrom(start, last)
    PROVE  e.idx[1] <= last
<1>1. CASE e \in EntriesOfAccountZero
  <2>1. PICK minor \in 1..(LOOKAHEAD_MINOR - 1) :
            e = Entry(SpendKey[<<0, minor>>], <<0, minor>>)
    BY <1>1, AccountZeroEntries
  <2>2. e.idx[1] = 0
    BY <2>1 DEF Entry
  <2> QED BY <2>2, WordAssumption DEF UInt32
<1>2. ASSUME NEW acc_id \in UInt32, e \in EntriesOfAccount(acc_id)
      PROVE  e.idx[1] = acc_id
  <2>1. PICK minor \in 0..(LOOKAHEAD_MINOR - 1) :
            e = Entry(SpendKey[<<acc_id, minor>>], <<acc_id, minor>>)
    BY <1>2, AccountEntries
  <2> QED BY <2>1 DEF Entry
<1>3. ASSUME NEW acc_id \in (start..(last - 1)) \ {0}
      PROVE  acc_id \in UInt32 /\ acc_id <= last
  BY WordAssumption DEF UInt32
<1> QED BY <1>1, <1>2, <1>3 DEF EntriesFrom

(* A populate keeps that if it does not set the watermark back.            *)
LEMMA PopulateBelow ==
    ASSUME NEW a, GoodAccount(a), Below(a),
           NEW start \in UInt32, NEW last \in UInt32,
           a.next_acc_id_to_populate <= last
    PROVE  Below(PopulateSubaddressIndices(a, start, last))
<1> DEFINE b == PopulateSubaddressIndices(a, start, last)
<1>1. SUFFICES ASSUME NEW e \in b.subaddresses PROVE e.idx[1] <= last
  BY DEF Below, PopulateSubaddressIndices
<1>2. CASE e \in a.subaddresses
  <2>1. e.idx[1] \in UInt32 /\ a.next_acc_id_to_populate \in UInt32
    BY <1>2, GoodIsSound DEF Sound, Index
  <2> QED BY <1>2, <2>1, WordAssumption DEF Below, UInt32
<1>3. CASE e \in EntriesFrom(start, last)
  BY <1>3, EntriesBelow
<1> QED BY <1>1, <1>2, <1>3 DEF PopulateSubaddressIndices, Insert

LEMMA AfterFoundBelow ==
    ASSUME NEW a, GoodAccount(a), Below(a), NEW major \in UInt32
    PROVE  Below(AfterFound(a, major))
<1>1. a.next_acc_id_to_populate \in UInt32
  BY GoodIsSound
<1>2. ASSUME NEW n \in UInt32
      PROVE  Below(ExpandSubaddresses(a, n))
  BY <1>1, PopulateBelow, WordAssumption DEF ExpandSubaddresses, UInt32
<1>3. NoOfNewAccounts(a, major) \in Int
  BY <1>1, NoOfNewAccountsType DEF GoodAccount
<1> QED BY <1>1, <1>2, <1>3, ToUInt32Type DEF AfterFound, UInt32

LEMMA InitOwed == Init => OwedInv
  BY DEF Init, OwedInv, Below, NewAccount, Entry

LEMMA NextOwed == IInv /\ OwedInv /\ [Next]_vars => OwedInv'
<1> SUFFICES ASSUME IInv, OwedInv, [Next]_vars, ~rewound'
             PROVE  owed' = promised' /\ Below(account')
  BY DEF OwedInv, Below
<1>0. GoodAccount(account)
  BY DEF IInv, AccountInv
<1>1. CASE Populate
  <2>1. /\ ~rewound /\ ~(account.next_acc_id_to_populate > LOOKAHEAD_MAJOR)
        /\ account' = PopulateSubaddressIndices(account, 0, LOOKAHEAD_MAJOR)
    BY <1>1 DEF Populate
  <2>2. 0 \in UInt32 /\ LOOKAHEAD_MAJOR \in UInt32
    BY LookaheadAssumption, WordAssumption DEF UInt32
  <2>3. account.next_acc_id_to_populate <= LOOKAHEAD_MAJOR
    BY <1>0, <2>1, <2>2, GoodIsSound, WordAssumption DEF UInt32
  <2>4. Below(account')
    BY <1>0, <2>1, <2>2, <2>3, PopulateBelow DEF OwedInv
  <2> QED BY <1>1, <2>1, <2>4 DEF Populate, OwedInv
<1>2. CASE RecordOutput
  <2>1. PICK e \in Matches :
          /\ account' = AccountAfter(searcher, account, e)
          /\ promised' = IF searcher.pacc
                         THEN PromisedAfter(promised, account, e.idx[1])
                         ELSE promised
          /\ owed' = IF searcher.pacc THEN OwedAfter(owed, e.idx[1]) ELSE owed
    BY <1>2 DEF RecordOutput
  <2>2. ~rewound
    BY <1>2 DEF RecordOutput
  <2>3. CASE ~searcher.pacc
    BY <2>1, <2>2, <2>3 DEF AccountAfter, OwedInv
  <2>4. CASE searcher.pacc
    <3>1. e \in account.subaddresses /\ e.idx \in Index
      BY <2>4, ScanAssumption, MatchIsTrue
         DEF Matches, IInv, AccountInv, TypeOK, IsSearcher
    <3>2. e.idx[1] \in UInt32 /\ e.idx[1] <= account.next_acc_id_to_populate
      BY <2>2, <3>1 DEF OwedInv, Below, Index
    <3>3. owed' = promised'
      BY <2>1, <2>2, <2>4, <3>2 DEF PromisedAfter, OwedInv
    <3>4. Below(account')
      BY <1>0, <2>1, <2>2, <2>4, <3>2, AfterFoundBelow
         DEF AccountAfter, OwedInv
    <3> QED BY <3>3, <3>4
  <2> QED BY <2>3, <2>4
<1>3. CASE Begin \/ IdentifyAgain \/ SkipOutput \/ CannotDecode \/ Crash
           \/ Finish \/ UNCHANGED vars
  <2>1. UNCHANGED <<account, promised, owed, rewound>>
    BY <1>3 DEF Begin, IdentifyAgain, SkipOutput, CannotDecode, Crash, Finish,
                vars, history
  <2> QED BY <2>1 DEF OwedInv
<1> QED BY <1>1, <1>2, <1>3 DEF Next

(* An address a wallet within the gap limit hands out is known.            *)
LEMMA GapLimitIsKnown ==
    ASSUME AccountInv, OwedInv, searcher.pacc,
           NEW idx \in Index, WithinGapLimit(idx)
    PROVE  KnownTo(account, SpendKey[idx])
<1>1. RegisteredAddress(account, idx)
  <2>1. CASE idx = <<0, 0>>
    BY <2>1 DEF AccountInv, GoodAccount
  <2>2. CASE idx[2] < LOOKAHEAD_MINOR /\ idx[1] < promised
    <3>1. /\ idx[1] \in 0..(promised - 1)
          /\ idx[2] \in 0..(LOOKAHEAD_MINOR - 1)
          /\ idx = <<idx[1], idx[2]>>
      BY <2>2, LookaheadAssumption, WordAssumption
         DEF AccountInv, Index, UInt32
    <3> QED BY <3>1 DEF AccountInv, CoveredUpTo, Registered
  <2> QED BY <2>1, <2>2 DEF WithinGapLimit, OwedInv
<1> QED BY <1>1 DEF KnownTo, Ours, Lookup, RegisteredAddress, Entry

(* Every receipt within the gap limit of all finds is found when the scan  *)
(* passes it, over any sequence of scans, failures and repeats, until a    *)
(* populate sets the watermark back; from then on, every receipt within    *)
(* that of the finds before it, and of later ones that do not lie above    *)
(* the watermark.                                                          *)
THEOREM GapLimitReceiptsAlwaysFound == Spec => GapLimitReceiptsFound
<1> DEFINE Receipt(idx) ==
        /\ searcher.pacc /\ Scanning /\ i' = i + 1
        /\ Findable(i) /\ tx.vout[i].spend_key = SpendKey[idx]
        /\ WithinGapLimit(idx)
    OneMore == Len(identified_outputs') = Len(identified_outputs) + 1
<1>1. IInv /\ OwedInv /\ [Next]_vars =>
          [\A idx \in Index : Receipt(idx) => OneMore]_vars
  <2>1. SUFFICES ASSUME IInv, OwedInv, Next, NEW idx \in Index, Receipt(idx)
                 PROVE  OneMore
    OBVIOUS
  <2>2. Matches # {}
    BY <2>1, GapLimitIsKnown, KnownMatches DEF IInv
  <2>3. RecordOutput
    <3>1. ~SkipOutput
      BY <2>1, <2>2 DEF SkipOutput, Findable
    <3>2. ~Populate /\ ~Begin /\ ~IdentifyAgain
      BY <2>1, AtOutput DEF Populate, Begin, IdentifyAgain, Stopped
    <3>3. ~CannotDecode /\ ~Crash /\ ~Finish
      BY <2>1, AtOutput DEF CannotDecode, Crash, Finish
    <3> QED BY <2>1, <3>1, <3>2, <3>3 DEF Next
  <2>4. PICK r \in OutputInfo :
            identified_outputs' = Append(identified_outputs, r)
    BY <2>1, <2>3, FoundRecord
  <2>5. identified_outputs \in Seq(OutputInfo)
    BY <2>1 DEF IInv, TypeOK
  <2> QED BY <2>4, <2>5, AppendFacts
<1> QED BY <1>1, InitOwed, NextOwed, Invariant, PTL
        DEF Spec, GapLimitReceiptsFound

-----------------------------------------------------------------------------
(* The scanner is an owner of its account: its initial states and its      *)
(* steps are those of PrimaryAccount, or leave the account alone.          *)

(* The instance's operators on accounts are those of the scanner.          *)
LEMMA SameBook ==
    /\ NewAccount = Owner!NewAccount
    /\ \A a, start, last : PopulateSubaddressIndices(a, start, last)
                              = Owner!PopulateSubaddressIndices(a, start, last)
    /\ \A a, major : AfterFound(a, major) = Owner!AfterFound(a, major)
    /\ \A p, a, major :
          PromisedAfter(p, a, major) = Owner!PromisedAfter(p, a, major)
<1>1. NewAccount = Owner!NewAccount
  BY DEF NewAccount, Owner!NewAccount, Entry, Owner!Entry
<1>2. \A start, last :
          EntriesFrom(start, last) = Owner!EntriesFrom(start, last)
  <2>1. EntriesOfAccountZero = Owner!EntriesOfAccountZero
    BY DEF EntriesOfAccountZero, Owner!EntriesOfAccountZero, SpendPublicKeys,
           Owner!SpendPublicKeys, Entry, Owner!Entry
  <2>2. \A acc_id : EntriesOfAccount(acc_id) = Owner!EntriesOfAccount(acc_id)
    BY DEF EntriesOfAccount, Owner!EntriesOfAccount, SpendPublicKeys,
           Owner!SpendPublicKeys, Entry, Owner!Entry
  <2> QED BY <2>1, <2>2 DEF EntriesFrom, Owner!EntriesFrom
<1>3. \A a, start, last : PopulateSubaddressIndices(a, start, last)
                            = Owner!PopulateSubaddressIndices(a, start, last)
  BY <1>2 DEF PopulateSubaddressIndices, Owner!PopulateSubaddressIndices,
              Insert, Owner!Insert
<1>4. \A a, major : NoOfNewAccounts(a, major) = Owner!NoOfNewAccounts(a, major)
  BY DEF NoOfNewAccounts, Owner!NoOfNewAccounts, ToInt32, Owner!ToInt32,
         ToUInt32, Owner!ToUInt32
<1>5. \A a, major : AfterFound(a, major) = Owner!AfterFound(a, major)
  BY <1>3, <1>4 DEF AfterFound, Owner!AfterFound, ExpandSubaddresses,
                    Owner!ExpandSubaddresses, ToUInt32, Owner!ToUInt32
<1>6. \A p, a, major :
        PromisedAfter(p, a, major) = Owner!PromisedAfter(p, a, major)
  BY DEF PromisedAfter, Owner!PromisedAfter, OwedAfter, Owner!OwedAfter
<1> QED BY <1>1, <1>3, <1>5, <1>6

(* Whatever the scanner does, its account lives as PrimaryAccount says: a  *)
(* find is a find, a populate is a populate, and every other step leaves   *)
(* the account alone (UniversalIdentifier.cpp:277-303).                    *)
THEOREM ImplementsOwner == Spec => OwnerSpec
<1>1. Init => Owner!Init
  BY SameBook DEF Init, Owner!Init
<1>2. IInv /\ [Next]_vars => [Owner!Next]_(Owner!vars)
  <2>1. SUFFICES ASSUME IInv, [Next]_vars
                 PROVE  Owner!Next \/ UNCHANGED <<account, promised>>
    BY DEF Owner!vars
  <2>2. CASE Populate
    <3>1. Owner!Populate
      BY <2>2, SameBook DEF Populate, Owner!Populate
    <3> QED BY <3>1 DEF Owner!Next
  <2>3. CASE RecordOutput
    <3>1. PICK e \in Matches :
            /\ account' = AccountAfter(searcher, account, e)
            /\ promised' = IF searcher.pacc
                           THEN PromisedAfter(promised, account, e.idx[1])
                           ELSE promised
      BY <2>3 DEF RecordOutput
    <3>2. CASE ~searcher.pacc
      BY <3>1, <3>2 DEF AccountAfter
    <3>3. CASE searcher.pacc
      <4>1. e \in account.subaddresses
        BY <2>1, <3>3, ScanAssumption, MatchIsTrue
           DEF Matches, IInv, AccountInv, TypeOK, IsSearcher
      <4>2. /\ account' = Owner!AfterFound(account, e.idx[1])
            /\ promised' = Owner!PromisedAfter(promised, account, e.idx[1])
        BY <3>1, <3>3, SameBook DEF AccountAfter
      <4> QED BY <4>1, <4>2 DEF Owner!Next, Owner!FoundOutput
    <3> QED BY <3>2, <3>3
  <2>4. CASE Begin \/ IdentifyAgain \/ SkipOutput \/ CannotDecode \/ Crash
             \/ Finish \/ UNCHANGED vars
    BY <2>4 DEF Begin, IdentifyAgain, SkipOutput, CannotDecode, Crash, Finish,
                vars, history
  <2> QED BY <2>1, <2>2, <2>3, <2>4 DEF Next
<1> QED BY <1>1, <1>2, Invariant, PTL DEF Spec, OwnerSpec, Owner!Spec

-----------------------------------------------------------------------------
(* No key is filed under an index that means "not given".                  *)
Given(book) ==
    \A e \in book : e.idx[1] < UINT32_MAX /\ e.idx[2] < UINT32_MAX

(* What a populate registers ends before its last account and before the   *)
(* lookahead of addresses.                                                 *)
LEMMA EntriesGiven ==
    ASSUME NEW start \in UInt32, NEW last \in UInt32
    PROVE  Given(EntriesFrom(start, last))
<1>1. LOOKAHEAD_MINOR \in Nat /\ LOOKAHEAD_MINOR <= UINT32_MAX
      /\ 0 < UINT32_MAX /\ UINT32_MAX \in Nat
  BY LookaheadAssumption, WordAssumption
<1>2. ASSUME NEW acc_id \in UInt32, acc_id < UINT32_MAX,
             NEW e \in EntriesOfAccount(acc_id)
      PROVE  e.idx[1] < UINT32_MAX /\ e.idx[2] < UINT32_MAX
  <2>1. PICK minor \in 0..(LOOKAHEAD_MINOR - 1) :
            e = Entry(SpendKey[<<acc_id, minor>>], <<acc_id, minor>>)
    BY <1>2, AccountEntries
  <2>2. e.idx = <<acc_id, minor>>
    BY <2>1 DEF Entry
  <2> QED BY <1>1, <1>2, <2>2
<1>3. ASSUME NEW e \in EntriesOfAccountZero
      PROVE  e.idx[1] < UINT32_MAX /\ e.idx[2] < UINT32_MAX
  <2>1. PICK minor \in 1..(LOOKAHEAD_MINOR - 1) :
            e = Entry(SpendKey[<<0, minor>>], <<0, minor>>)
    BY <1>3, AccountZeroEntries
  <2>2. e.idx = <<0, minor>>
    BY <2>1 DEF Entry
  <2> QED BY <1>1, <2>2
<1>4. ASSUME NEW acc_id \in (start..(last - 1)) \ {0}
      PROVE  acc_id \in UInt32 /\ acc_id < UINT32_MAX
  BY <1>1 DEF UInt32
<1> QED BY <1>2, <1>3, <1>4 DEF Given, EntriesFrom

LEMMA PopulateGiven ==
    ASSUME NEW a, Given(a.subaddresses),
           NEW start \in UInt32, NEW last \in UInt32
    PROVE  Given(PopulateSubaddressIndices(a, start, last).subaddresses)
<1>1. Given(EntriesFrom(start, last))
  BY EntriesGiven
<1> QED BY <1>1 DEF Given, PopulateSubaddressIndices, Insert

LEMMA AfterFoundGiven ==
    ASSUME NEW a, Given(a.subaddresses), GoodAccount(a), NEW major \in UInt32
    PROVE  Given(AfterFound(a, major).subaddresses)
<1>1. a.next_acc_id_to_populate \in UInt32
  BY GoodIsSound
<1>2. ASSUME NEW n \in UInt32
      PROVE  Given(ExpandSubaddresses(a, n).subaddresses)
  BY <1>1, PopulateGiven DEF ExpandSubaddresses
<1>3. NoOfNewAccounts(a, major) \in Int
  BY <1>1, NoOfNewAccountsType DEF GoodAccount
<1> QED BY <1>1, <1>2, <1>3, ToUInt32Type DEF AfterFound, UInt32

GivenInv == Given(account.subaddresses) /\ IndexGiven

LEMMA InitGiven == Init => GivenInv
<1> SUFFICES ASSUME Init PROVE GivenInv
  OBVIOUS
<1>1. account = NewAccount /\ identified_outputs = <<>>
  BY DEF Init
<1>2. \A e \in account.subaddresses : e.idx = <<0, 0>>
  BY <1>1 DEF NewAccount, Entry
<1>3. 0 < UINT32_MAX
  BY WordAssumption
<1> QED BY <1>1, <1>2, <1>3 DEF GivenInv, Given, IndexGiven


(* A find has an index if an account made it, and leaves no sentinel.      *)
LEMMA RecordOutputGiven ==
    ASSUME IInv, GivenInv, RecordOutput
    PROVE  GivenInv'
<1>1. PICK e \in Matches :
        /\ identified_outputs' =
               Append(identified_outputs, Info(tx, i, e, Used))
        /\ account' = AccountAfter(searcher, account, e)
  BY DEF RecordOutput
<1>2. IsSearcher(searcher) /\ GoodAccount(account) /\ searcher' = searcher
  BY ScanAssumption DEF IInv, TypeOK, AccountInv, IsSearcher, RecordOutput
<1>3. /\ e.idx \in Index
      /\ IF searcher.pacc THEN e \in account.subaddresses
                          ELSE e.idx = NoIndex
  BY <1>2, MatchIsTrue DEF Matches
<1> DEFINE r == Info(tx, i, e, Used)
<1>4. HasSubaddressIndex(r) <=> searcher.pacc
  <2>1. r.subaddr_idx = e.idx
    BY DEF Info
  <2>2. CASE searcher.pacc
    <3>1. e.idx[1] < UINT32_MAX /\ e.idx[2] < UINT32_MAX
      BY <1>3, <2>2 DEF GivenInv, Given
    <3>2. e.idx[1] \in Nat /\ e.idx[2] \in Nat
      BY <1>3 DEF Index, UInt32
    <3> QED BY <2>1, <2>2, <3>1, <3>2, WordAssumption
            DEF HasSubaddressIndex
  <2>3. CASE ~searcher.pacc
    BY <1>3, <2>1, <2>3 DEF HasSubaddressIndex, NoIndex
  <2> QED BY <2>2, <2>3
<1>5. IndexGiven'
  <2>1. r \in OutputInfo /\ identified_outputs \in Seq(OutputInfo)
    <3>1. PICK x \in OutputInfo :
            identified_outputs' = Append(identified_outputs, x)
      BY FoundRecord
    <3>2. identified_outputs \in Seq(OutputInfo)
      BY DEF IInv, TypeOK
    <3>3. x = r
      <4>1. Len(identified_outputs) + 1 \in DOMAIN identified_outputs'
            /\ identified_outputs'[Len(identified_outputs) + 1] = x
        BY <3>1, <3>2, AppendFacts
      <4>2. identified_outputs'[Len(identified_outputs) + 1] = r
        BY <1>1, <3>2
      <4> QED BY <4>1, <4>2
    <3> QED BY <3>2, <3>3
  <2>2. \A n \in DOMAIN identified_outputs' :
            \/ /\ n \in DOMAIN identified_outputs
               /\ identified_outputs'[n] = identified_outputs[n]
            \/ identified_outputs'[n] = r
    BY <1>1, <2>1, AppendFacts
  <2> QED BY <1>2, <1>4, <2>2 DEF GivenInv, IndexGiven, HasSubaddressIndex
<1>6. Given(account'.subaddresses)
  <2>1. CASE searcher.pacc
    <3>1. e.idx[1] \in UInt32
      BY <1>3 DEF Index
    <3> QED BY <1>1, <1>2, <2>1, <3>1, AfterFoundGiven
            DEF AccountAfter, GivenInv
  <2>2. CASE ~searcher.pacc
    BY <1>1, <2>2 DEF AccountAfter, GivenInv
  <2> QED BY <2>1, <2>2
<1> QED BY <1>5, <1>6 DEF GivenInv, Given

LEMMA NextGiven == IInv /\ GivenInv /\ [Next]_vars => GivenInv'
<1> SUFFICES ASSUME IInv, GivenInv, [Next]_vars PROVE GivenInv'
  OBVIOUS
<1>1. CASE Populate
  <2>1. 0 \in UInt32 /\ LOOKAHEAD_MAJOR \in UInt32
    BY LookaheadAssumption, WordAssumption DEF UInt32
  <2>2. Given(account'.subaddresses)
    BY <1>1, <2>1, PopulateGiven DEF Populate, GivenInv
  <2>3. IndexGiven'
    BY <1>1 DEF Populate, identifier, GivenInv, IndexGiven, HasSubaddressIndex
  <2> QED BY <2>2, <2>3 DEF GivenInv, Given
<1>2. CASE Begin
  <2>1. identified_outputs' = <<>> /\ account' = account
    BY <1>2 DEF Begin
  <2> QED BY <2>1 DEF GivenInv, Given, IndexGiven
<1>3. CASE RecordOutput
  BY <1>3, RecordOutputGiven
<1>4. CASE IdentifyAgain \/ SkipOutput \/ CannotDecode \/ Crash \/ Finish
           \/ UNCHANGED vars
  <2>1. UNCHANGED <<searcher, account, identified_outputs>>
    BY <1>4 DEF IdentifyAgain, SkipOutput, CannotDecode, Crash, Finish, vars,
                identifier
  <2> QED BY <2>1 DEF GivenInv, Given, IndexGiven, HasSubaddressIndex
<1> QED BY <1>1, <1>2, <1>3, <1>4 DEF Next

(* A record has a subaddress index exactly if an account searched.         *)
THEOREM IndexAlwaysGiven == Spec => []IndexGiven
<1>1. GivenInv => IndexGiven
  BY DEF GivenInv
<1> QED BY <1>1, InitGiven, NextGiven, Invariant, PTL DEF Spec

-----------------------------------------------------------------------------
(* The records of one output.                                              *)
RecordsOf(records, n) == {m \in DOMAIN records : records[m].idx_in_tx = n}

(* Outputs the loop has yet to reach have no record of the current pass.   *)
OnceInv ==
    /\ passes \in Nat
    /\ \A n \in Nat : Cardinality(RecordsOf(identified_outputs, n)) <= passes
    /\ status = "scanning" =>
          \A n \in Nat : n >= i =>
             Cardinality(RecordsOf(identified_outputs, n)) <= passes - 1

LEMMA RecordsFinite ==
    ASSUME NEW S, NEW records \in Seq(S), NEW n
    PROVE  /\ IsFiniteSet(RecordsOf(records, n))
           /\ Cardinality(RecordsOf(records, n)) \in Nat
<1>1. IsFiniteSet(DOMAIN records)
  BY FS_Interval
<1>2. RecordsOf(records, n) \subseteq DOMAIN records
  BY DEF RecordsOf
<1> QED BY <1>1, <1>2, FS_Subset, FS_CardinalityType

(* A new record counts for its own output only.                            *)
LEMMA RecordsAppended ==
    ASSUME NEW S, NEW records \in Seq(S), NEW r \in S, NEW n
    PROVE  LET new == Append(records, r)
           IN  Cardinality(RecordsOf(new, n))
                 = Cardinality(RecordsOf(records, n))
                     + (IF r.idx_in_tx = n THEN 1 ELSE 0)
<1> DEFINE new == Append(records, r)
           m == Len(records) + 1
<1>1. /\ m \notin DOMAIN records
      /\ DOMAIN new = DOMAIN records \cup {m}
      /\ \A x \in DOMAIN records : new[x] = records[x]
      /\ new[m] = r
  OBVIOUS
<1> HIDE DEF new, m
<1>2. RecordsOf(new, n) = RecordsOf(records, n)
                            \cup (IF r.idx_in_tx = n THEN {m} ELSE {})
  BY <1>1 DEF RecordsOf
<1>3. m \notin RecordsOf(records, n)
  BY <1>1 DEF RecordsOf
<1>4. /\ IsFiniteSet(RecordsOf(records, n))
      /\ Cardinality(RecordsOf(records, n)) \in Nat
  BY RecordsFinite
<1>5. CASE r.idx_in_tx = n
  <2>1. RecordsOf(new, n) = RecordsOf(records, n) \cup {m}
    BY <1>2, <1>5
  <2>2. Cardinality(RecordsOf(records, n) \cup {m})
          = Cardinality(RecordsOf(records, n)) + 1
    BY <1>3, <1>4, FS_AddElement
  <2> QED BY <1>5, <2>1, <2>2 DEF new
<1>6. CASE r.idx_in_tx # n
  <2>1. RecordsOf(new, n) = RecordsOf(records, n)
    BY <1>2, <1>6
  <2> QED BY <1>4, <1>6, <2>1 DEF new
<1> QED BY <1>5, <1>6

LEMMA NoRecords == \A n : RecordsOf(<<>>, n) = {}
  BY DEF RecordsOf

LEMMA NextOnce == IInv /\ OnceInv /\ [Next]_vars => OnceInv'
<1> SUFFICES ASSUME IInv, OnceInv, [Next]_vars PROVE OnceInv'
  OBVIOUS
<1> DEFINE Count(n) == Cardinality(RecordsOf(identified_outputs, n))
<1>0. /\ i \in Nat /\ passes \in Nat
      /\ \A n \in Nat : Count(n) \in Nat /\ Count(n) <= passes
  BY LengthOfTx, RecordsFinite DEF IInv, TypeOK, OnceInv
<1>1. CASE Begin
  <2>1. /\ identified_outputs' = <<>> /\ passes' = 1
    BY <1>1 DEF Begin
  <2>2. \A n \in Nat : Count(n)' = 0
    BY <2>1, NoRecords, FS_EmptySet
  <2> QED BY <2>1, <2>2 DEF OnceInv
<1>2. CASE IdentifyAgain
  <2>1. identified_outputs' = identified_outputs /\ passes' = passes + 1
    BY <1>2 DEF IdentifyAgain
  <2>2. \A n \in Nat : Count(n)' = Count(n)
    BY <2>1
  <2> HIDE DEF Count
  <2>3. passes' \in Nat /\ \A n \in Nat : Count(n)' <= passes' - 1
                                      /\ Count(n)' <= passes'
    BY <1>0, <2>1, <2>2
  <2> QED BY <2>3 DEF OnceInv, Count
<1>3. CASE SkipOutput
  <2>1. /\ status = "scanning" /\ i' = i + 1
        /\ UNCHANGED <<identified_outputs, passes>>
    BY <1>3 DEF SkipOutput, Scanning, history
  <2>2. \A n \in Nat : n >= i' => n >= i
    BY <1>0, <2>1
  <2> QED BY <2>1, <2>2 DEF OnceInv
<1>4. CASE RecordOutput
  <2>1. /\ status = "scanning" /\ i' = i + 1 /\ passes' = passes
    BY <1>4 DEF RecordOutput, Scanning
  <2>2. PICK r \in OutputInfo :
          /\ identified_outputs' = Append(identified_outputs, r)
          /\ r.idx_in_tx = i
    BY <1>4, FoundRecord
  <2>3. \A n \in Nat : Count(n)' = Count(n) + (IF n = i THEN 1 ELSE 0)
    BY <2>2, RecordsAppended DEF IInv, TypeOK
  <2>4. \A n \in Nat : n >= i => Count(n) <= passes - 1
    BY <2>1 DEF OnceInv
  <2> HIDE DEF Count
  <2>5. \A n \in Nat : Count(n)' <= passes
    BY <1>0, <2>3, <2>4
  <2>6. \A n \in Nat : n >= i + 1 => Count(n)' <= passes - 1
    BY <1>0, <2>3, <2>4
  <2> QED BY <1>0, <2>1, <2>5, <2>6 DEF OnceInv, Count
<1>5. CASE Populate \/ CannotDecode \/ Crash \/ Finish
  <2>1. UNCHANGED <<identified_outputs, passes>> /\ status' # "scanning"
    BY <1>5 DEF Populate, CannotDecode, Crash, Finish, Stopped, identifier,
                history
  <2> QED BY <2>1 DEF OnceInv
<1>6. CASE UNCHANGED vars
  <2>1. UNCHANGED <<identified_outputs, passes, status, i>>
    BY <1>6 DEF vars, identifier, history
  <2> QED BY <2>1 DEF OnceInv
<1> QED BY <1>1, <1>2, <1>3, <1>4, <1>5, <1>6 DEF Next

(* No pass records an output twice, whichever of its derivations match.    *)
THEOREM RecordedOncePerPass == Spec => []OncePerPass
<1>1. Init => OnceInv
  <2>1. Init => identified_outputs = <<>> /\ passes = 0 /\ status = "idle"
    BY DEF Init
  <2> QED BY <2>1, NoRecords, FS_EmptySet DEF OnceInv
<1>2. IInv /\ OnceInv => OncePerPass
  <2> SUFFICES ASSUME IInv, OnceInv, NEW n \in DOMAIN tx.vout
               PROVE  Cardinality({m \in DOMAIN identified_outputs :
                          identified_outputs[m].idx_in_tx = n}) <= passes
    BY DEF OncePerPass
  <2>1. n \in Nat
    BY LengthOfTx DEF IInv, Transaction
  <2> QED BY <2>1 DEF OnceInv, RecordsOf
<1> QED BY <1>1, <1>2, NextOnce, Invariant, PTL DEF Spec

-----------------------------------------------------------------------------
(* Totals.                                                                 *)

LEMMA InitTotals == Init => TotalsMatchRecords
  BY SumOfNone DEF Init, TotalsMatchRecords

LEMMA NextTotals ==
    IInv /\ TotalsMatchRecords /\ [Next]_vars => TotalsMatchRecords'
<1> SUFFICES ASSUME IInv, TotalsMatchRecords, [Next]_vars
             PROVE  TotalsMatchRecords'
  OBVIOUS
<1>1. CASE Begin
  BY <1>1, SumOfNone DEF Begin, TotalsMatchRecords
<1>2. CASE RecordOutput
  <2>1. PICK e \in Matches :
            /\ identified_outputs'
                   = Append(identified_outputs, Info(tx, i, e, Used))
            /\ total_received' = total_received + Amount(tx, i)
            /\ total_xmr' = total_xmr + Amount(tx, i)
    BY <1>2 DEF RecordOutput
  <2> DEFINE info == Info(tx, i, e, Used)
  <2>2. IsSearcher(searcher) /\ GoodAccount(account)
    BY ScanAssumption DEF IInv, TypeOK, AccountInv, IsSearcher
  <2>3. Used \in Derivations /\ e.key \in Key /\ e.idx \in Index
    BY <2>2, MatchIsTrue DEF Used, UsedDerivation, Derivations, Matches
  <2>4. i \in DOMAIN tx.vout /\ tx \in Transaction
    BY <1>2, AtOutput, LengthOfTx DEF IInv, RecordOutput
  <2>5. info \in InfosOf(tx) /\ info.amount = Amount(tx, i)
    BY <2>3, <2>4, InfoType DEF Info
  <2> HIDE DEF info
  <2>6. /\ identified_outputs \in Seq(InfosOf(tx))
        /\ \A x \in InfosOf(tx) : x.amount \in Int
    BY DEF IInv, TypeOK, OutputInfo, InfosOf
  <2>7. SumAmounts(identified_outputs')
            = SumAmounts(identified_outputs) + Amount(tx, i)
    BY <2>1, <2>5, <2>6, SumOfOneMore DEF info
  <2> QED BY <2>1, <2>7 DEF TotalsMatchRecords
<1>3. CASE UNCHANGED <<identified_outputs, total_received, total_xmr>>
  BY <1>3 DEF TotalsMatchRecords
<1> QED
  BY <1>1, <1>2, <1>3
     DEF Next, Populate, IdentifyAgain, SkipOutput, CannotDecode, Crash,
         Finish, vars, identifier

(* Both totals are the sum of the records, in the middle of a pass, after  *)
(* an exception and after any number of passes, whatever the amounts       *)
(* (UniversalIdentifier.cpp:253-267, 305).                                 *)
THEOREM TotalsAlwaysMatch == Spec => []TotalsMatchRecords
<1>1. Init => IInv /\ TotalsMatchRecords
  BY InitIInv, InitTotals
<1>2. IInv /\ TotalsMatchRecords /\ [Next]_vars =>
          (IInv /\ TotalsMatchRecords)'
  BY NextIInv, NextTotals
<1> QED BY <1>1, <1>2, PTL DEF Spec

-----------------------------------------------------------------------------
(* A pass is the function IdentifyOutputs.                                 *)

LoopState(acc, found) ==
    [account |-> acc, outputs |-> found, threw |-> FALSE]

(* The loop has done i - 1 rounds of the function on the account it began  *)
(* with, and what they found is what it added to the records there were.   *)
FunctionInv ==
    /\ GoodAccount(known)
    /\ status = "scanning" =>
          /\ before \in Seq(OutputInfo)
          /\ \E found \in Seq(OutputInfo) :
                /\ identified_outputs = before \o found
                /\ Rounds(searcher, known, tx)[i - 1] = LoopState(account, found)

LEMMA InitFunction == Init => FunctionInv
  BY NewAccountGood DEF Init, FunctionInv

(* The record types of a transaction that does not change.                 *)
LEMMA OutputInfoKept ==
    ASSUME UNCHANGED tx
    PROVE  OutputInfo' = OutputInfo
  BY DEF OutputInfo

LEMMA ConcatAppend ==
    ASSUME NEW S, NEW s \in Seq(S), NEW t \in Seq(S), NEW r \in S
    PROVE  s \o Append(t, r) = Append(s \o t, r)
<1>1. <<r>> \in Seq(S) /\ s \o t \in Seq(S)
  OBVIOUS
<1>2. Append(t, r) = t \o <<r>> /\ Append(s \o t, r) = (s \o t) \o <<r>>
  BY <1>1, AppendIsConcat
<1>3. (s \o t) \o <<r>> = s \o (t \o <<r>>)
  BY <1>1, ConcatAssociative
<1> QED BY <1>2, <1>3

(* One more round, as the function does it.                                *)
LEMMA OneMoreRound ==
    ASSUME IInv, GoodAccount(known), Scanning,
           NEW x, Rounds(searcher, known, tx)[i - 1] = x
    PROVE  /\ IsSearcher(searcher) /\ GoodAccount(account)
           /\ tx \in Transaction /\ i \in 0..Len(tx.vout) /\ i \in Int
           /\ Rounds(searcher, known, tx)[i] = Round(searcher, x, tx, i)
<1>1. /\ IsSearcher(searcher) /\ GoodAccount(account) /\ tx \in Transaction
      /\ i \in Nat /\ i \in DOMAIN tx.vout /\ status = "scanning"
  BY ScanAssumption, AtOutput, LengthOfTx
     DEF IInv, TypeOK, AccountInv, IsSearcher
<1>2. i \in 1..Len(tx.vout) /\ i \in 0..Len(tx.vout)
  BY <1>1 DEF Transaction
<1>3. Rounds(searcher, known, tx)[i]
          = Round(searcher, Rounds(searcher, known, tx)[i - 1], tx, i)
  BY <1>1, <1>2, RoundsUnfold
<1> QED BY <1>1, <1>2, <1>3

(* A pass begins with no round done.                                       *)
LEMMA PassBegins ==
    ASSUME IInv, known' = account, before' = identified_outputs',
           account' = account, searcher' = searcher, i' = 1,
           tx' \in Transaction, identified_outputs' \in Seq(OutputInfo')
    PROVE  FunctionInv'
<1>1. GoodAccount(account) /\ IsSearcher(searcher)
  BY ScanAssumption DEF IInv, TypeOK, AccountInv, IsSearcher
<1>2. Rounds(searcher, account, tx')[0] = Start(account)
  BY <1>1, RoundsUnfold
<1>3. LoopState(account', <<>>) = Start(account)
  BY DEF LoopState, Start
<1>4. <<>> \in Seq(OutputInfo') /\ identified_outputs' = before' \o <<>>
  BY ConcatEmptySeq
<1>5. i' - 1 = 0
  OBVIOUS
<1> QED BY <1>1, <1>2, <1>3, <1>4, <1>5 DEF FunctionInv, LoopState

LEMMA SkipOutputFunction ==
    ASSUME IInv, FunctionInv, SkipOutput
    PROVE  FunctionInv'
<1>1. /\ UNCHANGED <<searcher, account, tx, status, identified_outputs,
                     known, before>>
      /\ Scanning /\ status = "scanning" /\ i' = i + 1
  BY DEF SkipOutput, history, Scanning
<1>2. PICK found \in Seq(OutputInfo) :
          /\ identified_outputs = before \o found
          /\ Rounds(searcher, known, tx)[i - 1] = LoopState(account, found)
  BY <1>1 DEF FunctionInv
<1> DEFINE x == LoopState(account, found)
<1>3. SkipsRound(searcher, x, tx, i)
  BY DEF SkipOutput, SkipsRound, Matches, LoopState
<1> HIDE DEF x
<1>4. /\ Rounds(searcher, known, tx)[i] = Round(searcher, x, tx, i)
      /\ i \in Int
  BY <1>1, <1>2, OneMoreRound DEF FunctionInv, x
<1>5. Round(searcher, x, tx, i) = x
  BY <1>3, RoundCases
<1>6. LoopState(account', found) = x /\ i' - 1 = i /\ OutputInfo' = OutputInfo
  BY <1>1, <1>4, OutputInfoKept DEF LoopState, x
<1> QED BY <1>1, <1>2, <1>4, <1>5, <1>6 DEF FunctionInv, LoopState

LEMMA RecordOutputFunction ==
    ASSUME IInv, FunctionInv, RecordOutput
    PROVE  FunctionInv'
<1>1. /\ UNCHANGED <<searcher, tx, status, known, before>>
      /\ Scanning /\ status = "scanning" /\ i' = i + 1
      /\ before \in Seq(OutputInfo) /\ GoodAccount(known)
  BY DEF RecordOutput, Scanning, FunctionInv
<1>2. PICK found \in Seq(OutputInfo) :
          /\ identified_outputs = before \o found
          /\ Rounds(searcher, known, tx)[i - 1] = LoopState(account, found)
  BY <1>1 DEF FunctionInv
<1>3. PICK e \in Matches :
          /\ identified_outputs'
                 = Append(identified_outputs, Info(tx, i, e, Used))
          /\ account' = AccountAfter(searcher, account, e)
  BY DEF RecordOutput
<1> DEFINE x == LoopState(account, found)
           info == Info(tx, i, e, Used)
<1>4. info \in OutputInfo
  <2>1. Used \in Derivations /\ e.key \in Key /\ e.idx \in Index
    BY <1>3, ScanAssumption, MatchIsTrue
       DEF Used, UsedDerivation, Derivations, Matches, IInv, TypeOK,
           AccountInv, IsSearcher
  <2>2. i \in DOMAIN tx.vout /\ tx \in Transaction
    BY <1>1, AtOutput, LengthOfTx DEF IInv
  <2> QED BY <2>1, <2>2, InfoType DEF InfosOf, OutputInfo
<1>5. PICK more \in Seq(OutputInfo) :
          more = Append(found, info) /\ identified_outputs' = before \o more
  <2>1. identified_outputs' = Append(before \o found, info)
    BY <1>2, <1>3
  <2> HIDE DEF info
  <2>2. Append(found, info) \in Seq(OutputInfo)
    BY <1>4, AppendProperties
  <2>3. before \o Append(found, info) = Append(before \o found, info)
    BY <1>1, <1>4, ConcatAppend
  <2> QED BY <2>1, <2>2, <2>3
<1>6. LoopState(account', more) = Found(searcher, x, tx, i, e)
  BY <1>3, <1>5 DEF LoopState, Found, Used
<1>7. ~SkipsRound(searcher, x, tx, i) /\ ~FailsRound(searcher, x, tx, i)
  BY <1>3 DEF RecordOutput, SkipsRound, FailsRound, Matches, Used, LoopState
<1>8. x.account = account
  BY DEF LoopState
<1> HIDE DEF x, info
<1>9. /\ IsSearcher(searcher) /\ GoodAccount(account) /\ tx \in Transaction
      /\ i \in Int
      /\ Rounds(searcher, known, tx)[i] = Round(searcher, x, tx, i)
  BY <1>1, <1>2, OneMoreRound DEF x
<1>10. Round(searcher, x, tx, i) = Found(searcher, x, tx, i, e)
  <2>1. PICK f \in Match(searcher, x.account, tx, i) :
            Round(searcher, x, tx, i) = Found(searcher, x, tx, i, f)
    BY <1>7, RoundCases
  <2>2. e = f
    BY <1>3, <1>8, <1>9, <2>1, MatchUnique DEF Matches
  <2> QED BY <2>1, <2>2
<1>11. i' - 1 = i /\ OutputInfo' = OutputInfo
  BY <1>1, <1>9, OutputInfoKept
<1> QED BY <1>1, <1>5, <1>6, <1>9, <1>10, <1>11 DEF FunctionInv

LEMMA NextFunction == IInv /\ FunctionInv /\ [Next]_vars => FunctionInv'
<1> SUFFICES ASSUME IInv, FunctionInv, [Next]_vars
             PROVE  FunctionInv'
  OBVIOUS
<1>0. tx \in Transaction
  BY LengthOfTx DEF IInv
<1>1. CASE Begin
  <2>1. /\ tx' \in Transaction /\ searcher' = searcher
        /\ i' = 1 /\ identified_outputs' = <<>> /\ before' = <<>>
        /\ known' = account /\ account' = account
    BY <1>1, ScanAssumption DEF Begin, IInv, TypeOK
  <2>2. identified_outputs' \in Seq(OutputInfo')
    BY <2>1
  <2> QED BY <2>1, <2>2, PassBegins
<1>2. CASE IdentifyAgain
  <2>1. /\ UNCHANGED <<tx, searcher, account, identified_outputs>>
        /\ i' = 1 /\ before' = identified_outputs /\ known' = account
    BY <1>2 DEF IdentifyAgain
  <2>2. identified_outputs' \in Seq(OutputInfo')
    BY <2>1, OutputInfoKept DEF IInv, TypeOK
  <2> QED BY <1>0, <2>1, <2>2, PassBegins
<1>3. CASE SkipOutput
  BY <1>3, SkipOutputFunction
<1>4. CASE RecordOutput
  BY <1>4, RecordOutputFunction
<1>5. CASE Populate \/ CannotDecode \/ Crash \/ Finish
  <2>1. known' = known /\ status' # "scanning"
    BY <1>5 DEF Populate, CannotDecode, Crash, Finish, Stopped, identifier,
                history
  <2> QED BY <2>1 DEF FunctionInv
<1>6. CASE UNCHANGED vars
  <2>1. UNCHANGED <<searcher, account, tx, i, status, identified_outputs,
                    known, before>>
    BY <1>6 DEF vars, identifier, history
  <2>2. OutputInfo' = OutputInfo
    BY <2>1, OutputInfoKept
  <2> QED BY <2>1, <2>2 DEF FunctionInv, LoopState
<1> QED BY <1>1, <1>2, <1>3, <1>4, <1>5, <1>6 DEF Next

(* A step that ends a pass leaves what the function gives.                 *)
LEMMA PassEnds ==
    ASSUME IInv, FunctionInv, [Next]_vars,
           status = "scanning", status' \in {"done", "failed"}
    PROVE  LET result == IdentifyOutputs(searcher, known, tx)
           IN  /\ account' = result.account
               /\ identified_outputs' = before \o result.outputs
               /\ status' = "failed" <=> result.threw
<1>1. PICK found \in Seq(OutputInfo) :
          /\ identified_outputs = before \o found
          /\ Rounds(searcher, known, tx)[i - 1] = LoopState(account, found)
  BY DEF FunctionInv
<1> DEFINE x == LoopState(account, found)
           result == IdentifyOutputs(searcher, known, tx)
<1>2. x.account = account /\ x.outputs = found /\ x.threw = FALSE
  BY DEF LoopState
<1>3. CASE CannotDecode
  <2>1. /\ UNCHANGED <<account, identified_outputs>>
        /\ Scanning /\ status' = "failed"
    BY <1>3 DEF CannotDecode
  <2>2. ~SkipsRound(searcher, x, tx, i) /\ FailsRound(searcher, x, tx, i)
    BY <1>3 DEF CannotDecode, SkipsRound, FailsRound, Matches, Used, LoopState
  <2> DEFINE y == [x EXCEPT !.threw = TRUE]
  <2>3. y.account = account /\ y.outputs = found /\ y.threw = TRUE
    BY DEF LoopState
  <2> HIDE DEF x
  <2>4. Round(searcher, x, tx, i) = y
    BY <2>2, RoundCases
  <2> HIDE DEF y
  <2>5. /\ IsSearcher(searcher) /\ GoodAccount(known) /\ tx \in Transaction
        /\ i \in 0..Len(tx.vout)
        /\ Rounds(searcher, known, tx)[i] = y
    BY <1>1, <2>1, <2>4, OneMoreRound DEF x, FunctionInv
  <2>6. result = y
    BY <2>3, <2>5, RoundsStop
  <2> HIDE DEF result
  <2>7. account' = result.account
        /\ identified_outputs' = before \o result.outputs
        /\ (status' = "failed" <=> result.threw)
    BY <1>1, <2>1, <2>3, <2>6
  <2> QED BY <2>7 DEF result
<1>4. CASE Finish
  <2>1. /\ UNCHANGED <<account, identified_outputs>>
        /\ status' = "done"
        /\ i \in 0..(Len(tx.vout) + 1) /\ i > Len(tx.vout)
    BY <1>4 DEF Finish, IInv, TypeOK
  <2>2. i - 1 = Len(tx.vout)
    BY <2>1, LengthOfTx DEF IInv
  <2>3. result = x
    BY <1>1, <2>2 DEF IdentifyOutputs
  <2> HIDE DEF x, result
  <2>4. account' = result.account
        /\ identified_outputs' = before \o result.outputs
        /\ (status' = "failed" <=> result.threw)
    BY <1>1, <1>2, <2>1, <2>3
  <2> QED BY <2>4 DEF result
<1>5. CASE \/ Populate \/ Begin \/ IdentifyAgain \/ SkipOutput
           \/ RecordOutput \/ Crash \/ UNCHANGED vars
  <2>1. FALSE
    BY <1>5
       DEF Populate, Begin, IdentifyAgain, SkipOutput, RecordOutput, Crash,
           Stopped, identifier, vars
  <2> QED BY <2>1
<1> QED BY <1>3, <1>4, <1>5 DEF Next

(* The loop, which shares its account with a client that populates it and  *)
(* with the passes before it, has at the end of every pass done exactly    *)
(* what IdentifyOutputs says: the account it leaves, the records it added  *)
(* and the exception are the function's (UniversalIdentifier.cpp:118-308). *)
THEOREM ScanIsTheFunction == Spec => ScanIsAFunction
<1>1. Init => IInv /\ FunctionInv
  BY InitIInv, InitFunction
<1>2. IInv /\ FunctionInv /\ [Next]_vars => (IInv /\ FunctionInv)'
  BY NextIInv, NextFunction
<1> DEFINE Ends ==
        status = "scanning" /\ status' \in {"done", "failed"} =>
          LET result == IdentifyOutputs(searcher, known, tx)
          IN  /\ account' = result.account
              /\ identified_outputs' = before \o result.outputs
              /\ status' = "failed" <=> result.threw
<1>3. IInv /\ FunctionInv /\ [Next]_vars => [Ends]_vars
  BY PassEnds
<1> QED BY <1>1, <1>2, <1>3, PTL DEF Spec, ScanIsAFunction
=============================================================================
