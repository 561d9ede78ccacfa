----------------------------- MODULE OutputScan -----------------------------
(***************************************************************************)
(* Output::identify as a process: a client scans transactions one after    *)
(* the other, each with a new identifier, all sharing one account, which   *)
(* every find may expand.  The client may populate the account between     *)
(* scans, may go on after a scan that threw, and may call identify() of an *)
(* identifier again.                                                       *)
(***************************************************************************)
EXTENDS OutputIdentify

CONSTANTS
    Txs,          \* the transactions a client begins with
    LaterTxs,     \* those it scans after the first
    Searchers,    \* who may be searching
    MaxScans,     \* bound on the transactions scanned
    MaxPasses     \* bound on the calls of identify() per identifier

ASSUME ScanAssumption ==
    /\ Txs \subseteq Transaction
    /\ LaterTxs \subseteq Txs
    /\ Searchers \subseteq [pacc : BOOLEAN, address : Key]

VARIABLES
    searcher, account,
    tx, i, status, identified_outputs, total_received, total_xmr,
    scans, passes,    \* counters for the bounds
    known, before,    \* history: account and records when the pass began
    promised,         \* history: as in PrimaryAccount
    owed,             \* history: the account ids the gap limit allows
    rewound,          \* history: a populate set the watermark back
    populated         \* history: the account was populated

identifier == <<tx, i, status, identified_outputs, total_received, total_xmr>>
history ==
    <<scans, passes, known, before, promised, owed, rewound, populated>>
vars == <<searcher, account, identifier, history>>

Init ==
    /\ searcher \in Searchers
    /\ account = NewAccount
    /\ tx \in Txs
    /\ i = 0
    /\ status = "idle"
    /\ identified_outputs = <<>>
    /\ total_received = 0 /\ total_xmr = 0
    /\ scans = 0 /\ passes = 0
    /\ known = account /\ before = <<>>
    /\ promised = 0 /\ owed = 0 /\ rewound = FALSE /\ populated = FALSE

-----------------------------------------------------------------------------
(* The client.                                                             *)

Stopped == status \in {"idle", "done", "failed"}

(* As by make_primaryaccount of an account in use.                         *)
Populate ==
    /\ Stopped /\ searcher.pacc
    /\ account' = PopulateSubaddressIndices(account, 0, LOOKAHEAD_MAJOR)
    /\ populated' = TRUE
    /\ promised' = IF promised < LOOKAHEAD_MAJOR THEN LOOKAHEAD_MAJOR
                                                 ELSE promised
    /\ owed' = IF owed < LOOKAHEAD_MAJOR THEN LOOKAHEAD_MAJOR ELSE owed
    /\ rewound' = (rewound
                      \/ account.next_acc_id_to_populate > LOOKAHEAD_MAJOR)
    /\ UNCHANGED <<searcher, identifier, scans, passes, known, before>>

(* A new identifier for a transaction, and its first pass.                 *)
Begin ==
    /\ Stopped /\ scans < MaxScans
    /\ tx' \in IF scans = 0 THEN {tx} ELSE LaterTxs
    /\ i' = 1
    /\ status' = "scanning"
    /\ identified_outputs' = <<>>
    /\ total_received' = 0 /\ total_xmr' = 0
    /\ scans' = scans + 1 /\ passes' = 1
    /\ known' = account /\ before' = <<>>
    /\ UNCHANGED <<searcher, account, promised, owed, rewound, populated>>

(* A mistake: the records are cleared, the totals are not.                 *)
IdentifyAgainClearing ==
    /\ status \in {"done", "failed"} /\ passes < MaxPasses
    /\ i' = 1
    /\ status' = "scanning"
    /\ identified_outputs' = <<>>
    /\ passes' = passes + 1
    /\ known' = account /\ before' = <<>>
    /\ UNCHANGED <<searcher, account, tx, total_received, total_xmr, scans,
                   promised, owed, rewound, populated>>

(* identify() once more: nothing of the first pass is cleared.             *)
IdentifyAgain ==
    /\ status \in {"done", "failed"} /\ passes < MaxPasses
    /\ i' = 1
    /\ status' = "scanning"
    /\ passes' = passes + 1
    /\ known' = account /\ before' = identified_outputs
    /\ UNCHANGED <<searcher, account, tx, identified_outputs, total_received,
                   total_xmr, scans, promised, owed, rewound, populated>>

-----------------------------------------------------------------------------
(* The loop over tx.vout.                                                  *)

Scanning == status = "scanning" /\ i <= Len(tx.vout)

Matches == Match(searcher, account, tx, i)

Used == UsedDerivation(searcher, account, tx, i)

(* additional_derivations[i] is read past its end.                         *)
OutOfRange ==
    /\ tx.vout[i].is_key
    /\ Used = "additional"
    /\ i > Len(tx.additional)

SkipOutput ==
    /\ Scanning
    /\ ~tx.vout[i].is_key \/ Matches = {}
    /\ i' = i + 1
    /\ UNCHANGED <<searcher, account, tx, status, identified_outputs,
                   total_received, total_xmr, history>>

RecordOutput ==
    /\ Scanning
    /\ tx.vout[i].is_key
    /\ IsRct(tx) => DecodesRingct(tx, i, Used)
    /\ \E e \in Matches :
        /\ total_received' = total_received + Amount(tx, i)
        /\ identified_outputs' = Append(identified_outputs, Info(tx, i, e, Used))
        /\ account' = AccountAfter(searcher, account, e)
        /\ total_xmr' = total_xmr + Amount(tx, i)
        /\ promised' = IF searcher.pacc
                       THEN PromisedAfter(promised, account, e.idx[1])
                       ELSE promised
        /\ owed' = IF searcher.pacc THEN OwedAfter(owed, e.idx[1]) ELSE owed
    /\ i' = i + 1
    /\ UNCHANGED <<searcher, tx, status, scans, passes, known, before,
                   rewound, populated>>

(* A mistake: the outputs are tried again from the first.                  *)
CannotDecodeRetry ==
    /\ Scanning
    /\ tx.vout[i].is_key
    /\ Matches # {} /\ IsRct(tx) /\ ~DecodesRingct(tx, i, Used)
    /\ i' = 1
    /\ UNCHANGED <<searcher, account, tx, status, identified_outputs,
                   total_received, total_xmr, history>>

(* A mistake: the exception undoes the expansions of the pass.             *)
CannotDecodeUndoing ==
    /\ Scanning
    /\ tx.vout[i].is_key
    /\ Matches # {} /\ IsRct(tx) /\ ~DecodesRingct(tx, i, Used)
    /\ status' = "failed"
    /\ account' = known
    /\ UNCHANGED <<searcher, tx, i, identified_outputs,
                   total_received, total_xmr, history>>

(* "Cant decode ringCT!" is thrown out of the loop; what was identified    *)
(* before stays in the identifier.                                         *)
CannotDecode ==
    /\ Scanning
    /\ tx.vout[i].is_key
    /\ Matches # {} /\ IsRct(tx) /\ ~DecodesRingct(tx, i, Used)
    /\ status' = "failed"
    /\ UNCHANGED <<searcher, account, tx, i, identified_outputs,
                   total_received, total_xmr, history>>

(* Undefined behaviour: the read past the end may also end the process;    *)
(* otherwise it yields no derivation of ours (SkipOutput).                 *)
Crash ==
    /\ Scanning /\ OutOfRange
    /\ status' = "crashed"
    /\ UNCHANGED <<searcher, account, tx, i, identified_outputs,
                   total_received, total_xmr, history>>

Finish ==
    /\ status = "scanning" /\ i > Len(tx.vout)
    /\ status' = "done"
    /\ UNCHANGED <<searcher, account, tx, i, identified_outputs,
                   total_received, total_xmr, history>>

Next ==
    \/ Populate \/ Begin \/ IdentifyAgain
    \/ SkipOutput \/ RecordOutput \/ CannotDecode \/ Crash \/ Finish

Spec == Init /\ [][Next]_vars

-----------------------------------------------------------------------------
OutputInfo ==
    [pub_key : PubKeys, amount : Nat, idx_in_tx : DOMAIN tx.vout,
     derivation : Derivations, subaddress_spendkey : Key, subaddr_idx : Index]

(* The identifier's results are typed: every record is of a position of    *)
(* the transaction, with one of its derivations and a 32-bit index, and    *)
(* the account stays a typed map.                                          *)
TypeOK ==
    /\ searcher \in Searchers
    /\ account \in Account
    /\ tx \in Txs /\ i \in 0..(Len(tx.vout) + 1)
    /\ status \in {"idle", "scanning", "done", "failed", "crashed"}
    /\ identified_outputs \in Seq(OutputInfo)
    /\ total_received \in Nat /\ total_xmr \in Nat

TrueRecord(r) ==
    LET o == tx.vout[r.idx_in_tx]
    IN  /\ o.is_key
        /\ r.pub_key = o.pub_key
        /\ r.amount = IF tx.version = 2 /\ ~tx.coinbase THEN o.hidden
                                                        ELSE o.plain
        /\ r.subaddress_spendkey = o.spend_key
        /\ IF searcher.pacc THEN SpendKey[r.subaddr_idx] = o.spend_key
                            ELSE /\ o.spend_key = searcher.address
                                 /\ r.subaddr_idx = NoIndex

(* Whatever is recorded was sent to an address of the searcher, with the   *)
(* amount it was sent and under the index of that address: never another   *)
(* wallet's output, never a neighbouring subaddress                        *)
(* (UniversalIdentifier.cpp:159-213, 265-280).                             *)
RecordsAreTrue ==
    \A n \in DOMAIN identified_outputs : TrueRecord(identified_outputs[n])

(* Both totals are the sum of the records at every point of the loop, so   *)
(* also after a scan that threw half-way or was repeated                   *)
(* (UniversalIdentifier.cpp:253-267, 305).                                 *)
TotalsMatchRecords ==
    /\ total_received = SumAmounts(identified_outputs)
    /\ total_xmr = SumAmounts(identified_outputs)

(* The output can be found at all: a derivation exists for the key its     *)
(* sender used.                                                            *)
Findable(n) ==
    tx.vout[n].is_key /\ Derivable(tx, n, tx.vout[n].via)

KnownTo(acc, key) == Ours(searcher, acc, key) # {}

Recorded(n) ==
    \E m \in DOMAIN identified_outputs : identified_outputs[m].idx_in_tx = n

(* A pass that ends normally has recorded every output sent to an address  *)
(* the searcher knew when the pass began, through the main or the          *)
(* additional key, however the account changed in between.                 *)
KnownNeverMissed ==
    status = "done" =>
        \A n \in DOMAIN tx.vout :
            Findable(n) /\ KnownTo(known, tx.vout[n].spend_key) => Recorded(n)

(* No output is recorded twice by one pass, whichever of its two           *)
(* derivations match.                                                      *)
OncePerPass ==
    \A n \in DOMAIN tx.vout :
        Cardinality({m \in DOMAIN identified_outputs :
                        identified_outputs[m].idx_in_tx = n}) <= passes

(* The addresses a wallet that keeps the gap limit may have handed out:    *)
(* those of the accounts that a populate or any earlier find owes.  After  *)
(* a populate that set the watermark back, the code follows finds at or    *)
(* below the watermark only (promised): one above it is expanded to from   *)
(* the watermark, and the cap ends that before its lookahead.              *)
WithinGapLimit(idx) ==
    \/ idx = <<0, 0>>
    \/ /\ idx[2] < LOOKAHEAD_MINOR
       /\ idx[1] < IF rewound THEN promised ELSE owed

(* As long as no populate sets the watermark back, every receipt within    *)
(* the gap limit is found at the moment the scan passes it, over any       *)
(* sequence of scans, failures and repeats.  After one that did, those in  *)
(* the accounts that were owed before are found still, and those owed by   *)
(* finds at or below the watermark; not all of those owed by a find above  *)
(* it (Account.cpp:150, UniversalIdentifier.cpp:282-302).                  *)
GapLimitReceiptsFound ==
    [][ \A idx \in Index :
          /\ searcher.pacc /\ Scanning /\ i' = i + 1
          /\ Findable(i) /\ tx.vout[i].spend_key = SpendKey[idx]
          /\ WithinGapLimit(idx)
          => Len(identified_outputs') = Len(identified_outputs) + 1 ]_vars

(* A pass is one step for whoever waits for it.  When it returns or        *)
(* throws, the first time or again, the account it leaves to the next      *)
(* search, the records it added and whether it threw are those that        *)
(* IdentifyOutputs gives for the account it began with; an exception keeps *)
(* the expansions and the records of the outputs before it.  The input     *)
(* identifiers take their account and what they found from there           *)
(* (UniversalIdentifier.cpp:118-308).                                      *)
ScanIsAFunction ==
    [][ status = "scanning" /\ status' \in {"done", "failed"} =>
          LET result == IdentifyOutputs(searcher, known, tx)
          IN  /\ account' = result.account
              /\ identified_outputs' = before \o result.outputs
              /\ status' = "failed" <=> result.threw ]_vars

(* For ringct outputs the saved derivation is the one the output was sent  *)
(* with, which spending from it needs (UniversalIdentifier.cpp:237-243).   *)
RctDerivationMatches ==
    IsRct(tx) => \A n \in DOMAIN identified_outputs :
        identified_outputs[n].derivation
            = tx.vout[identified_outputs[n].idx_in_tx].via

(* A record carries an index exactly if an account searched: neither the   *)
(* lookahead nor any expansion, up to the end of the 32-bit range, files a *)
(* key under an id that has_subaddress_index takes for not given           *)
(* (UniversalIdentifier.hpp:105-114).                                      *)
IndexGiven ==
    \A n \in DOMAIN identified_outputs :
        HasSubaddressIndex(identified_outputs[n]) <=> searcher.pacc

(* The scanner treats the account as its owner's interface allows: every   *)
(* change of it is a populate or the expansion after a find.               *)
Owner == INSTANCE PrimaryAccount WITH Manual <- {}, MaxExpansion <- 0
OwnerSpec == Owner!Spec

-----------------------------------------------------------------------------
(* What comments and documents say.                                        *)

(* UniversalIdentifier.cpp:282-285: "we do this only if account id         *)
(* (subaddress_idx.major) is greater than 0".                              *)
ExpandsPastAccountZeroOnly ==
    [][ account'.next_acc_id_to_populate # account.next_acc_id_to_populate
        /\ status = "scanning"
        => Last(identified_outputs').subaddr_idx[1] > 0 ]_vars

(* README.md:51-53: a search with an account of make_account is "to the    *)
(* primary address only. this search will not account for any outputs sent *)
(* to subaddresses".                                                       *)
UnpopulatedFindsPrimaryOnly ==
    searcher.pacc /\ ~populated =>
        \A n \in DOMAIN identified_outputs :
            identified_outputs[n].subaddr_idx = <<0, 0>>

(* UniversalIdentifier.cpp:152-155: "this derivation is going to be saved  *)
(* it can be one of addiitnal derivations if we are dealing with           *)
(* multiouput tx which cointains subaddress".                              *)
SavedDerivationMatches ==
    \A n \in DOMAIN identified_outputs :
        identified_outputs[n].derivation
            = tx.vout[identified_outputs[n].idx_in_tx].via
=============================================================================
