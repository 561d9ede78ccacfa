----------------------------- MODULE MicroCore ------------------------------
(***************************************************************************)
(* MicroCore (src/src/MicroCore.cpp): the stages of init(), and get_tx     *)
(* under get_block_complete_entry, reading the database of a node that     *)
(* writes, prunes and pops in between.  Every call into the database reads *)
(* it at a moment of its own.                                              *)
(***************************************************************************)
EXTENDS Sequences, Naturals

CONSTANTS
    TxHash,       \* hashes of transactions
    Blocks,       \* sequences of hashes one may ask for
    MaxInits,     \* bound on the calls of init()
    MaxChanges,   \* bound on the node's steps
    MaxCalls      \* bound on the calls of get_block_complete_entry()

ASSUME BlocksAssumption == Blocks \subseteq Seq(TxHash)

VARIABLES
    ledger,       \* the node's database: what it has of each transaction
    pc,           \* where the caller's thread is
    initialization_succeded,
    core_has_db,  \* core_storage was given the database
    block, k,     \* the block asked for, and the position in it
    txs,          \* bce.txs, as [hash, form] entries
    result,       \* of get_block_complete_entry, as in BlockRead
    inits, changes, calls,   \* counters for the bounds
    returned,     \* history: what the calls of init() returned
    seen          \* history: the states of the transaction that is being
                  \* read since its reading began

core == <<initialization_succeded, core_has_db, inits, returned>>
call == <<block, k, txs, result, calls>>
vars == <<ledger, pc, core, call, changes, seen>>

Forms == {"absent", "whole", "pruned"}

Init ==
    /\ ledger \in [TxHash -> Forms]
    /\ pc = "idle"
    /\ initialization_succeded = FALSE /\ core_has_db = FALSE
    /\ block \in Blocks /\ k = 1 /\ txs = <<>> /\ result = "none"
    /\ inits = 0 /\ changes = 0 /\ calls = 0
    /\ returned = {} /\ seen = {}

-----------------------------------------------------------------------------
(* The node.  A reader in the middle of get_tx sees the change at its next *)
(* look.                                                                   *)
Change(h, form) ==
    /\ changes < MaxChanges
    /\ ledger' = [ledger EXCEPT ![h] = form]
    /\ changes' = changes + 1
    /\ seen' = IF pc \in {"have", "get", "pruned"} THEN seen \cup {ledger'[block[k]]}
                                                   ELSE seen
    /\ UNCHANGED <<pc, core, call>>

AddTx == \E h \in TxHash : ledger[h] = "absent" /\ Change(h, "whole")
PruneTx == \E h \in TxHash : ledger[h] = "whole" /\ Change(h, "pruned")
PopTx == \E h \in TxHash : ledger[h] # "absent" /\ Change(h, "absent")

-----------------------------------------------------------------------------
(* init(), by the constructor or later, and possibly once more.            *)

(* The database is opened: it throws, it is not open, or it is open.       *)
OpenDb ==
    /\ pc = "idle" /\ inits < MaxInits
    /\ inits' = inits + 1
    /\ \/ pc' = "core" /\ UNCHANGED returned
       \/ returned' = returned \cup {FALSE} /\ UNCHANGED pc
    /\ UNCHANGED <<ledger, initialization_succeded, core_has_db, call, changes,
                   seen>>

(* core_storage.init(db.release(), nettype)                                *)
InitCore ==
    /\ pc = "core"
    /\ core_has_db' = TRUE
    /\ \/ pc' = "mempool" /\ UNCHANGED returned
       \/ pc' = "idle" /\ returned' = returned \cup {FALSE}
    /\ UNCHANGED <<ledger, initialization_succeded, inits, call, changes, seen>>

(* A mistake: the object counts as initialised whatever m_mempool says.    *)
InitMempoolUnchecked ==
    /\ pc = "mempool"
    /\ pc' = "idle"
    /\ initialization_succeded' = TRUE
    /\ \E ok \in BOOLEAN : returned' = returned \cup {ok}
    /\ UNCHANGED <<ledger, core_has_db, inits, call, changes, seen>>

(* m_mempool.init()                                                        *)
InitMempool ==
    /\ pc = "mempool"
    /\ pc' = "idle"
    /\ \/ initialization_succeded' = TRUE /\ returned' = returned \cup {TRUE}
       \/ returned' = returned \cup {FALSE} /\ UNCHANGED initialization_succeded
    /\ UNCHANGED <<ledger, core_has_db, inits, call, changes, seen>>

-----------------------------------------------------------------------------
(* get_block_complete_entry()                                              *)

(* A mistake: the loop does not begin anew.                                *)
GetBlockCompleteEntryResuming ==
    /\ pc = "idle" /\ initialization_succeded /\ calls < MaxCalls
    /\ calls' = calls + 1
    /\ block' \in Blocks
    /\ txs' \in {<<>>, txs}
    /\ result' = "running"
    /\ pc' = "next"
    /\ UNCHANGED <<ledger, core, k, changes, seen>>

(* Clients ask init_success() first.  bce.block is overwritten, bce.txs    *)
(* appended to, whether the entry is new or was used before.               *)
GetBlockCompleteEntry ==
    /\ pc = "idle" /\ initialization_succeded /\ calls < MaxCalls
    /\ calls' = calls + 1
    /\ block' \in Blocks
    /\ k' = 1
    /\ txs' \in {<<>>, txs}
    /\ result' = "running"
    /\ pc' = "next"
    /\ UNCHANGED <<ledger, core, changes, seen>>

(* The loop over b.tx_hashes: the next get_tx, or the end.                 *)
NextTx ==
    /\ pc = "next" /\ k <= Len(block)
    /\ pc' = "have"
    /\ seen' = {ledger[block[k]]}
    /\ UNCHANGED <<ledger, core, call, changes>>

ReturnTrue ==
    /\ pc = "next" /\ k > Len(block)
    /\ pc' = "idle"
    /\ result' = "true"
    /\ UNCHANGED <<ledger, core, block, k, txs, calls, changes, seen>>

(* get_tx gave false.                                                      *)
ReturnFalse ==
    /\ pc' = "idle"
    /\ result' = "false"
    /\ UNCHANGED <<k, txs>>

(* get_tx gave true: push_back(tx_to_blob(tx)), and go on.                 *)
Push(form) ==
    /\ txs' = Append(txs, [hash |-> block[k], form |-> form])
    /\ k' = k + 1
    /\ pc' = "next"
    /\ UNCHANGED result

(* have_tx                                                                 *)
HaveTx ==
    /\ pc = "have"
    /\ IF ledger[block[k]] = "absent"
       THEN ReturnFalse
       ELSE pc' = "get" /\ UNCHANGED <<k, txs, result>>
    /\ UNCHANGED <<ledger, core, block, calls, changes, seen>>

(* get_db().get_tx(), which throws TX_DNE unless it has all of it.         *)
GetTx ==
    /\ pc = "get"
    /\ IF ledger[block[k]] = "whole"
       THEN Push("whole")
       ELSE pc' = "pruned" /\ UNCHANGED <<k, txs, result>>
    /\ UNCHANGED <<ledger, core, block, calls, changes, seen>>

(* A mistake: the second exception falls through to "return true".         *)
GetPrunedTxFallsThrough ==
    /\ pc = "pruned"
    /\ Push("pruned")
    /\ UNCHANGED <<ledger, core, block, calls, changes, seen>>

(* A mistake: the whole transaction is assumed to be there when no longer  *)
(* pruned.                                                                 *)
GetPrunedTxAsWhole ==
    /\ pc = "pruned"
    /\ IF ledger[block[k]] = "absent" THEN ReturnFalse ELSE Push("whole")
    /\ UNCHANGED <<ledger, core, block, calls, changes, seen>>

(* get_db().get_pruned_tx(), which throws TX_DNE if there is nothing.      *)
GetPrunedTx ==
    /\ pc = "pruned"
    /\ IF ledger[block[k]] = "absent" THEN ReturnFalse ELSE Push("pruned")
    /\ UNCHANGED <<ledger, core, block, calls, changes, seen>>

-----------------------------------------------------------------------------
Next ==
    \/ AddTx \/ PruneTx \/ PopTx
    \/ OpenDb \/ InitCore \/ InitMempool
    \/ GetBlockCompleteEntry \/ NextTx \/ ReturnTrue
    \/ HaveTx \/ GetTx \/ GetPrunedTx

Spec == Init /\ [][Next]_vars

-----------------------------------------------------------------------------
Reading == pc \in {"have", "get", "pruned"}

(* The position stays inside the block while it is read, and the entry     *)
(* holds transactions with what was there of them.                         *)
TypeOK ==
    /\ ledger \in [TxHash -> Forms]
    /\ pc \in {"idle", "core", "mempool", "next", "have", "get", "pruned"}
    /\ initialization_succeded \in BOOLEAN /\ core_has_db \in BOOLEAN
    /\ block \in Blocks /\ k \in 1..(Len(block) + 1)
    /\ Reading => k <= Len(block)
    /\ txs \in Seq([hash : TxHash, form : {"whole", "pruned"}])
    /\ result \in {"none", "running", "true", "false"}
    /\ returned \subseteq BOOLEAN /\ seen \subseteq Forms

(* Between calls init_success() says whether any init() returned true,     *)
(* through failures at any stage and repeats; it is not taken back by a    *)
(* later failure.  No block is asked for without a database in             *)
(* core_storage (MicroCore.cpp:71-83, 413).                                *)
InitSuccessIsTold ==
    /\ pc = "idle" => (initialization_succeded <=> TRUE \in returned)
    /\ result # "none" => core_has_db

(* What get_tx answers was so while it ran: it misses only what was away,  *)
(* gives whole only what was whole, and gives the pruned form only of what *)
(* was pruned or away at its second look (MicroCore.cpp:294-330).          *)
AnswersWereSeen ==
    [][ /\ result = "running" /\ result' = "false" => "absent" \in seen
        /\ Reading /\ k' = k + 1 =>
              \/ txs'[Len(txs')].form \in seen
              \/ txs'[Len(txs')].form = "pruned" /\ "absent" \in seen ]_vars

(* Three looks at the database are as good as one: the entry grows, and    *)
(* the call fails, as if each transaction had been looked up at one        *)
(* moment.  It allows to model the get_tx of an identifier as one step.    *)
OneLook == INSTANCE BlockRead
               WITH present <- {h \in TxHash : ledger[h] # "absent"},
                    hashes <- [n \in DOMAIN txs |-> txs[n].hash]
AtomicReads == OneLook!Spec
=============================================================================
