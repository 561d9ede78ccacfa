----------------------------- MODULE BlockRead ------------------------------
(***************************************************************************)
(* What MicroCore::get_block_complete_entry, and get_tx as its special     *)
(* case of one transaction, promise to a caller: transaction by            *)
(* transaction, one look at the database.  What was there at that moment   *)
(* is appended to the entry; the first that was not ends the call with     *)
(* false.  MicroCore takes up to three looks, between which the node may   *)
(* write, and implements this.                                             *)
(***************************************************************************)
EXTENDS Sequences, Naturals

CONSTANTS
    TxHash,       \* hashes of transactions
    Blocks        \* sequences of hashes one may ask for

VARIABLES
    present,      \* the transactions the database has
    block, k,     \* the block asked for, and the position in it
    hashes,       \* the transactions of the entry
    result        \* "none" before the first call, "running", "true", "false"

vars == <<present, block, k, hashes, result>>

Init ==
    /\ present \subseteq TxHash
    /\ block \in Blocks
    /\ k = 1
    /\ hashes = <<>>
    /\ result = "none"

Write ==
    /\ present' \in SUBSET TxHash
    /\ UNCHANGED <<block, k, hashes, result>>

(* The caller may pass a new entry, or one that was used before.           *)
Call ==
    /\ result # "running"
    /\ block' \in Blocks
    /\ k' = 1
    /\ hashes' \in {<<>>, hashes}
    /\ result' = "running"
    /\ UNCHANGED present

Look ==
    /\ result = "running" /\ k <= Len(block)
    /\ IF block[k] \in present
       THEN k' = k + 1 /\ hashes' = Append(hashes, block[k]) /\ UNCHANGED result
       ELSE result' = "false" /\ UNCHANGED <<k, hashes>>
    /\ UNCHANGED <<present, block>>

Return ==
    /\ result = "running" /\ k > Len(block)
    /\ result' = "true"
    /\ UNCHANGED <<present, block, k, hashes>>

Next == Write \/ Call \/ Look \/ Return

Spec == Init /\ [][Next]_vars
=============================================================================
