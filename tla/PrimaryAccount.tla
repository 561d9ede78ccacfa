--------------------------- MODULE PrimaryAccount ---------------------------
(***************************************************************************)
(* A PrimaryAccount over its life: the calls its owner makes on it, and    *)
(* what an Output identifier does to it whenever it finds an output.       *)
(***************************************************************************)
EXTENDS SubaddressBook

CONSTANTS
    Manual,       \* indices the owner may register with add_subaddress_index
    MaxExpansion  \* bound on the account ids the owner expands to

ASSUME OwnerAssumption ==
    /\ Manual \subseteq Index
    /\ MaxExpansion \in UInt32

VARIABLES
    account,      \* the PrimaryAccount
    promised      \* history: all account ids below it are owed to the owner

vars == <<account, promised>>

next == account.next_acc_id_to_populate

Init ==
    /\ account = NewAccount
    /\ promised = 0

(* populate_subaddress_indices with its default arguments, the only ones   *)
(* used outside the class.                                                 *)
Populate ==
    /\ account' = PopulateSubaddressIndices(account, 0, LOOKAHEAD_MAJOR)
    /\ promised' = IF promised < LOOKAHEAD_MAJOR THEN LOOKAHEAD_MAJOR
                                                 ELSE promised

Expand ==
    \E new_acc_id \in 0..MaxExpansion :
        /\ account' = ExpandSubaddresses(account, new_acc_id)
        /\ UNCHANGED promised

AddIndex ==
    \E idx \in Manual :
        /\ account' = AddSubaddressIndex(account, idx)
        /\ UNCHANGED promised

(* An Output identifier finds an output sent to a registered key.          *)
FoundOutput ==
    \E e \in account.subaddresses :
        /\ account' = AfterFound(account, e.idx[1])
        /\ promised' = PromisedAfter(promised, account, e.idx[1])

Next == Populate \/ Expand \/ AddIndex \/ FoundOutput

Spec == Init /\ [][Next]_vars

-----------------------------------------------------------------------------
(* The account is a map over keys and a 32-bit watermark.                  *)
TypeOK ==
    /\ account \in Account
    /\ promised \in UInt32

(* Every key is filed under the index it was derived from, whatever the    *)
(* offsets of the batch that produced it (Account.cpp:119-147): an output  *)
(* would else be credited to, and its key image computed for, another      *)
(* subaddress.                                                             *)
KeyMatchesIndex ==
    KeysMatch(account)

(* The watermark never runs ahead of the map: each account below it has    *)
(* all its addresses registered, the primary address <<0, 0>> included,    *)
(* although populate skips it and sets the watermark unconditionally       *)
(* (Account.cpp:150).                                                      *)
WindowCovered ==
    CoveredUpTo(account, next)

(* Once an output of account id m was found at or below the watermark, the *)
(* accounts up to m + LOOKAHEAD_MAJOR are registered for ever, in spite of *)
(* the cap on new accounts, of later populates that lower the watermark,   *)
(* and of 32-bit wrap-around (UniversalIdentifier.cpp:287-302).            *)
LookaheadCovered ==
    CoveredUpTo(account, promised)

(* A found output costs at most MAX_NEW_ACCOUNTS accounts of keys, however *)
(* far away the owner registered the index (the min of                     *)
(* UniversalIdentifier.cpp:290-293).                                       *)
ExpansionBounded ==
    [][FoundOutput =>
        Cardinality(AccountIds(account') \ AccountIds(account))
            <= MAX_NEW_ACCOUNTS]_vars
=============================================================================
