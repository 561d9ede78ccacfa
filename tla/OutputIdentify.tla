--------------------------- MODULE OutputIdentify ---------------------------
(***************************************************************************)
(* One round of the loop of Output::identify                               *)
(* (src/src/UniversalIdentifier.cpp): whose output is vout[i], and what is *)
(* kept of it.  OutputScan is the loop; InputScan runs it on every ring    *)
(* member.                                                                 *)
(*                                                                         *)
(* A transaction is a record                                               *)
(*   version, coinbase                                                     *)
(*   main        whether a derivation exists for the tx public key         *)
(*   additional  the same for each additional tx public key                *)
(*   vout        a sequence of outputs:                                    *)
(*     is_key     the target is a txout_to_key                             *)
(*     pub_key    the output's one-time key                                *)
(*     spend_key  the spend key it was sent to                             *)
(*     via        the tx public key the sender used, the main one or the   *)
(*                additional one of the output's position                  *)
(*     plain      the amount in the clear                                  *)
(*     hidden     the amount under ringct                                  *)
(*     decodable  whether the ringct type and commitment are good          *)
(***************************************************************************)
EXTENDS SubaddressBook, SequencesExt

CONSTANTS
    PubKeys,    \* one-time keys of outputs
    OtherKey    \* a spend key that no index of ours has: another wallet's,
                \* or what a wrong derivation computes

ASSUME OtherKeyAssumption == OtherKey \notin Key

Derivations == {"main", "additional"}

TxOut ==
    [is_key : BOOLEAN, pub_key : PubKeys,
     spend_key : Key \cup {OtherKey}, via : Derivations,
     plain : Nat, hidden : Nat, decodable : BOOLEAN]

Transaction ==
    [version : Nat, coinbase : BOOLEAN,
     main : BOOLEAN, additional : Seq(BOOLEAN), vout : Seq(TxOut)]

(* The default of Output::info::subaddr_idx: index not given.              *)
NoIndex == <<UINT32_MAX, UINT32_MAX>>

HasSubaddressIndex(info) ==
    info.subaddr_idx[1] # UINT32_MAX /\ info.subaddr_idx[2] # UINT32_MAX

(* A searcher is [pacc, address]: with pacc set it uses the map of its     *)
(* primary account, else it looks for the one address it was given.        *)

-----------------------------------------------------------------------------
(* The derivation kept for a tx public key is real, or the identity, or    *)
(* there is none at this position.                                         *)
Derivable(tx, i, d) ==
    IF d = "main" THEN tx.main
                  ELSE i \in DOMAIN tx.additional /\ tx.additional[i]

(* hwdev.derive_subaddress_public_key: the spend key the output was sent   *)
(* to, when asked with the derivation its sender used.                     *)
DerivedSpendKey(tx, i, d) ==
    IF Derivable(tx, i, d) /\ tx.vout[i].via = d THEN tx.vout[i].spend_key
                                                 ELSE OtherKey

(* The entry under which a spend key is ours, if it is.                    *)
Ours(searcher, account, key) ==
    IF searcher.pacc THEN Lookup(account, key)
    ELSE IF key = searcher.address THEN {Entry(key, NoIndex)} ELSE {}

(* The main derivation is tried first, the additional one of the position  *)
(* only if that fails and the tx has additional keys.                      *)
OursVia(searcher, account, tx, i, d) ==
    Ours(searcher, account, DerivedSpendKey(tx, i, d))

(* A mistake: a single additional key is taken for none.                   *)
NeedsSecondAdditional(searcher, account, tx, i) ==
    /\ OursVia(searcher, account, tx, i, "main") = {}
    /\ Len(tx.additional) > 1

NeedsAdditional(searcher, account, tx, i) ==
    /\ OursVia(searcher, account, tx, i, "main") = {}
    /\ tx.additional # <<>>

Match(searcher, account, tx, i) ==
    IF NeedsAdditional(searcher, account, tx, i)
    THEN OursVia(searcher, account, tx, i, "additional")
    ELSE OursVia(searcher, account, tx, i, "main")

UsedDerivation(searcher, account, tx, i) ==
    IF NeedsAdditional(searcher, account, tx, i) THEN "additional" ELSE "main"

-----------------------------------------------------------------------------
IsRct(tx) == tx.version = 2 /\ ~tx.coinbase

(* decode_ringct: the amount opens only under the derivation it was sealed *)
(* with.                                                                   *)
DecodesRingct(tx, i, d) == tx.vout[i].decodable /\ tx.vout[i].via = d

(* A mistake: the main derivation is saved whichever was used.             *)
MainDerivationToSave(tx, used) == "main"

(* derivation_to_save is reassigned in the ringct branch only.             *)
DerivationToSave(tx, used) == IF IsRct(tx) THEN used ELSE "main"

(* A mistake: a coinbase output is read under ringct.                      *)
AmountUnderRct(tx, i) ==
    IF tx.version = 2 THEN tx.vout[i].hidden ELSE tx.vout[i].plain

Amount(tx, i) == IF IsRct(tx) THEN tx.vout[i].hidden ELSE tx.vout[i].plain

(* A mistake: the index is one behind.                                     *)
InfoOfPrevious(tx, i, e, used) ==
    [pub_key             |-> tx.vout[i].pub_key,
     amount              |-> Amount(tx, i),
     idx_in_tx           |-> i - 1,
     derivation          |-> DerivationToSave(tx, used),
     subaddress_spendkey |-> e.key,
     subaddr_idx         |-> e.idx]

(* The Output::info of a found output.                                     *)
Info(tx, i, e, used) ==
    [pub_key             |-> tx.vout[i].pub_key,
     amount              |-> Amount(tx, i),
     idx_in_tx           |-> i,
     derivation          |-> DerivationToSave(tx, used),
     subaddress_spendkey |-> e.key,
     subaddr_idx         |-> e.idx]

(* A mistake: the window is populated from the account that was found.     *)
AccountRepopulated(searcher, account, e) ==
    IF searcher.pacc
    THEN PopulateSubaddressIndices(account, e.idx[1], e.idx[1] + LOOKAHEAD_MAJOR)
    ELSE account

(* The account after the find: only an account's map has an index to       *)
(* expand from.                                                            *)
AccountAfter(searcher, account, e) ==
    IF searcher.pacc THEN AfterFound(account, e.idx[1]) ELSE account

-----------------------------------------------------------------------------
(* The whole call, as the callers see it that wait for it: the account it  *)
(* leaves, what it found, and whether it threw.                            *)

(* One output, given what came of those before it.                         *)
Round(searcher, sofar, tx, i) ==
    LET used == UsedDerivation(searcher, sofar.account, tx, i)
        matches == Match(searcher, sofar.account, tx, i)
    IN  IF sofar.threw \/ ~tx.vout[i].is_key \/ matches = {} THEN sofar
        ELSE IF IsRct(tx) /\ ~DecodesRingct(tx, i, used)
        THEN [sofar EXCEPT !.threw = TRUE]
        ELSE LET e == CHOOSE e \in matches : TRUE
             IN  [account |-> AccountAfter(searcher, sofar.account, e),
                  outputs |-> Append(sofar.outputs, Info(tx, i, e, used)),
                  threw |-> FALSE]

(* What came of the first n outputs, for every n.                          *)
Rounds(searcher, account, tx) ==
    LET upto[n \in 0..Len(tx.vout)] ==
            IF n = 0
            THEN [account |-> account, outputs |-> <<>>, threw |-> FALSE]
            ELSE Round(searcher, upto[n - 1], tx, n)
    IN  upto

IdentifyOutputs(searcher, account, tx) ==
    Rounds(searcher, account, tx)[Len(tx.vout)]

(* The sum of the amounts of records.                                      *)
SumAmounts(infos) ==
    MapThenSumSet(LAMBDA n : infos[n].amount, DOMAIN infos)
=============================================================================
