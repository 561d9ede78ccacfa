--------------------------- MODULE PaymentIdScan ----------------------------
(***************************************************************************)
(* LegacyPaymentID and IntegratedPaymentID (PaymentID<hash> and            *)
(* PaymentID<hash8>, src/src/UniversalIdentifier.hpp and .cpp) under one   *)
(* ModularIdentifier, on one transaction after the other.                  *)
(*                                                                         *)
(* An id is the set of the bits that are 1 in it.  A short id travels      *)
(* XORed with a pad that the sender and the recipient derive from a public *)
(* key of the transaction and the recipient's view key.                    *)
(***************************************************************************)
EXTENDS Sequences, Naturals

CONSTANTS
    Bits,         \* the bits of an id
    Keys,         \* view keys
    Pubs,         \* what the public key fields of a transaction hold
    NullPub,      \* null_pkey
    Pad,          \* Pad[<<pub, key>>]: the pad
    Valid,        \* the public keys that are points of the curve
    PubFields,    \* sequences of public keys an extra field may have
    NoKey         \* nullptr

ASSUME PadAssumption == Pad \in [(Pubs \cup {NullPub}) \X Keys -> SUBSET Bits]
ASSUME ValidAssumption == Valid \subseteq Pubs \cup {NullPub}
ASSUME FieldsAssumption == PubFields \subseteq Seq(Pubs)
ASSUME NoKeyAssumption == NoKey \notin Keys

VARIABLES
    identifiers,  \* the tuple of identifiers, in the order they are called
    viewkey,      \* of IntegratedPaymentID
    tx,           \* the transaction at hand
    todo,         \* the identifiers identify() has yet to call
    payment_id,   \* of each identifier
    raw,          \* of each identifier: its part of payment_id_tuple
    returned      \* history: the identifiers whose call returned, for tx

vars == <<identifiers, viewkey, tx, todo, payment_id, raw, returned>>

HashT == {"long", "short"}
Id == SUBSET Bits
null_hash == {}
None == {}        \* boost::none
Some(id) == {id}
Xor(a, b) == (a \ b) \cup (b \ a)

-----------------------------------------------------------------------------
(* Transactions.  "nonce" is what the extra nonce turns out to be: a long  *)
(* id, an encrypted short one, or neither, be it that the extra field does *)
(* not parse.  Anyone can write anything.                                  *)
Tx == [nonce : {"none", "long", "short"}, id : Id, pubs : PubFields]

(* What a sender makes of a short id for the owner of a view key.  It      *)
(* encrypts under the key it adds last: one that is left from a signature  *)
(* it discarded comes before it.                                           *)
Encrypted(id, pubs, key) == Xor(id, Pad[<<pubs[Len(pubs)], key>>])

(* A mistake: the first of two keys.                                       *)
TxPubKeyFirst(pubs) == IF pubs = <<>> THEN NullPub ELSE pubs[1]

(* get_tx_pub_key_from_received_outs()                                     *)
TxPubKey(pubs) ==
    IF pubs = <<>> THEN NullPub
    ELSE IF Len(pubs) = 1 THEN pubs[1] ELSE pubs[2]

(* cn_fast_hash() of the key derivation and a tail                         *)
SharedPad == Pad[<<TxPubKey(tx.pubs), viewkey>>]

(* A mistake: the short id is looked for in a nonce of either kind.        *)
GetPaymentIdOfEither(t, h) ==
    IF t.nonce = h \/ (h = "short" /\ t.nonce = "long") THEN t.id
                                                       ELSE null_hash

(* get_payment_id(): the part of the tuple that is of type h               *)
GetPaymentId(t, h) == IF t.nonce = h THEN t.id ELSE null_hash

Init ==
    /\ identifiers \in {<<"long">>, <<"short">>, <<"long", "short">>,
                        <<"short", "long">>}
    /\ viewkey \in Keys \cup {NoKey}
    /\ tx \in Tx
    /\ todo = identifiers
    /\ payment_id = [h \in HashT |-> None]
    /\ raw = [h \in HashT |-> null_hash]
    /\ returned = {}

(* A ModularIdentifier is made of the same identifiers for a transaction,  *)
(* a new one or the same once more, and asked to identify().               *)
NextCall ==
    /\ todo = <<>>
    /\ tx' \in Tx
    /\ todo' = identifiers
    /\ returned' = {}
    /\ UNCHANGED <<identifiers, viewkey, payment_id, raw>>

(* PaymentID::identify() returns: the next identifier is called.           *)
Identified(h, id) ==
    /\ payment_id' = [payment_id EXCEPT ![h] = id]
    /\ todo' = Tail(todo)
    /\ returned' = returned \cup {h}

(* A mistake: the early return leaves the id of the last transaction.      *)
NotFoundLeaves(h) ==
    /\ GetPaymentId(tx, h) = null_hash \/ (h = "short" /\ viewkey = NoKey)
    /\ Identified(h, payment_id[h])

(* There is no id, or none that can be decrypted without a view key.       *)
NotFound(h) ==
    /\ GetPaymentId(tx, h) = null_hash \/ (h = "short" /\ viewkey = NoKey)
    /\ Identified(h, None)

FoundLegacy(h) ==
    /\ h = "long" /\ GetPaymentId(tx, h) # null_hash
    /\ Identified(h, Some(GetPaymentId(tx, h)))

(* A mistake: the pad is added, not XORed.                                 *)
DecryptedByOr(h) ==
    /\ h = "short" /\ GetPaymentId(tx, h) # null_hash /\ viewkey # NoKey
    /\ TxPubKey(tx.pubs) \in Valid
    /\ Identified(h, Some(GetPaymentId(tx, h) \cup SharedPad))

(* encrypt_payment_id() in place                                           *)
Decrypted(h) ==
    /\ h = "short" /\ GetPaymentId(tx, h) # null_hash /\ viewkey # NoKey
    /\ TxPubKey(tx.pubs) \in Valid
    /\ Identified(h, Some(Xor(GetPaymentId(tx, h), SharedPad)))

(* "Cant decrypt pay_id": generate_key_derivation() refused the key.  The  *)
(* exception ends the call with the id as it was found.                    *)
CantDecrypt(h) ==
    /\ h = "short" /\ GetPaymentId(tx, h) # null_hash /\ viewkey # NoKey
    /\ TxPubKey(tx.pubs) \notin Valid
    /\ payment_id' = [payment_id EXCEPT ![h] = Some(GetPaymentId(tx, h))]
    /\ todo' = <<>>
    /\ UNCHANGED returned

(* A mistake: an id that was found once is kept.                           *)
ReadTupleOnce(h) ==
    raw' = IF raw[h] = null_hash THEN [raw EXCEPT ![h] = GetPaymentId(tx, h)]
                                 ELSE raw

(* payment_id_tuple = get_payment_id(tx)                                   *)
ReadTuple(h) == raw' = [raw EXCEPT ![h] = GetPaymentId(tx, h)]

(* PaymentID::identify() of the next identifier                            *)
Identify ==
    /\ todo # <<>>
    /\ ReadTuple(Head(todo))
    /\ \/ NotFound(Head(todo))
       \/ FoundLegacy(Head(todo))
       \/ Decrypted(Head(todo))
       \/ CantDecrypt(Head(todo))
    /\ UNCHANGED <<identifiers, viewkey, tx>>

Next == NextCall \/ Identify

Spec == Init /\ [][Next]_vars

-----------------------------------------------------------------------------
(* Each identifier is called at most once per call, and raw() tells the    *)
(* field of the transaction for those that returned.                       *)
TypeOK ==
    /\ viewkey \in Keys \cup {NoKey}
    /\ tx \in Tx
    /\ todo \in Seq(HashT) /\ returned \subseteq HashT
    /\ \A n \in DOMAIN todo : todo[n] \notin returned
    /\ payment_id \in [HashT -> {None} \cup {Some(id) : id \in Id}]
    /\ \A h \in returned : raw[h] = GetPaymentId(tx, h)

(* What identify() returned with is of this transaction, whatever was      *)
(* found, missed or thrown for those before: an id is reported only when   *)
(* there is one of that kind, and a long one as it stands                  *)
(* (UniversalIdentifier.hpp:282-309).                                      *)
NothingStale ==
    \A h \in returned : payment_id[h] # None =>
        /\ tx.nonce = h /\ tx.id # null_hash
        /\ h = "long" => payment_id[h] = Some(tx.id)

(* The recipient reads the id that was sent, unless its encryption happens *)
(* to be all zeros, which passes for "no id" (UniversalIdentifier.hpp:290, *)
(* UniversalIdentifier.cpp:798-812).  The sender used the key it added     *)
(* last, and there are at most two: of three, or of two of which the first *)
(* was used, the code takes one that does not decrypt (:38-47).            *)
RecipientReads ==
    /\ "short" \in returned /\ tx.nonce = "short" /\ viewkey # NoKey
    /\ Len(tx.pubs) \in 1..2
    => \A sent \in Id :
          tx.id = Encrypted(sent, tx.pubs, viewkey) =>
             payment_id["short"]
                = IF tx.id = null_hash THEN None ELSE Some(sent)
=============================================================================
