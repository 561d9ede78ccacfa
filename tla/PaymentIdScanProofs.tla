------------------------ MODULE PaymentIdScanProofs -------------------------
(***************************************************************************)
(* PaymentIdScan for ids of any width, any keys, pads and extra fields.    *)
(***************************************************************************)
EXTENDS PaymentIdScan, SequenceTheorems, TLAPS

(* What an identifier answers for a transaction when it returns.           *)
Answer(h) ==
    IF GetPaymentId(tx, h) = null_hash \/ (h = "short" /\ viewkey = NoKey)
    THEN None
    ELSE IF h = "long" THEN Some(GetPaymentId(tx, h))
    ELSE Some(Xor(GetPaymentId(tx, h), SharedPad))

NoTwice(s) == \A m, n \in DOMAIN s : s[m] = s[n] => m = n

(* The identifiers that are still to be called are not among those that    *)
(* returned, and those answered for the transaction at hand.               *)
Types ==
    /\ identifiers \in Seq(HashT)
    /\ NoTwice(identifiers)
    /\ viewkey \in Keys \cup {NoKey}
    /\ tx \in Tx
    /\ todo \in Seq(HashT) /\ returned \subseteq HashT
    /\ NoTwice(todo)
    /\ \A n \in DOMAIN todo : todo[n] \notin returned
    /\ payment_id \in [HashT -> {None} \cup {Some(id) : id \in Id}]
    /\ DOMAIN raw = HashT

IInv ==
    /\ Types
    /\ \A h \in returned :
          raw[h] = GetPaymentId(tx, h) /\ payment_id[h] = Answer(h)

(* XOR with a pad is undone by the same pad.                               *)
LEMMA XorTwice == \A a, b : Xor(Xor(a, b), b) = a
  BY DEF Xor

(* The pad is one of the ids.                                              *)
LEMMA PadIsId ==
    ASSUME NEW pubs \in PubFields, NEW key \in Keys
    PROVE  Pad[<<TxPubKey(pubs), key>>] \in Id
<1>1. pubs \in Seq(Pubs)
  BY FieldsAssumption
<1>2. TxPubKey(pubs) \in Pubs \cup {NullPub}
  <2>1. CASE pubs = <<>>
    BY <2>1 DEF TxPubKey
  <2>2. CASE pubs # <<>>
    <3>1. Len(pubs) \in Nat \ {0}
      BY <1>1, <2>2, EmptySeq
    <3>2. 1 \in 1..Len(pubs) /\ (Len(pubs) = 1 \/ 2 \in 1..Len(pubs))
      <4>1. \A n \in Nat \ {0} : 1 \in 1..n /\ (n # 1 => 2 \in 1..n)
        OBVIOUS
      <4> QED BY <3>1, <4>1
    <3>3. \A n \in 1..Len(pubs) : pubs[n] \in Pubs
      BY <1>1, ElementOfSeq
    <3>4. CASE Len(pubs) = 1
      BY <2>2, <3>2, <3>3, <3>4 DEF TxPubKey
    <3>5. CASE Len(pubs) # 1
      BY <2>2, <3>2, <3>3, <3>5 DEF TxPubKey
    <3> QED BY <3>4, <3>5
  <2> QED BY <2>1, <2>2
<1> QED BY <1>2, PadAssumption DEF Id

LEMMA GetPaymentIdType ==
    ASSUME tx \in Tx, NEW h
    PROVE  GetPaymentId(tx, h) \in Id
  BY DEF GetPaymentId, Tx, Id, null_hash

LEMMA AnswerType ==
    ASSUME Types, NEW h \in HashT
    PROVE  Answer(h) \in {None} \cup {Some(id) : id \in Id}
<1>1. GetPaymentId(tx, h) \in Id
  BY GetPaymentIdType DEF Types
<1>2. CASE viewkey \in Keys
  <2>1. tx.pubs \in PubFields
    BY DEF Types, Tx
  <2>2. Xor(GetPaymentId(tx, h), SharedPad) \in Id
    BY <1>1, <1>2, <2>1, PadIsId DEF SharedPad, Xor, Id
  <2> QED BY <1>1, <2>2 DEF Answer
<1>3. CASE viewkey = NoKey
  BY <1>1, <1>3 DEF Answer, HashT
<1> QED BY <1>2, <1>3 DEF Types

LEMMA InitIInv == Init => IInv
<1> SUFFICES ASSUME Init PROVE IInv
  OBVIOUS
<1>1. identifiers \in Seq(HashT) /\ NoTwice(identifiers)
  <2>1. <<"long">> \in Seq(HashT) /\ <<"short">> \in Seq(HashT)
    BY DEF HashT
  <2>2. /\ <<"long", "short">> \in Seq(HashT)
        /\ <<"short", "long">> \in Seq(HashT)
    BY DEF HashT
  <2>3. NoTwice(<<"long">>) /\ NoTwice(<<"short">>)
    BY DEF NoTwice
  <2>4. NoTwice(<<"long", "short">>) /\ NoTwice(<<"short", "long">>)
    BY DEF NoTwice
  <2> QED BY <2>1, <2>2, <2>3, <2>4 DEF Init
<1>2. payment_id \in [HashT -> {None} \cup {Some(id) : id \in Id}]
  BY DEF Init
<1> QED BY <1>1, <1>2 DEF Init, IInv, Types

(* What remains of a sequence without repetitions after its head.          *)
LEMMA RestFacts ==
    ASSUME Types, todo # <<>>
    PROVE  /\ Head(todo) \in HashT /\ Head(todo) \notin returned
           /\ Tail(todo) \in Seq(HashT)
           /\ NoTwice(Tail(todo))
           /\ \A n \in DOMAIN Tail(todo) :
                 Tail(todo)[n] # Head(todo) /\ Tail(todo)[n] \notin returned
<1>1. todo \in Seq(HashT)
  BY DEF Types
<1>2. /\ Len(todo) \in Nat \ {0} /\ DOMAIN todo = 1..Len(todo)
      /\ Head(todo) = todo[1] /\ Head(todo) \in HashT
      /\ Tail(todo) \in Seq(HashT) /\ DOMAIN Tail(todo) = 1..(Len(todo) - 1)
      /\ \A n \in 1..(Len(todo) - 1) : Tail(todo)[n] = todo[n + 1]
  BY <1>1, EmptySeq, LenProperties, HeadTailProperties
<1>3. \A n \in DOMAIN Tail(todo) :
         /\ n \in Nat /\ n + 1 \in DOMAIN todo /\ n + 1 # 1
         /\ Tail(todo)[n] = todo[n + 1]
  BY <1>2
<1>4. 1 \in DOMAIN todo
  BY <1>2
<1>5. NoTwice(Tail(todo))
  <2> SUFFICES \A m, n \in DOMAIN Tail(todo) :
                  Tail(todo)[m] = Tail(todo)[n] => m = n
    BY DEF NoTwice
  <2> TAKE m, n \in DOMAIN Tail(todo)
  <2> HAVE Tail(todo)[m] = Tail(todo)[n]
  <2>1. m + 1 = n + 1
    BY <1>3 DEF Types, NoTwice
  <2> QED BY <1>3, <2>1
<1>6. \A n \in DOMAIN Tail(todo) :
         Tail(todo)[n] # Head(todo) /\ Tail(todo)[n] \notin returned
  <2> TAKE n \in DOMAIN Tail(todo)
  <2>1. todo[n + 1] # todo[1] /\ todo[n + 1] \notin returned
    BY <1>3, <1>4 DEF Types, NoTwice
  <2> QED BY <1>2, <1>3, <2>1
<1> QED BY <1>2, <1>4, <1>5, <1>6 DEF Types

(* An identifier that returns has given its answer.                        *)
LEMMA IdentifiedStep ==
    ASSUME IInv, todo # <<>>, ReadTuple(Head(todo)),
           Identified(Head(todo), Answer(Head(todo))),
           UNCHANGED <<identifiers, viewkey, tx>>
    PROVE  IInv'
<1> DEFINE h == Head(todo)
<1>1. /\ h \in HashT /\ h \notin returned
      /\ Tail(todo) \in Seq(HashT)
      /\ NoTwice(Tail(todo))
      /\ \A n \in DOMAIN Tail(todo) :
            Tail(todo)[n] # Head(todo) /\ Tail(todo)[n] \notin returned
  BY RestFacts DEF IInv
<1>2. Answer(h) \in {None} \cup {Some(id) : id \in Id}
  BY <1>1, AnswerType DEF IInv
<1>3. /\ todo' = Tail(todo) /\ returned' = returned \cup {h}
      /\ payment_id' = [payment_id EXCEPT ![h] = Answer(h)]
      /\ raw' = [raw EXCEPT ![h] = GetPaymentId(tx, h)]
  BY DEF Identified, ReadTuple
<1>4. \A g \in HashT : Answer(g)' = Answer(g)
  BY DEF Answer, SharedPad
<1> HIDE DEF h
<1>5. payment_id' \in [HashT -> {None} \cup {Some(id) : id \in Id}]
      /\ DOMAIN raw' = HashT
  BY <1>1, <1>2, <1>3 DEF IInv, Types
<1>6. \A n \in DOMAIN todo' : todo'[n] \notin returned'
  BY <1>1, <1>3 DEF h
<1>7. Types'
  <2>1. /\ identifiers' \in Seq(HashT)
        /\ NoTwice(identifiers')
        /\ viewkey' \in Keys \cup {NoKey}
        /\ tx' \in Tx
    BY DEF IInv, Types
  <2>2. returned' \subseteq HashT
    BY <1>1, <1>3 DEF IInv, Types
  <2>3. NoTwice(todo')
    BY <1>1, <1>3
  <2> QED BY <1>1, <1>3, <1>5, <1>6, <2>1, <2>2, <2>3 DEF Types
<1>8. \A g \in returned' :
         raw'[g] = GetPaymentId(tx', g) /\ payment_id'[g] = Answer(g)'
  <2> TAKE g \in returned'
  <2>1. CASE g = h
    BY <1>1, <1>3, <1>4, <2>1 DEF IInv, Types
  <2>2. CASE g # h
    BY <1>1, <1>3, <1>4, <2>2 DEF IInv, Types
  <2> QED BY <2>1, <2>2
<1> QED BY <1>7, <1>8 DEF IInv

(* One that throws has answered nothing, and ends the call.                *)
LEMMA CantDecryptStep ==
    ASSUME IInv, todo # <<>>, ReadTuple(Head(todo)), CantDecrypt(Head(todo)),
           UNCHANGED <<identifiers, viewkey, tx>>
    PROVE  IInv'
<1> DEFINE h == Head(todo)
<1>1. h \in HashT /\ h \notin returned
  BY RestFacts DEF IInv
<1>2. GetPaymentId(tx, h) \in Id
  BY GetPaymentIdType DEF IInv, Types
<1>3. /\ todo' = <<>> /\ returned' = returned
      /\ payment_id' = [payment_id EXCEPT ![h] = Some(GetPaymentId(tx, h))]
      /\ raw' = [raw EXCEPT ![h] = GetPaymentId(tx, h)]
  BY DEF CantDecrypt, ReadTuple
<1>4. \A g \in HashT : Answer(g)' = Answer(g)
  BY DEF Answer, SharedPad
<1> HIDE DEF h
<1>5. payment_id' \in [HashT -> {None} \cup {Some(id) : id \in Id}]
      /\ DOMAIN raw' = HashT
  BY <1>1, <1>2, <1>3 DEF IInv, Types
<1>6. todo' \in Seq(HashT) /\ DOMAIN todo' = {}
  BY <1>3
<1>7. Types'
  <2>1. /\ identifiers' \in Seq(HashT)
        /\ NoTwice(identifiers')
        /\ viewkey' \in Keys \cup {NoKey}
        /\ tx' \in Tx
    BY DEF IInv, Types
  <2>2. returned' \subseteq HashT
    BY <1>3 DEF IInv, Types
  <2>3. NoTwice(todo')
    BY <1>6 DEF NoTwice
  <2> QED BY <1>5, <1>6, <2>1, <2>2, <2>3 DEF Types
<1>8. \A g \in returned' :
         raw'[g] = GetPaymentId(tx', g) /\ payment_id'[g] = Answer(g)'
  <2> TAKE g \in returned'
  <2>1. g # h /\ g \in HashT
    BY <1>1, <1>3 DEF IInv, Types
  <2> QED BY <1>3, <1>4, <2>1 DEF IInv, Types
<1> QED BY <1>7, <1>8 DEF IInv

LEMMA NextIInv == IInv /\ [Next]_vars => IInv'
<1> SUFFICES ASSUME IInv, [Next]_vars PROVE IInv'
  OBVIOUS
<1>1. CASE NextCall
  BY <1>1 DEF NextCall, IInv, Types
<1>2. CASE Identify
  <2>1. /\ todo # <<>> /\ ReadTuple(Head(todo))
        /\ UNCHANGED <<identifiers, viewkey, tx>>
    BY <1>2 DEF Identify
  <2>2. Head(todo) \in HashT
    BY <2>1, RestFacts DEF IInv
  <2>3. CASE NotFound(Head(todo))
    <3>1. Identified(Head(todo), Answer(Head(todo)))
      BY <2>3 DEF NotFound, Answer
    <3> QED BY <2>1, <3>1, IdentifiedStep
  <2>4. CASE FoundLegacy(Head(todo))
    <3>1. Identified(Head(todo), Answer(Head(todo)))
      BY <2>4 DEF FoundLegacy, Answer
    <3> QED BY <2>1, <3>1, IdentifiedStep
  <2>5. CASE Decrypted(Head(todo))
    <3>1. Identified(Head(todo), Answer(Head(todo)))
      BY <2>5 DEF Decrypted, Answer
    <3> QED BY <2>1, <3>1, IdentifiedStep
  <2>6. CASE CantDecrypt(Head(todo))
    BY <2>1, <2>6, CantDecryptStep
  <2> QED BY <1>2, <2>3, <2>4, <2>5, <2>6 DEF Identify
<1>3. CASE UNCHANGED vars
  BY <1>3 DEF vars, IInv, Types, Answer, SharedPad
<1> QED BY <1>1, <1>2, <1>3 DEF Next

LEMMA Invariant == Spec => []IInv
  BY InitIInv, NextIInv, PTL DEF Spec

-----------------------------------------------------------------------------
(* The types, and that raw() tells the field of the transaction.           *)
THEOREM TypeCorrect == Spec => []TypeOK
<1>1. IInv => TypeOK
  BY DEF IInv, Types, TypeOK
<1> QED BY <1>1, Invariant, PTL

(* An answer never comes from an earlier transaction.                      *)
THEOREM NeverStale == Spec => []NothingStale
<1>1. IInv => NothingStale
  <2> SUFFICES ASSUME IInv, NEW h \in returned, payment_id[h] # None
               PROVE  /\ tx.nonce = h /\ tx.id # null_hash
                      /\ h = "long" => payment_id[h] = Some(tx.id)
    BY DEF NothingStale
  <2>1. payment_id[h] = Answer(h)
    BY DEF IInv
  <2>2. GetPaymentId(tx, h) # null_hash
    BY <2>1 DEF Answer
  <2>3. tx.nonce = h /\ GetPaymentId(tx, h) = tx.id
    BY <2>2 DEF GetPaymentId
  <2> QED BY <2>1, <2>2, <2>3 DEF Answer
<1> QED BY <1>1, Invariant, PTL

(* The recipient of a short id always reads what was sent.                 *)
THEOREM RecipientAlwaysReads == Spec => []RecipientReads
<1>1. IInv => RecipientReads
  <2> SUFFICES ASSUME IInv, "short" \in returned, tx.nonce = "short",
                      viewkey # NoKey, Len(tx.pubs) \in 1..2, NEW sent \in Id,
                      tx.id = Encrypted(sent, tx.pubs, viewkey)
               PROVE  payment_id["short"]
                        = IF tx.id = null_hash THEN None ELSE Some(sent)
    BY DEF RecipientReads
  <2>1. /\ payment_id["short"] = Answer("short")
        /\ GetPaymentId(tx, "short") = tx.id
    BY DEF IInv, GetPaymentId
  <2>2. TxPubKey(tx.pubs) = tx.pubs[Len(tx.pubs)]
    <3>1. tx.pubs # <<>>
      BY DEF IInv
    <3> QED BY <3>1 DEF TxPubKey
  <2>3. Xor(tx.id, SharedPad) = sent
    BY <2>2, XorTwice DEF Encrypted, SharedPad
  <2> QED BY <2>1, <2>3 DEF Answer
<1> QED BY <1>1, Invariant, PTL
=============================================================================
