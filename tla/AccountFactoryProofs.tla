------------------------ MODULE AccountFactoryProofs ------------------------
(***************************************************************************)
(* The account factory for every address, word length, lookahead and       *)
(* derivation of keys: the client never holds an account of the wrong      *)
(* kind, the conversion to a PrimaryAccount loses nothing, each key in its *)
(* book is filed under the wallet's index, and it searches its window.     *)
(***************************************************************************)
EXTENDS AccountFactory, FiniteSetTheorems, TLAPS

Fields == {"type", "spend", "is_subaddress", "viewkey", "spendkey", "index",
           "book", "parsed"}

(* An account is a record of these fields, with an index of words.         *)
IsAccount(a) == a = [f \in Fields |-> a[f]] /\ a.index \subseteq Index

AtMostOne(held) == held = {} \/ \E a : held = {a}

IInv ==
    /\ AtMostOne(acc) /\ AtMostOne(pacc) /\ AtMostOne(sub)
    /\ \A a \in acc \cup pacc \cup sub : IsAccount(a)
    /\ \A a \in pacc : a.type = "PRIMARY" /\ a.viewkey = TRUE
    /\ \A a \in sub : a.type = "SUBADDRESS"
    /\ aborted \in BOOLEAN

-----------------------------------------------------------------------------
(* A new account.                                                          *)
LEMMA RecordFacts ==
    ASSUME NEW type, NEW info, NEW viewkey, NEW spendkey
    PROVE  LET a == AccountRecord(type, info, viewkey, spendkey)
           IN  /\ IsAccount(a)
               /\ a.type = type
               /\ a.viewkey = (viewkey = "key")
<1> DEFINE a == AccountRecord(type, info, viewkey, spendkey)
<1>1. a.index \subseteq Index
  BY FactoryAssumption DEF Index, AccountRecord
<1>2. a.type = type /\ a.viewkey = (viewkey = "key")
  BY DEF AccountRecord
<1>3. a = [f \in Fields |-> a[f]]
  BY DEF AccountRecord, Fields
<1> QED BY <1>1, <1>2, <1>3 DEF IsAccount

(* Registering keys changes nothing but the book.                          *)
LEMMA BookChanged ==
    ASSUME NEW a, IsAccount(a), NEW b
    PROVE  LET new == [a EXCEPT !.book = b]
           IN  /\ IsAccount(new) /\ new.book = b
               /\ new.type = a.type /\ new.viewkey = a.viewkey
  BY DEF IsAccount, Fields

LEMMA PopulatedFacts ==
    ASSUME NEW a, IsAccount(a)
    PROVE  /\ IsAccount(Populated(a))
           /\ Populated(a).type = a.type
           /\ Populated(a).viewkey = a.viewkey
           /\ Populated(a) = [a EXCEPT !.book = Populated(a).book]
           /\ a.book.subaddresses \subseteq Populated(a).book.subaddresses
<1> DEFINE b == Book(a.spend)!PopulateSubaddressIndices(a.book, 0,
                                                        LOOKAHEAD_MAJOR)
<1>1. Populated(a) = [a EXCEPT !.book = b]
  BY SMT DEF Populated
<1>2. a.book.subaddresses \subseteq b.subaddresses
  BY SMT DEF Book!PopulateSubaddressIndices, Book!Insert
<1> HIDE DEF b
<1> QED BY <1>1, <1>2, BookChanged

LEMMA WithIndexFacts ==
    ASSUME NEW a, IsAccount(a), NEW idx, idx \subseteq Index
    PROVE  IsAccount(WithIndex(a, idx)) /\ WithIndex(a, idx).type = a.type
  BY DEF WithIndex, IsAccount, Fields

LEMMA GeneratedFacts ==
    ASSUME NEW a, NEW idx \in Index
    PROVE  /\ IsAccount(Generated(a, idx))
           /\ Generated(a, idx).type = "SUBADDRESS"
<1> DEFINE info == [spend |-> GetSubaddress(a, idx), is_subaddress |-> TRUE]
           sk == IF a.spendkey THEN "key" ELSE "none"
           r == AccountRecord("SUBADDRESS", info, "key", sk)
           parsed == a.parsed
<1>1. IsAccount(r) /\ r.type = "SUBADDRESS"
  BY RecordFacts
<1>2. Generated(a, idx) = [r EXCEPT !.index = {idx}, !.parsed = parsed]
  BY DEF Generated
<1> HIDE DEF r, parsed
<1> QED BY <1>1, <1>2 DEF IsAccount, Fields

(* A parsed index is a pair of words.                                      *)
LEMMA ParsedIndexType ==
    ASSUME NEW parts \in IndexTexts
    PROVE  ParseSubaddressIndex(parts) \subseteq Index
<1> SUFFICES ASSUME Len(parts) = 2,
                    Range(parts) \subseteq -UINT32_MAX..UINT32_MAX
             PROVE  <<LexicalCast(parts[1]), LexicalCast(parts[2])>> \in Index
  BY DEF ParseSubaddressIndex
<1>1. parts \in Seq(Int)
  BY FactoryAssumption
<1>2. 1 \in DOMAIN parts /\ 2 \in DOMAIN parts
  BY <1>1
<1>3. /\ parts[1] \in -UINT32_MAX..UINT32_MAX
      /\ parts[2] \in -UINT32_MAX..UINT32_MAX
  BY <1>2 DEF Range
<1>4. UINT32_MAX \in Nat
  BY FactoryAssumption
<1>5. ASSUME NEW n \in -UINT32_MAX..UINT32_MAX
      PROVE  LexicalCast(n) \in 0..UINT32_MAX
  BY <1>4 DEF LexicalCast
<1> QED BY <1>3, <1>5 DEF Index

-----------------------------------------------------------------------------
(* An action that gives the client at most one new account.                *)
LEMMA AccReplaced ==
    ASSUME IInv, UNCHANGED <<pacc, sub, aborted>>,
           \/ acc' = {}
           \/ \E a : IsAccount(a) /\ acc' = {a}
    PROVE  IInv'
<1>1. AtMostOne(acc)' /\ \A a \in acc' : IsAccount(a)
  BY DEF AtMostOne
<1> QED BY <1>1 DEF IInv, AtMostOne, IsAccount

LEMMA PaccReplaced ==
    ASSUME IInv, UNCHANGED sub, acc' \subseteq acc, aborted' \in BOOLEAN,
           \/ pacc' = {}
           \/ pacc' = pacc
           \/ \E a : /\ IsAccount(a) /\ a.type = "PRIMARY"
                     /\ a.viewkey = TRUE
                     /\ pacc' = {a}
    PROVE  IInv'
<1>1. AtMostOne(pacc)' /\ \A a \in pacc' : /\ IsAccount(a)
                                          /\ a.type = "PRIMARY"
                                          /\ a.viewkey = TRUE
  BY DEF AtMostOne, IInv
<1>2. AtMostOne(acc)'
  BY DEF AtMostOne, IInv
<1> QED BY <1>1, <1>2 DEF IInv, AtMostOne, IsAccount

(* One account's book is replaced.                                         *)
LEMMA BookReplaced ==
    ASSUME IInv, UNCHANGED <<sub, aborted>>, NEW b,
           \/ \E a \in acc : acc' = {[a EXCEPT !.book = b]} /\ UNCHANGED pacc
           \/ \E a \in pacc : pacc' = {[a EXCEPT !.book = b]} /\ UNCHANGED acc
    PROVE  IInv'
<1>1. CASE \E a \in acc : acc' = {[a EXCEPT !.book = b]} /\ UNCHANGED pacc
  <2>1. PICK a \in acc : acc' = {[a EXCEPT !.book = b]}
    BY <1>1
  <2>2. IsAccount([a EXCEPT !.book = b])
    BY BookChanged DEF IInv
  <2> QED BY <1>1, <2>1, <2>2, AccReplaced
<1>2. CASE \E a \in pacc : pacc' = {[a EXCEPT !.book = b]} /\ UNCHANGED acc
  <2>1. PICK a \in pacc : pacc' = {[a EXCEPT !.book = b]}
    BY <1>2
  <2>2. LET new == [a EXCEPT !.book = b]
        IN  IsAccount(new) /\ new.type = "PRIMARY" /\ new.viewkey = TRUE
    BY BookChanged DEF IInv
  <2> QED BY <1>2, <2>1, <2>2, PaccReplaced DEF IInv
<1> QED BY <1>1, <1>2

LEMMA NextIInv == IInv /\ [Next]_vars => IInv'
<1> SUFFICES ASSUME IInv, [Next]_vars PROVE IInv'
  OBVIOUS
<1>1. CASE MakeEmptyAccount
  <2>1. \E a : IsAccount(a) /\ acc' = {a}
    BY <1>1, RecordFacts DEF MakeEmptyAccount
  <2> QED BY <1>1, <2>1, AccReplaced DEF MakeEmptyAccount
<1>2. CASE MakeAccount
  <2>1. UNCHANGED <<pacc, sub, aborted>>
    BY <1>2 DEF MakeAccount
  <2>2. ASSUME NEW type, NEW info, NEW vk, NEW sk, NEW idx,
               idx \in {{}} \cup {{i} : i \in Indices}
        PROVE  IsAccount(WithIndex(AccountRecord(type, info, vk, sk), idx))
    <3>1. idx \subseteq Index
      BY <2>2, FactoryAssumption
    <3> QED BY <3>1, RecordFacts, WithIndexFacts
  <2>3. acc' = {} \/ \E a : IsAccount(a) /\ acc' = {a}
    BY <1>2, <2>2 DEF MakeAccount
  <2> QED BY <2>1, <2>3, AccReplaced
<1>3. CASE MakeAccountOfInfo
  <2>1. PICK info \in ParsedInfos, keys \in Keys,
             idx \in {{}} \cup {{i} : i \in Indices} :
          /\ acc' = IF ~info.valid THEN {}
                    ELSE {WithIndex(AccountRecord(TypeOf(info.is_subaddress),
                                              info, keys[1], keys[2]), idx)}
          /\ UNCHANGED <<pacc, sub, aborted>>
    BY <1>3 DEF MakeAccountOfInfo
  <2>2. idx \subseteq Index
    BY FactoryAssumption
  <2>3. IsAccount(WithIndex(AccountRecord(TypeOf(info.is_subaddress), info,
                                          keys[1], keys[2]), idx))
    BY <2>2, RecordFacts, WithIndexFacts
  <2> QED BY <2>1, <2>3, AccReplaced
<1>4. CASE MakePrimaryAccount
  <2>1. /\ UNCHANGED <<acc, sub>> /\ aborted' \in BOOLEAN
        /\ \/ pacc' = {} \/ pacc' = pacc
           \/ \E info, vk, sk :
                LET a == AccountRecord("PRIMARY", info, vk, sk)
                IN  a.viewkey = TRUE /\ pacc' = {Populated(a)}
    BY <1>4 DEF MakePrimaryAccount, NeedsViewkey, IInv
  <2>2. CASE pacc' = {} \/ pacc' = pacc
    BY <2>1, <2>2, PaccReplaced
  <2>3. ASSUME NEW info, NEW vk, NEW sk,
               AccountRecord("PRIMARY", info, vk, sk).viewkey = TRUE,
               pacc' = {Populated(AccountRecord("PRIMARY", info, vk, sk))}
        PROVE  IInv'
    <3> DEFINE a == AccountRecord("PRIMARY", info, vk, sk)
    <3>1. IsAccount(a) /\ a.type = "PRIMARY"
      BY RecordFacts
    <3> HIDE DEF a
    <3>2. /\ IsAccount(Populated(a)) /\ Populated(a).type = "PRIMARY"
          /\ Populated(a).viewkey = a.viewkey
      BY <3>1, PopulatedFacts
    <3>3. pacc' = {Populated(a)} /\ a.viewkey = TRUE
      BY <2>3 DEF a
    <3> QED BY <2>1, <3>2, <3>3, PaccReplaced
  <2> QED BY <2>1, <2>2, <2>3
<1>5. CASE MakePrimaryAccountOfInfo
  <2>1. PICK info \in ParsedInfos, keys \in Keys :
          /\ acc' = IF ~info.valid THEN {}
                    ELSE {[AccountRecord("PRIMARY", info, keys[1], keys[2])
                              EXCEPT !.parsed = TRUE]}
          /\ UNCHANGED <<pacc, sub, aborted>>
    BY <1>5 DEF MakePrimaryAccountOfInfo
  <2> DEFINE a == AccountRecord("PRIMARY", info, keys[1], keys[2])
  <2>2. IsAccount(a)
    BY RecordFacts
  <2>3. IsAccount([a EXCEPT !.parsed = TRUE])
    <3> HIDE DEF a
    <3> QED BY <2>2 DEF IsAccount, Fields
  <2> QED BY <2>1, <2>3, AccReplaced
<1>6. CASE Convert
  <2>0. CASE acc = {} /\ aborted' = TRUE /\ UNCHANGED <<acc, pacc, sub>>
    BY <2>0 DEF IInv, AtMostOne, IsAccount
  <2>5. SUFFICES ASSUME ~(acc = {} /\ aborted' = TRUE
                               /\ UNCHANGED <<acc, pacc, sub>>)
                 PROVE  IInv'
    BY <2>0
  <2>1. PICK a \in acc :
          /\ IF a.type # "PRIMARY"
             THEN pacc' = {} /\ UNCHANGED <<acc, aborted>>
             ELSE IF NeedsViewkey(a)
             THEN aborted' = TRUE /\ UNCHANGED <<acc, pacc>>
             ELSE acc' = {} /\ pacc' = {Populated(a)} /\ UNCHANGED aborted
          /\ UNCHANGED sub
    BY <1>6, <2>5 DEF Convert
  <2>2. IsAccount(a) /\ aborted \in BOOLEAN
    BY DEF IInv
  <2>3. CASE a.type = "PRIMARY" /\ ~NeedsViewkey(a)
    BY <2>1, <2>2, <2>3, PopulatedFacts, PaccReplaced DEF NeedsViewkey
  <2>4. CASE ~(a.type = "PRIMARY" /\ ~NeedsViewkey(a))
    BY <2>1, <2>2, <2>4, PaccReplaced
  <2> QED BY <2>3, <2>4
<1>7. CASE FoundOutput \/ AddIndex
  <2>1. /\ UNCHANGED <<sub, aborted>>
        /\ \E b :
            \/ \E a \in acc : acc' = {[a EXCEPT !.book = b]} /\ UNCHANGED pacc
            \/ \E a \in pacc : pacc' = {[a EXCEPT !.book = b]}
                               /\ UNCHANGED acc
    BY <1>7 DEF FoundOutput, AddIndex, ChangeBook, Primaries
  <2> QED BY <2>1, BookReplaced
<1>8. CASE GenSubaddress
  <2>0. PICK a \in Primaries(acc \cup pacc), parts \in IndexTexts :
        \E idx \in ParseSubaddressIndex(parts) :
          /\ sub' = {} \/ sub' = {Generated(a, idx)}
          /\ UNCHANGED <<acc, pacc, aborted>>
    BY <1>8 DEF GenSubaddress
  <2>1. PICK idx \in ParseSubaddressIndex(parts) :
          /\ sub' = {} \/ sub' = {Generated(a, idx)}
          /\ UNCHANGED <<acc, pacc, aborted>>
    BY <2>0
  <2>2. idx \in Index
    BY ParsedIndexType
  <2>3. \/ sub' = {}
        \/ \E new : IsAccount(new) /\ new.type = "SUBADDRESS" /\ sub' = {new}
    BY <2>1, <2>2, GeneratedFacts
  <2>4. AtMostOne(sub)' /\ \A x \in sub' : /\ IsAccount(x)
                                          /\ x.type = "SUBADDRESS"
    BY <2>3 DEF AtMostOne
  <2> QED BY <2>1, <2>4 DEF IInv, AtMostOne, IsAccount
<1>9. CASE UNCHANGED vars
  BY <1>9 DEF vars, IInv, AtMostOne, IsAccount
<1> QED BY <1>1, <1>2, <1>3, <1>4, <1>5, <1>6, <1>7, <1>8, <1>9 DEF Next

(* The invariant holds for ever.                                           *)
THEOREM Invariant == Spec => []IInv
<1>1. Init => IInv
  BY DEF Init, IInv, AtMostOne
<1> QED BY <1>1, NextIInv, PTL DEF Spec

(* Accounts are of the kind their holder may rely on, and their indices    *)
(* are words, whatever texts and addresses they were made of.              *)
THEOREM TypeCorrect == Spec => []TypeOK
<1>1. IInv => TypeOK
  <2> SUFFICES ASSUME IInv PROVE TypeOK
    OBVIOUS
  <2>1. ASSUME NEW held, AtMostOne(held) PROVE Cardinality(held) <= 1
    <3>1. CASE held = {}
      BY <3>1, FS_EmptySet
    <3>2. CASE \E a : held = {a}
      <4>1. PICK a : held = {a}
        BY <3>2
      <4>2. Cardinality({a}) = 1
        BY FS_Singleton
      <4> QED BY <4>1, <4>2
    <3> QED BY <2>1, <3>1, <3>2 DEF AtMostOne
  <2>2. \A a \in Accounts : a.index \subseteq Index
    BY DEF IInv, IsAccount, Accounts
  <2> QED BY <2>1, <2>2 DEF IInv, TypeOK
<1> QED BY <1>1, Invariant, PTL

(* The conversion to a PrimaryAccount loses neither an account that cannot *)
(* be converted nor an entry of one that can.                              *)
THEOREM ConversionNeverLoses == Spec => ConversionLosesNothing
<1> DEFINE Kept == \A a \in acc : \E b \in acc' \cup pacc' :
                      /\ b = [a EXCEPT !.book = b.book]
                      /\ a.book.subaddresses \subseteq b.book.subaddresses
<1>1. IInv /\ [Next]_vars => [Convert => Kept]_vars
  <2> SUFFICES ASSUME IInv, Convert, NEW a \in acc
               PROVE  \E b \in acc' \cup pacc' :
                        /\ b = [a EXCEPT !.book = b.book]
                        /\ a.book.subaddresses \subseteq b.book.subaddresses
    OBVIOUS
  <2>1. acc = {a} /\ IsAccount(a)
    BY DEF IInv, AtMostOne
  <2>2. CASE acc' = acc
    <3>1. a = [a EXCEPT !.book = a.book]
      BY <2>1 DEF IsAccount, Fields
    <3> QED BY <2>2, <3>1
  <2>3. CASE pacc' = {Populated(a)}
    BY <2>1, <2>3, PopulatedFacts
  <2>4. acc' = acc \/ pacc' = {Populated(a)}
    BY <2>1 DEF Convert
  <2> QED BY <2>2, <2>3, <2>4
<1> QED BY <1>1, Invariant, PTL DEF Spec, ConversionLosesNothing

-----------------------------------------------------------------------------
(* The books of the accounts: each key is filed under the wallet's index,  *)
(* and a PrimaryAccount searches its window.  Each account has a           *)
(* SubaddressBook of its own, of the spend key that it holds, so the       *)
(* lemmas about one book are stated here for all spend keys.               *)

(* What a book files an index under.                                       *)
DeviceEntry(spend, idx) == [key |-> DeviceKey[spend][idx], idx |-> idx]

Minors == 0..(LOOKAHEAD_MINOR - 1)

Word == 0..UINT32_MAX

(* The nth key of a batch is that of address begin + n.                    *)
LEMMA KeyOfBatch ==
    ASSUME NEW spend, NEW acc_id, NEW begin \in Int, NEW end \in Int,
           NEW n \in 0..(end - begin - 1)
    PROVE  Book(spend)!SpendPublicKeys(acc_id, begin, end)[n]
               = DeviceKey[spend][<<acc_id, begin + n>>]
  BY SMT DEF Book!SpendPublicKeys

(* The entries of an account are the keys that the device derives for it.  *)
LEMMA AccountEntries ==
    ASSUME NEW spend, NEW acc_id
    PROVE  \A e : e \in Book(spend)!EntriesOfAccount(acc_id) <=>
               \E minor \in Minors : e = DeviceEntry(spend, <<acc_id, minor>>)
<1> DEFINE keys == Book(spend)!SpendPublicKeys(acc_id, 0, LOOKAHEAD_MINOR)
<1>1. ASSUME NEW n \in Minors
      PROVE  keys[n] = DeviceKey[spend][<<acc_id, n>>]
  <2>1. n \in 0..(LOOKAHEAD_MINOR - 0 - 1) /\ 0 + n = n
    BY WindowAssumption, FactoryAssumption, SMT DEF Minors
  <2>2. keys[n] = DeviceKey[spend][<<acc_id, 0 + n>>]
    BY WindowAssumption, FactoryAssumption, <2>1, KeyOfBatch, SMT
  <2> QED BY <2>1, <2>2, SMT
<1> DEFINE entry(n) == [key |-> keys[n], idx |-> <<acc_id, n>>]
           es == Book(spend)!EntriesOfAccount(acc_id)
<1>2. \A e : e \in es <=>
                \E n \in Minors : e = entry(n)
  BY SMT DEF Book!EntriesOfAccount, Book!Entry, Minors
<1>3. \A n \in Minors : entry(n) = DeviceEntry(spend, <<acc_id, n>>)
  BY <1>1, SMT DEF DeviceEntry
<1> HIDE DEF keys, entry, es
<1>4. \A e : e \in es <=> \E minor \in Minors :
                  e = DeviceEntry(spend, <<acc_id, minor>>)
  BY <1>2, <1>3
<1> QED BY <1>4, SMT DEF es

(* Those of account 0 lack the primary address.                            *)
LEMMA AccountZeroEntries ==
    ASSUME NEW spend
    PROVE  \A e : e \in Book(spend)!EntriesOfAccountZero <=>
               \E minor \in Minors \ {0} : e = DeviceEntry(spend, <<0, minor>>)
<1> DEFINE keys == Book(spend)!SpendPublicKeys(0, 1, LOOKAHEAD_MINOR)
<1>1. ASSUME NEW n \in Minors \ {0}
      PROVE  keys[n - 1] = DeviceKey[spend][<<0, n>>]
  <2>1. n - 1 \in 0..(LOOKAHEAD_MINOR - 1 - 1) /\ 1 + (n - 1) = n
    BY WindowAssumption, FactoryAssumption, SMT DEF Minors
  <2>2. keys[n - 1] = DeviceKey[spend][<<0, 1 + (n - 1)>>]
    BY WindowAssumption, FactoryAssumption, <2>1, KeyOfBatch, SMT
  <2> QED BY <2>1, <2>2, SMT
<1>2. 1..(LOOKAHEAD_MINOR - 1) = Minors \ {0}
  BY WindowAssumption, FactoryAssumption, SMT DEF Minors
<1> DEFINE entry(n) == [key |-> keys[n - 1], idx |-> <<0, n>>]
           es == Book(spend)!EntriesOfAccountZero
<1>3. \A e : e \in es <=>
                \E n \in Minors \ {0} : e = entry(n)
  BY <1>2, SMT DEF Book!EntriesOfAccountZero, Book!Entry
<1>4. \A n \in Minors \ {0} : entry(n) = DeviceEntry(spend, <<0, n>>)
  BY <1>1, SMT DEF DeviceEntry
<1> HIDE DEF keys, entry, es
<1>5. \A e : e \in es <=> \E minor \in Minors \ {0} :
                  e = DeviceEntry(spend, <<0, minor>>)
  BY <1>3, <1>4
<1> QED BY <1>5, SMT DEF es

(* What a populate registers: entries of the device, those of the accounts *)
(* it is asked for, but the primary address.                               *)
LEMMA EntriesFromFacts ==
    ASSUME NEW spend, NEW start \in Word, NEW last \in Word
    PROVE  /\ \A e \in Book(spend)!EntriesFrom(start, last) :
                 \E idx \in Index : e = DeviceEntry(spend, idx)
           /\ \A acc_id \in start..(last - 1), minor \in Minors :
                 \/ acc_id = 0 /\ minor = 0
                 \/ DeviceEntry(spend, <<acc_id, minor>>)
                        \in Book(spend)!EntriesFrom(start, last)
<1> DEFINE es == Book(spend)!EntriesFrom(start, last)
           zero == Book(spend)!EntriesOfAccountZero
           of(acc_id) == Book(spend)!EntriesOfAccount(acc_id)
<1>1. es = (IF start = 0 THEN zero ELSE {})
              \cup UNION {of(acc_id) : acc_id \in (start..(last - 1)) \ {0}}
  BY SMT DEF Book!EntriesFrom
<1>2. \A e : e \in zero <=> \E minor \in Minors \ {0} :
                                e = DeviceEntry(spend, <<0, minor>>)
  BY AccountZeroEntries
<1>3. \A acc_id, e : e \in of(acc_id) <=>
          \E minor \in Minors : e = DeviceEntry(spend, <<acc_id, minor>>)
  BY AccountEntries
<1> HIDE DEF es, zero, of
<1>4. ASSUME NEW e \in es
      PROVE  \E idx \in Index : e = DeviceEntry(spend, idx)
  <2>1. \E acc_id \in Word, minor \in Minors :
            e = DeviceEntry(spend, <<acc_id, minor>>)
    <3>1. CASE start = 0 /\ e \in zero
      BY <1>2, <3>1, WindowAssumption, FactoryAssumption DEF Word
    <3>2. CASE \E acc_id \in start..(last - 1) : e \in of(acc_id)
      <4>1. start..(last - 1) \subseteq Word
        BY WindowAssumption, FactoryAssumption DEF Word
      <4> QED BY <1>3, <3>2, <4>1
    <3> QED BY <1>1, <1>4, <3>1, <3>2
  <2>2. \A acc_id \in Word, minor \in Minors : <<acc_id, minor>> \in Index
    BY WindowAssumption, FactoryAssumption DEF Word, Minors, Index
  <2> QED BY <2>1, <2>2
<1>5. ASSUME NEW acc_id \in start..(last - 1), NEW minor \in Minors,
             ~(acc_id = 0 /\ minor = 0)
      PROVE  DeviceEntry(spend, <<acc_id, minor>>) \in es
  <2>1. CASE acc_id = 0
    <3>1. start = 0
      BY <2>1, WindowAssumption, FactoryAssumption DEF Word
    <3>2. DeviceEntry(spend, <<acc_id, minor>>) \in zero
      BY <1>2, <1>5, <2>1
    <3> QED BY <1>1, <3>1, <3>2
  <2>2. CASE acc_id # 0
    <3>1. DeviceEntry(spend, <<acc_id, minor>>) \in of(acc_id)
      BY <1>3
    <3> QED BY <1>1, <2>2, <3>1
  <2> QED BY <2>1, <2>2
<1> QED BY <1>4, <1>5 DEF es

-----------------------------------------------------------------------------
(* The entries hold all subaddresses of the accounts below end.            *)
Covered(entries, spend, end) ==
    \A acc_id \in 0..(end - 1), minor \in Minors :
        DeviceEntry(spend, <<acc_id, minor>>) \in entries

(* The book of an account that holds the key spend: each key is filed      *)
(* under its index, the address itself is in it, and no account below the  *)
(* watermark has a hole.                                                   *)
Filed(entries, spend) ==
    \A e \in entries : \E idx \in Index : e = DeviceEntry(spend, idx)

GoodBook(book, spend) ==
    /\ book = [subaddresses |-> book.subaddresses,
               next_acc_id_to_populate |-> book.next_acc_id_to_populate]
    /\ Filed(book.subaddresses, spend)
    /\ DeviceEntry(spend, <<0, 0>>) \in book.subaddresses
    /\ book.next_acc_id_to_populate \in Word
    /\ Covered(book.subaddresses, spend, book.next_acc_id_to_populate)

(* Nothing is lost.                                                        *)
Grown(old, new, spend) ==
    GoodBook(new, spend) /\ old.subaddresses \subseteq new.subaddresses

(* Inserting refuses no key, as no two indices share one.                  *)
LEMMA InsertFiled ==
    ASSUME NEW spend \in DOMAIN DeviceKey, NEW old, NEW entries,
           Filed(old, spend), Filed(entries, spend)
    PROVE  /\ Filed(Book(spend)!Insert(old, entries), spend)
           /\ old \subseteq Book(spend)!Insert(old, entries)
           /\ entries \subseteq Book(spend)!Insert(old, entries)
<1> DEFINE new == Book(spend)!Insert(old, entries)
<1>1. new = old \cup {e \in entries : \A b \in old : b.key # e.key}
  BY SMT DEF Book!Insert
<1> HIDE DEF new
<1>2. ASSUME NEW e \in entries, NEW b \in old, b.key = e.key
      PROVE  e \in old
  <2>1. PICK i \in Index : e = DeviceEntry(spend, i)
    BY DEF Filed
  <2>2. PICK j \in Index : b = DeviceEntry(spend, j)
    BY DEF Filed
  <2>3. DeviceKey[spend][i] = DeviceKey[spend][j]
    BY <1>2, <2>1, <2>2 DEF DeviceEntry
  <2>4. i = j
    BY <2>3, WindowAssumption, FactoryAssumption
  <2> QED BY <2>1, <2>2, <2>4
<1>3. old \subseteq new /\ entries \subseteq new
  BY <1>1, <1>2
<1>4. Filed(new, spend)
  BY <1>1 DEF Filed
<1> QED BY <1>3, <1>4, SMT DEF new

(* Populating what follows a covered range covers up to the new end.       *)
LEMMA PopulateGood ==
    ASSUME NEW spend \in DOMAIN DeviceKey, NEW book, GoodBook(book, spend),
           NEW start \in Word, NEW last \in Word,
           Covered(book.subaddresses, spend, start)
    PROVE  LET new == Book(spend)!PopulateSubaddressIndices(book, start, last)
           IN  /\ Grown(book, new, spend)
               /\ Covered(new.subaddresses, spend, last)
<1> DEFINE es == Book(spend)!EntriesFrom(start, last)
           subs == Book(spend)!Insert(book.subaddresses, es)
           new == Book(spend)!PopulateSubaddressIndices(book, start, last)
<1>1. new = [subaddresses |-> subs, next_acc_id_to_populate |-> last]
  BY SMT DEF Book!PopulateSubaddressIndices
<1>2. /\ Filed(es, spend)
      /\ \A acc_id \in start..(last - 1), minor \in Minors :
            \/ acc_id = 0 /\ minor = 0
            \/ DeviceEntry(spend, <<acc_id, minor>>) \in es
  BY EntriesFromFacts, SMT DEF Filed
<1> HIDE DEF es
<1>3. /\ Filed(subs, spend)
      /\ book.subaddresses \subseteq subs
      /\ es \subseteq subs
  BY <1>2, InsertFiled, SMT DEF GoodBook
<1> HIDE DEF subs, new
<1>4. Covered(subs, spend, last)
  <2> SUFFICES ASSUME NEW acc_id \in 0..(last - 1), NEW minor \in Minors
               PROVE  DeviceEntry(spend, <<acc_id, minor>>) \in subs
    BY DEF Covered
  <2>1. CASE acc_id < start
    <3>1. acc_id \in 0..(start - 1)
      BY <2>1, WindowAssumption, FactoryAssumption DEF Word
    <3> QED BY <1>3, <3>1 DEF Covered
  <2>2. CASE acc_id >= start
    <3>1. acc_id \in start..(last - 1)
      BY <2>2, WindowAssumption, FactoryAssumption DEF Word
    <3>2. \/ acc_id = 0 /\ minor = 0
          \/ DeviceEntry(spend, <<acc_id, minor>>) \in es
      BY <1>2, <3>1
    <3> QED BY <1>3, <3>2 DEF GoodBook
  <2>3. acc_id < start \/ acc_id >= start
    BY WindowAssumption, FactoryAssumption DEF Word
  <2> QED BY <2>1, <2>2, <2>3
<1>5. /\ new.subaddresses = subs /\ new.next_acc_id_to_populate = last
      /\ new = [subaddresses |-> new.subaddresses,
                next_acc_id_to_populate |-> new.next_acc_id_to_populate]
  BY <1>1
<1>6. GoodBook(new, spend)
  BY <1>3, <1>4, <1>5 DEF GoodBook
<1>7. Grown(book, new, spend) /\ Covered(new.subaddresses, spend, last)
  BY <1>3, <1>4, <1>5, <1>6 DEF Grown
<1> QED BY <1>7, SMT DEF new

(* A find grows the book, whatever number of accounts it computes.         *)
LEMMA FoundGood ==
    ASSUME NEW spend \in DOMAIN DeviceKey, NEW book, GoodBook(book, spend),
           NEW major \in Word
    PROVE  Grown(book, Book(spend)!AfterFound(book, major), spend)
<1> DEFINE n == Book(spend)!NoOfNewAccounts(book, major)
           from == book.next_acc_id_to_populate
           last == Book(spend)!ToUInt32(from + n)
           new == Book(spend)!AfterFound(book, major)
           populated == Book(spend)!PopulateSubaddressIndices(book, from, last)
<1>1. new = book \/ new = populated
  BY SMT DEF Book!AfterFound, Book!ExpandSubaddresses
<1>2. last \in Word
  <2>1. n \in Int
    BY WindowAssumption, FactoryAssumption, SMT
       DEF Book!NoOfNewAccounts, Book!ToInt32, Book!ToUInt32, GoodBook, Word
  <2> HIDE DEF n
  <2> QED BY <2>1, WindowAssumption, FactoryAssumption, SMT
          DEF Book!ToUInt32, GoodBook, Word
<1>3. from \in Word /\ Covered(book.subaddresses, spend, from)
  BY DEF GoodBook
<1> HIDE DEF last, from
<1>4. Grown(book, populated, spend)
  BY <1>2, <1>3, PopulateGood, SMT
<1>5. Grown(book, book, spend)
  BY DEF Grown
<1> HIDE DEF new, populated
<1>6. Grown(book, new, spend)
  BY <1>1, <1>4, <1>5
<1> QED BY <1>6, SMT DEF new

(* So does an index that is registered by hand.                            *)
LEMMA AddIndexGood ==
    ASSUME NEW spend \in DOMAIN DeviceKey, NEW book, GoodBook(book, spend),
           NEW idx \in Index
    PROVE  Grown(book, Book(spend)!AddSubaddressIndex(book, idx), spend)
<1> DEFINE es == {DeviceEntry(spend, idx)}
           subs == Book(spend)!Insert(book.subaddresses, es)
           new == Book(spend)!AddSubaddressIndex(book, idx)
           next == book.next_acc_id_to_populate
<1>1. new = [book EXCEPT !.subaddresses = subs]
  BY SMT DEF Book!AddSubaddressIndex, Book!Entry, DeviceEntry
<1>2. Filed(es, spend)
  BY DEF Filed
<1> HIDE DEF es
<1>3. Filed(subs, spend) /\ book.subaddresses \subseteq subs
  BY <1>2, InsertFiled, SMT DEF GoodBook
<1> HIDE DEF subs, new
<1>4. new = [subaddresses |-> subs, next_acc_id_to_populate |-> next]
  BY <1>1 DEF GoodBook
<1>5. Covered(subs, spend, next)
  BY <1>3 DEF GoodBook, Covered
<1>6. GoodBook(new, spend)
  BY <1>3, <1>4, <1>5 DEF GoodBook
<1>7. Grown(book, new, spend)
  BY <1>3, <1>4, <1>6 DEF Grown
<1> QED BY <1>7, SMT DEF new

(* A new account finds its own address.                                    *)
LEMMA NewBookGood ==
    ASSUME NEW spend \in DOMAIN DeviceKey
    PROVE  GoodBook(NewBook("PRIMARY", spend), spend)
<1> DEFINE new == NewBook("PRIMARY", spend)
<1>1. new = [subaddresses |-> {DeviceEntry(spend, <<0, 0>>)},
             next_acc_id_to_populate |-> 0]
  BY SMT DEF NewBook, Book!NewAccount, Book!Entry, DeviceEntry
<1> HIDE DEF new
<1>2. <<0, 0>> \in Index /\ 0 \in Word /\ 0..(0 - 1) = {}
  BY WindowAssumption, FactoryAssumption DEF Index, Word
<1>3. Filed(new.subaddresses, spend)
  BY <1>1, <1>2 DEF Filed
<1>4. Covered(new.subaddresses, spend, 0)
  BY <1>2 DEF Covered
<1>5. GoodBook(new, spend)
  BY <1>1, <1>2, <1>3, <1>4 DEF GoodBook
<1> QED BY <1>5 DEF new

-----------------------------------------------------------------------------
(* An address that an account can be made of.                              *)
GoodInfo(info) ==
    /\ info.spend \in DOMAIN DeviceKey
    /\ info.is_subaddress \in BOOLEAN
    /\ ~info.is_subaddress => info.spend = Wallet

(* An account is what its address says.                                    *)
OfWallet(a) ==
    \/ /\ a.type = "PRIMARY" /\ a.is_subaddress = FALSE
       /\ a.spend = Wallet /\ a.index = {<<0, 0>>}
    \/ /\ a.type = "SUBADDRESS" /\ a.is_subaddress = TRUE
       /\ a.book.subaddresses = {}

Sane(a) ==
    /\ IsAccount(a)
    /\ a.type = "PRIMARY" => /\ a.spend \in DOMAIN DeviceKey
                             /\ GoodBook(a.book, a.spend)
    /\ a.parsed = TRUE \/ a.type = "NONE" \/ OfWallet(a)

(* What is parsed from a text is of the kind that its prefix tells.        *)
LEMMA TextGood ==
    ASSUME NEW text \in Texts, NEW a \in NettypeBasedOnAddress(text),
           NEW info \in ParseStrAddress(text)
    PROVE  GoodInfo(info) /\ info.is_subaddress = IsSubaddress(a)
<1>1. PICK x \in NettypeBasedOnAddress(text) :
          info = [spend |-> text.spend, is_subaddress |-> x[2] = "SUBADDRESS",
                  valid |-> TRUE]
  BY DEF ParseStrAddress
<1>2. x = a
  BY FactoryAssumption DEF NettypeBasedOnAddress
<1>3. a \in DOMAIN Prefix /\ Prefix[a] = text.prefix
  BY DEF NettypeBasedOnAddress
<1>4. info.spend = text.spend /\ info.is_subaddress = IsSubaddress(a)
  BY <1>1, <1>2 DEF IsSubaddress
<1> QED BY <1>3, <1>4, WalletAssumption DEF GoodInfo, IsSubaddress

(* So is what the client parsed before.                                    *)
LEMMA ParsedGood ==
    ASSUME NEW info \in ParsedInfos
    PROVE  GoodInfo(info)
<1>1. CASE info \in Infos
  BY <1>1, WalletAssumption DEF GoodInfo
<1>2. CASE \E text \in Texts : info \in AddrAndViewkeyFromString(text, "key")
  <2>1. PICK text \in Texts : info \in ParseStrAddress(text)
    BY <1>2 DEF AddrAndViewkeyFromString
  <2>2. PICK a \in NettypeBasedOnAddress(text) : TRUE
    BY <2>1 DEF ParseStrAddress
  <2> QED BY <2>1, <2>2, TextGood
<1> DEFINE parsed == UNION {AddrAndViewkeyFromString(text, "key") :
                              text \in Texts}
           generated == {x \in sub : x.spend \in DOMAIN DeviceKey}
           of(s) == [spend |-> s.spend, is_subaddress |-> TRUE, valid |-> TRUE]
<1>3. CASE \E s \in generated : info = of(s)
  BY <1>3 DEF GoodInfo
<1>4. ParsedInfos = Infos \cup parsed \cup {of(s) : s \in generated}
  BY DEF ParsedInfos
<1>5. info \in parsed =>
          \E text \in Texts : info \in AddrAndViewkeyFromString(text, "key")
  OBVIOUS
<1> HIDE DEF parsed, generated, of
<1> QED BY <1>1, <1>2, <1>3, <1>4, <1>5

(* The constructors, given the type that the address has.                  *)
LEMMA NewSane ==
    ASSUME NEW info, GoodInfo(info), NEW viewkey, NEW spendkey
    PROVE  LET a == AccountRecord(TypeOf(info.is_subaddress), info,
                                  viewkey, spendkey)
           IN  /\ Sane(a)
               /\ a.type = TypeOf(info.is_subaddress)
               /\ a.viewkey = (viewkey = "key")
<1> DEFINE type == TypeOf(info.is_subaddress)
           a == AccountRecord(type, info, viewkey, spendkey)
<1>1. IsAccount(a) /\ a.type = type /\ a.viewkey = (viewkey = "key")
  BY RecordFacts
<1>2. /\ a.spend = info.spend /\ a.is_subaddress = info.is_subaddress
      /\ a.book = NewBook(type, info.spend)
      /\ a.index = IF type = "PRIMARY" THEN {<<0, 0>>} ELSE {}
  BY DEF AccountRecord
<1>3. ASSUME info.is_subaddress = TRUE PROVE Sane(a)
  <2>1. type = "SUBADDRESS"
    BY <1>3 DEF TypeOf
  <2>2. a.book.subaddresses = {}
    BY <1>2, <2>1, SMT DEF NewBook
  <2> HIDE DEF a, type
  <2> QED BY <1>1, <1>2, <1>3, <2>1, <2>2 DEF Sane, OfWallet
<1>4. ASSUME info.is_subaddress = FALSE PROVE Sane(a)
  <2>1. type = "PRIMARY"
    BY <1>4 DEF TypeOf
  <2> HIDE DEF a, type
  <2>2. GoodBook(a.book, a.spend)
    BY <1>2, <2>1, NewBookGood DEF GoodInfo
  <2>3. a.spend = Wallet /\ a.spend \in DOMAIN DeviceKey
    BY <1>2, <1>4 DEF GoodInfo
  <2>4. OfWallet(a)
    BY <1>1, <1>2, <1>4, <2>1, <2>3 DEF OfWallet
  <2> QED BY <1>1, <2>1, <2>2, <2>3, <2>4 DEF Sane
<1> QED BY <1>1, <1>3, <1>4 DEF GoodInfo

(* make_primaryaccount of a parsed address, which may be a subaddress.     *)
LEMMA ParsedPrimarySane ==
    ASSUME NEW info, GoodInfo(info), NEW viewkey, NEW spendkey
    PROVE  LET a == AccountRecord("PRIMARY", info, viewkey, spendkey)
           IN  Sane([a EXCEPT !.parsed = TRUE])
<1> DEFINE a == AccountRecord("PRIMARY", info, viewkey, spendkey)
           b == [a EXCEPT !.parsed = TRUE]
<1>1. IsAccount(a) /\ a.type = "PRIMARY"
  BY RecordFacts
<1>2. a.spend = info.spend /\ a.book = NewBook("PRIMARY", info.spend)
  BY DEF AccountRecord
<1> HIDE DEF a
<1>3. /\ IsAccount(b) /\ b.parsed = TRUE /\ b.type = a.type
      /\ b.spend = a.spend /\ b.book = a.book
  BY <1>1 DEF IsAccount, Fields
<1>4. GoodBook(b.book, b.spend) /\ b.spend \in DOMAIN DeviceKey
  BY <1>2, <1>3, NewBookGood DEF GoodInfo
<1> HIDE DEF b
<1>5. Sane(b)
  BY <1>3, <1>4 DEF Sane
<1> QED BY <1>5 DEF a, b

(* make_account().                                                         *)
LEMMA EmptySane ==
    ASSUME NEW info
    PROVE  Sane(AccountRecord("NONE", info, "none", "none"))
  BY RecordFacts DEF Sane

(* An index given to make_account is not the wallet's to vouch for.        *)
LEMMA WithIndexSane ==
    ASSUME NEW a, Sane(a), NEW idx, idx \subseteq Index
    PROVE  Sane(WithIndex(a, idx))
<1>1. CASE a.type = "SUBADDRESS" /\ idx # {}
  <2> DEFINE b == [a EXCEPT !.index = idx]
  <2>1. /\ IsAccount(b) /\ b.type = a.type /\ b.spend = a.spend
        /\ b.is_subaddress = a.is_subaddress /\ b.book = a.book
        /\ b.parsed = a.parsed
    BY DEF Sane, IsAccount, Fields
  <2>2. b = WithIndex(a, idx)
    BY <1>1 DEF WithIndex
  <2> HIDE DEF b
  <2>3. Sane(b)
    BY <1>1, <2>1 DEF Sane, OfWallet
  <2> QED BY <2>2, <2>3
<1>2. CASE ~(a.type = "SUBADDRESS" /\ idx # {})
  BY <1>2 DEF WithIndex
<1> QED BY <1>1, <1>2

(* A primary account keeps what it is when its book grows.                 *)
LEMMA BookSane ==
    ASSUME NEW a, Sane(a), a.type = "PRIMARY",
           NEW book, Grown(a.book, book, a.spend)
    PROVE  LET b == [a EXCEPT !.book = book]
           IN  /\ Sane(b)
               /\ b.type = a.type /\ b.spend = a.spend /\ b.book = book
<1> DEFINE b == [a EXCEPT !.book = book]
<1>1. /\ IsAccount(b) /\ b.type = a.type /\ b.spend = a.spend
      /\ b.is_subaddress = a.is_subaddress /\ b.book = book
      /\ b.parsed = a.parsed /\ b.index = a.index
  BY DEF Sane, IsAccount, Fields
<1> HIDE DEF b
<1>2. Sane(b)
  BY <1>1 DEF Sane, OfWallet, Grown
<1>3. Sane(b) /\ b.type = a.type /\ b.spend = a.spend /\ b.book = book
  BY <1>1, <1>2
<1> QED BY <1>3 DEF b

(* An account as pacc may hold it.                                         *)
Searching(a) ==
    /\ a.type = "PRIMARY"
    /\ Covered(a.book.subaddresses, a.spend, LOOKAHEAD_MAJOR)

(* Populating an account makes it one that pacc may hold.                  *)
LEMMA PopulatedSane ==
    ASSUME NEW a, Sane(a), a.type = "PRIMARY"
    PROVE  Sane(Populated(a)) /\ Searching(Populated(a))
<1> DEFINE book == Book(a.spend)!PopulateSubaddressIndices(a.book, 0,
                                                           LOOKAHEAD_MAJOR)
           b == [a EXCEPT !.book = book]
<1>1. Populated(a) = b
  BY SMT DEF Populated
<1>2. a.spend \in DOMAIN DeviceKey /\ GoodBook(a.book, a.spend)
  BY DEF Sane
<1>3. /\ 0 \in Word /\ LOOKAHEAD_MAJOR \in Word
      /\ Covered(a.book.subaddresses, a.spend, 0)
  BY WindowAssumption, FactoryAssumption DEF Word, Covered
<1>4. /\ Grown(a.book, book, a.spend)
      /\ Covered(book.subaddresses, a.spend, LOOKAHEAD_MAJOR)
  BY <1>2, <1>3, PopulateGood, SMT
<1> HIDE DEF book
<1>5. Sane(b) /\ b.type = a.type /\ b.spend = a.spend /\ b.book = book
  BY <1>4, BookSane
<1> HIDE DEF b
<1> QED BY <1>1, <1>4, <1>5 DEF Searching

(* A generated subaddress has the index that it was derived from.          *)
LEMMA GeneratedSane ==
    ASSUME NEW a, Sane(a), a.type = "PRIMARY", NEW idx \in Index
    PROVE  LET s == Generated(a, idx)
           IN  /\ Sane(s)
               /\ s.index = {idx} /\ s.spend = DeviceKey[a.spend][idx]
               /\ s.parsed = a.parsed
<1> DEFINE info == [spend |-> GetSubaddress(a, idx), is_subaddress |-> TRUE]
           sk == IF a.spendkey THEN "key" ELSE "none"
           r == AccountRecord("SUBADDRESS", info, "key", sk)
           parsed == a.parsed
           s == [r EXCEPT !.index = {idx}, !.parsed = parsed]
<1>1. IsAccount(r) /\ r.type = "SUBADDRESS"
  BY RecordFacts
<1>2. /\ r.spend = DeviceKey[a.spend][idx] /\ r.is_subaddress = TRUE
      /\ r.book.subaddresses = {}
  BY SMT DEF AccountRecord, GetSubaddress, NewBook
<1>3. Generated(a, idx) = s
  BY DEF Generated
<1> HIDE DEF r, parsed
<1>4. /\ IsAccount(s) /\ s.type = r.type /\ s.spend = r.spend
      /\ s.is_subaddress = r.is_subaddress /\ s.book = r.book
      /\ s.index = {idx} /\ s.parsed = parsed
  BY <1>1 DEF IsAccount, Fields
<1> HIDE DEF s
<1>5. Sane(s)
  BY <1>1, <1>2, <1>4 DEF Sane, OfWallet
<1>6. /\ Sane(s) /\ s.index = {idx} /\ s.spend = DeviceKey[a.spend][idx]
      /\ s.parsed = a.parsed
  BY <1>2, <1>4, <1>5 DEF parsed
<1> HIDE DEF info, sk
<1> QED BY <1>3, <1>6

-----------------------------------------------------------------------------
(* A generated subaddress carries the wallet's index of its key.           *)
OwnIndex(s) ==
    s.parsed = TRUE \/ \A idx \in s.index : s.spend = DeviceKey[Wallet][idx]

(* What the client holds.                                                  *)
HeldInv ==
    /\ \A a \in acc \cup pacc \cup sub : Sane(a)
    /\ \A a \in pacc : Searching(a)
    /\ \A s \in sub : s.type = "SUBADDRESS" /\ OwnIndex(s)

(* A find, or an index registered by hand, leaves a sane account.          *)
LEMMA BooksGood ==
    ASSUME NEW a, Sane(a), a.type = "PRIMARY",
           NEW book \in BooksAfterFind(a) \cup BooksWithIndex(a)
    PROVE  Grown(a.book, book, a.spend)
<1>1. a.spend \in DOMAIN DeviceKey /\ GoodBook(a.book, a.spend)
  BY DEF Sane
<1>2. CASE book \in BooksAfterFind(a)
  <2>1. PICK e \in a.book.subaddresses :
               book = Book(a.spend)!AfterFound(a.book, e.idx[1])
    BY <1>2, SMT DEF BooksAfterFind
  <2>2. PICK idx \in Index : e = DeviceEntry(a.spend, idx)
    BY <1>1 DEF GoodBook, Filed
  <2>3. e.idx[1] \in Word
    BY <2>2 DEF DeviceEntry, Index, Word
  <2> QED BY <1>1, <2>1, <2>3, FoundGood, SMT
<1>3. CASE book \in BooksWithIndex(a)
  <2>1. PICK idx \in Indices :
               book = Book(a.spend)!AddSubaddressIndex(a.book, idx)
    BY <1>3, SMT DEF BooksWithIndex
  <2>2. idx \in Index
    BY FactoryAssumption
  <2> QED BY <1>1, <2>1, <2>2, AddIndexGood, SMT
<1> QED BY <1>2, <1>3

(* A book that grows covers what it covered.                               *)
LEMMA SearchingGrown ==
    ASSUME NEW a, Searching(a), NEW b, b.type = a.type, b.spend = a.spend,
           Grown(a.book, b.book, a.spend)
    PROVE  Searching(b)
  BY DEF Searching, Grown, Covered

(* The finds, and the indices registered by hand.                          *)
LEMMA ChangeHeld ==
    ASSUME HeldInv, FoundOutput \/ AddIndex
    PROVE  HeldInv'
<1>1. /\ UNCHANGED sub
      /\ \/ /\ UNCHANGED pacc
            /\ \E a \in Primaries(acc) :
                 \E book \in BooksAfterFind(a) \cup BooksWithIndex(a) :
                    acc' = {[a EXCEPT !.book = book]}
         \/ /\ UNCHANGED acc
            /\ \E a \in Primaries(pacc) :
                 \E book \in BooksAfterFind(a) \cup BooksWithIndex(a) :
                    pacc' = {[a EXCEPT !.book = book]}
  BY DEF FoundOutput, AddIndex, ChangeBook
<1>2. ASSUME NEW a, Sane(a), a.type = "PRIMARY",
             NEW book \in BooksAfterFind(a) \cup BooksWithIndex(a)
      PROVE  LET b == [a EXCEPT !.book = book]
             IN  Sane(b) /\ (Searching(a) => Searching(b))
  <2> DEFINE b == [a EXCEPT !.book = book]
  <2>1. Grown(a.book, book, a.spend)
    BY <1>2, BooksGood
  <2>2. Sane(b) /\ b.type = a.type /\ b.spend = a.spend /\ b.book = book
    BY <1>2, <2>1, BookSane
  <2> HIDE DEF b
  <2>3. Sane(b) /\ (Searching(a) => Searching(b))
    BY <2>1, <2>2, SearchingGrown
  <2> QED BY <2>3 DEF b
<1>3. CASE UNCHANGED pacc /\ \E a \in Primaries(acc) :
              \E book \in BooksAfterFind(a) \cup BooksWithIndex(a) :
                 acc' = {[a EXCEPT !.book = book]}
  <2>1. \A a \in acc' : Sane(a)
    BY <1>2, <1>3 DEF Primaries, HeldInv
  <2> QED BY <1>1, <1>3, <2>1 DEF HeldInv
<1>4. CASE UNCHANGED acc /\ \E a \in Primaries(pacc) :
              \E book \in BooksAfterFind(a) \cup BooksWithIndex(a) :
                 pacc' = {[a EXCEPT !.book = book]}
  <2>1. \A a \in pacc' : Sane(a) /\ Searching(a)
    BY <1>2, <1>4 DEF Primaries, HeldInv
  <2> QED BY <1>1, <1>4, <2>1 DEF HeldInv
<1> QED BY <1>1, <1>3, <1>4

(* The overloads that make an Account.                                     *)
LEMMA MakeHeld ==
    ASSUME HeldInv, MakeEmptyAccount \/ MakeAccount \/ MakeAccountOfInfo
                        \/ MakePrimaryAccountOfInfo
    PROVE  HeldInv'
<1>1. UNCHANGED <<pacc, sub>>
  BY DEF MakeEmptyAccount, MakeAccount, MakeAccountOfInfo,
         MakePrimaryAccountOfInfo
<1>2. ASSUME NEW info, GoodInfo(info), NEW viewkey, NEW spendkey,
             NEW idx \in {{}} \cup {{i} : i \in Indices}
      PROVE  Sane(WithIndex(AccountRecord(TypeOf(info.is_subaddress), info,
                                          viewkey, spendkey), idx))
  <2>1. idx \subseteq Index
    BY FactoryAssumption
  <2> QED BY <1>2, <2>1, NewSane, WithIndexSane
<1>3. \A a \in acc' : Sane(a)
  <2>1. CASE MakeEmptyAccount
    BY <2>1, EmptySane DEF MakeEmptyAccount
  <2>2. CASE MakeAccount
    <3>1. CASE acc' = {}
      BY <3>1
    <3>2. CASE acc' # {}
      <4>1. PICK text \in Texts, viewkey \in {"none", "key", "bad"},
                 spendkey \in {"none", "key", "bad"},
                 idx \in {{}} \cup {{i} : i \in Indices} :
               \E a \in NettypeBasedOnAddress(text),
                  info \in ParseStrAddress(text) :
                  acc' = {WithIndex(AccountRecord(TypeOf(IsSubaddress(a)),
                                       info, viewkey, spendkey), idx)}
        BY <2>2, <3>2 DEF MakeAccount
      <4>2. PICK a \in NettypeBasedOnAddress(text),
                 info \in ParseStrAddress(text) :
               acc' = {WithIndex(AccountRecord(TypeOf(IsSubaddress(a)),
                                    info, viewkey, spendkey), idx)}
        BY <4>1
      <4>3. /\ GoodInfo(info)
            /\ TypeOf(IsSubaddress(a)) = TypeOf(info.is_subaddress)
        BY TextGood
      <4>4. Sane(WithIndex(AccountRecord(TypeOf(IsSubaddress(a)), info,
                                         viewkey, spendkey), idx))
        BY <1>2, <4>3
      <4> QED BY <4>2, <4>4
    <3> QED BY <3>1, <3>2
  <2>3. CASE MakeAccountOfInfo
    <3>1. PICK info \in ParsedInfos, keys \in Keys,
               idx \in {{}} \cup {{i} : i \in Indices} :
             acc' = IF ~info.valid THEN {}
                    ELSE {WithIndex(AccountRecord(TypeOf(info.is_subaddress),
                                       info, keys[1], keys[2]), idx)}
      BY <2>3 DEF MakeAccountOfInfo
    <3>2. Sane(WithIndex(AccountRecord(TypeOf(info.is_subaddress), info,
                                       keys[1], keys[2]), idx))
      BY <1>2, ParsedGood
    <3> QED BY <3>1, <3>2
  <2>4. CASE MakePrimaryAccountOfInfo
    BY <2>4, ParsedGood, ParsedPrimarySane DEF MakePrimaryAccountOfInfo
  <2> QED BY <2>1, <2>2, <2>3, <2>4
<1> QED BY <1>1, <1>3 DEF HeldInv

(* make_primaryaccount of a text.                                          *)
LEMMA MakePrimaryHeld == HeldInv /\ MakePrimaryAccount => HeldInv'
<1> SUFFICES ASSUME HeldInv, MakePrimaryAccount PROVE HeldInv'
  OBVIOUS
<1>1. /\ UNCHANGED <<acc, sub>>
      /\ \/ pacc' = {} \/ pacc' = pacc
         \/ \E text \in Texts, viewkey, spendkey \in {"none", "key", "bad"} :
              \E a \in NettypeBasedOnAddress(text),
                 info \in ParseStrAddress(text) :
                /\ ~IsSubaddress(a)
                /\ pacc' = {Populated(AccountRecord("PRIMARY", info,
                                                    viewkey, spendkey))}
  BY DEF MakePrimaryAccount
<1>2. ASSUME NEW text \in Texts, NEW a \in NettypeBasedOnAddress(text),
             NEW info \in ParseStrAddress(text), ~IsSubaddress(a),
             NEW viewkey, NEW spendkey
      PROVE  LET p == AccountRecord("PRIMARY", info, viewkey, spendkey)
             IN  Sane(Populated(p)) /\ Searching(Populated(p))
  <2>1. GoodInfo(info) /\ TypeOf(info.is_subaddress) = "PRIMARY"
    BY <1>2, TextGood DEF TypeOf
  <2> DEFINE p == AccountRecord("PRIMARY", info, viewkey, spendkey)
  <2>2. Sane(p) /\ p.type = "PRIMARY"
    BY <2>1, NewSane
  <2> HIDE DEF p
  <2>3. Sane(Populated(p)) /\ Searching(Populated(p))
    BY <2>2, PopulatedSane
  <2> QED BY <2>3 DEF p
<1>3. \A a \in pacc' : Sane(a) /\ Searching(a)
  BY <1>1, <1>2 DEF HeldInv
<1> QED BY <1>1, <1>3 DEF HeldInv

(* make_primaryaccount of an Account.                                      *)
LEMMA ConvertHeld == HeldInv /\ Convert => HeldInv'
<1> SUFFICES ASSUME HeldInv, Convert PROVE HeldInv'
  OBVIOUS
<1>1. CASE UNCHANGED <<acc, pacc, sub>>
  BY <1>1 DEF HeldInv
<1>2. ASSUME NEW a \in acc, UNCHANGED sub,
             \/ acc' = acc /\ (pacc' = {} \/ pacc' = pacc)
             \/ a.type = "PRIMARY" /\ acc' = {} /\ pacc' = {Populated(a)}
      PROVE  HeldInv'
  <2>1. a.type = "PRIMARY" => Sane(Populated(a)) /\ Searching(Populated(a))
    BY PopulatedSane DEF HeldInv
  <2> QED BY <1>2, <2>1 DEF HeldInv
<1> QED BY <1>1, <1>2 DEF Convert

(* gen_subaddress.                                                         *)
LEMMA GenerateHeld == HeldInv /\ GenSubaddress => HeldInv'
<1> SUFFICES ASSUME HeldInv, GenSubaddress PROVE HeldInv'
  OBVIOUS
<1>1. PICK a \in Primaries(acc \cup pacc), parts \in IndexTexts :
        \E idx \in ParseSubaddressIndex(parts) :
          /\ sub' = {} \/ sub' = {Generated(a, idx)}
          /\ UNCHANGED <<acc, pacc>>
  BY DEF GenSubaddress
<1>2. PICK idx \in ParseSubaddressIndex(parts) :
          /\ sub' = {} \/ sub' = {Generated(a, idx)}
          /\ UNCHANGED <<acc, pacc>>
  BY <1>1
<1>3. idx \in Index
  BY ParsedIndexType
<1>4. Sane(a) /\ a.type = "PRIMARY"
  BY DEF HeldInv, Primaries
<1> DEFINE s == Generated(a, idx)
<1>5. /\ Sane(s) /\ s.type = "SUBADDRESS"
      /\ s.index = {idx} /\ s.spend = DeviceKey[a.spend][idx]
      /\ s.parsed = a.parsed
  BY <1>3, <1>4, GeneratedSane, GeneratedFacts
<1> HIDE DEF s
<1>6. a.parsed = TRUE \/ a.spend = Wallet
  BY <1>4 DEF Sane, OfWallet
<1>7. OwnIndex(s)
  BY <1>5, <1>6 DEF OwnIndex
<1>8. \A x \in sub' : Sane(x) /\ x.type = "SUBADDRESS" /\ OwnIndex(x)
  BY <1>2, <1>5, <1>7 DEF s
<1> QED BY <1>2, <1>8 DEF HeldInv, OwnIndex

(* What the client holds stays what its address says.                      *)
THEOREM HeldInvariant == Spec => []HeldInv
<1>1. Init => HeldInv
  BY DEF Init, HeldInv
<1>2. HeldInv /\ [Next]_vars => HeldInv'
  <2> SUFFICES ASSUME HeldInv, [Next]_vars PROVE HeldInv'
    OBVIOUS
  <2>1. CASE UNCHANGED vars
    BY <2>1 DEF vars, HeldInv
  <2> QED BY <2>1, MakeHeld, MakePrimaryHeld, ConvertHeld, ChangeHeld,
             GenerateHeld DEF Next
<1> QED BY <1>1, <1>2, PTL DEF Spec

(* An account is of the kind of its address, and gives the wallet's keys   *)
(* the wallet's indices, unless make_primaryaccount took a parsed address, *)
(* or the index is one that the caller of make_account gave.               *)
THEOREM IndicesAlwaysOfWallet == Spec => []IndicesAreOfWallet
<1>1. HeldInv => IndicesAreOfWallet
  <2> SUFFICES ASSUME HeldInv,
                      NEW a \in Accounts, ~a.parsed, a.type # "NONE"
               PROVE  /\ a.is_subaddress <=> a.type = "SUBADDRESS"
                      /\ \A e \in a.book.subaddresses :
                            e.key = DeviceKey[Wallet][e.idx]
                      /\ ~IndexFromCaller(a) =>
                            \A idx \in a.index :
                               a.spend = DeviceKey[Wallet][idx]
    BY DEF IndicesAreOfWallet
  <2>1. Sane(a) /\ OfWallet(a)
    BY DEF HeldInv, Accounts, Sane
  <2>2. CASE a.type = "PRIMARY"
    <3>1. \A e \in a.book.subaddresses : e.key = DeviceKey[Wallet][e.idx]
      BY <2>1, <2>2 DEF Sane, OfWallet, GoodBook, Filed, DeviceEntry
    <3>2. DeviceKey[Wallet][<<0, 0>>] = Wallet
      BY FactoryAssumption, WalletAssumption
    <3> QED BY <2>1, <2>2, <3>1, <3>2 DEF OfWallet
  <2>3. CASE a.type = "SUBADDRESS"
    BY <2>1, <2>3 DEF OfWallet, HeldInv, OwnIndex, IndexFromCaller
  <2> QED BY <2>1, <2>2, <2>3 DEF OfWallet
<1> QED BY <1>1, HeldInvariant, PTL

(* A PrimaryAccount of the factory searches the first window, and all      *)
(* accounts below its watermark.                                           *)
THEOREM WindowAlwaysCovered == Spec => []WindowOfPrimaryAccounts
<1>1. ASSUME NEW book, NEW spend, NEW end,
             Covered(book.subaddresses, spend, end)
      PROVE  Book(spend)!CoveredUpTo(book, end)
  BY <1>1, SMT DEF Covered, Book!CoveredUpTo, Book!Registered,
                   Book!RegisteredAddress, Book!Entry, DeviceEntry, Minors
<1>2. HeldInv => WindowOfPrimaryAccounts
  <2> SUFFICES ASSUME HeldInv, NEW a \in pacc
               PROVE  /\ Book(a.spend)!CoveredUpTo(a.book, LOOKAHEAD_MAJOR)
                      /\ Book(a.spend)!CoveredUpTo(a.book,
                                              a.book.next_acc_id_to_populate)
    BY SMT DEF WindowOfPrimaryAccounts
  <2>1. Sane(a) /\ Searching(a)
    BY DEF HeldInv
  <2>2. /\ Covered(a.book.subaddresses, a.spend, LOOKAHEAD_MAJOR)
        /\ Covered(a.book.subaddresses, a.spend,
                   a.book.next_acc_id_to_populate)
    BY <2>1 DEF Sane, Searching, GoodBook
  <2> QED BY <1>1, <2>2, SMT
<1> QED BY <1>2, HeldInvariant, PTL
=============================================================================
