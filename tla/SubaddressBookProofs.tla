------------------------ MODULE SubaddressBookProofs ------------------------
(***************************************************************************)
(* What the operations on the subaddress book preserve, for every size of  *)
(* the lookahead and every word length.                                    *)
(***************************************************************************)
EXTENDS SubaddressBook, FiniteSetTheorems, TLAPS

-----------------------------------------------------------------------------
(* Arithmetic.                                                             *)

(* A conversion to uint32_t yields a word.                                 *)
LEMMA ToUInt32Type ==
    ASSUME NEW n \in Int
    PROVE  ToUInt32(n) \in UInt32
  BY WordAssumption DEF ToUInt32, UInt32

(* A number that fits is not changed by the conversion.                    *)
LEMMA ToUInt32InRange ==
    ASSUME NEW n \in UInt32
    PROVE  ToUInt32(n) = n
  BY WordAssumption DEF ToUInt32, UInt32

(* A difference below half the word length survives the trip through an    *)
(* unsigned word: it is read back as it is.                                *)
LEMMA ToInt32Small ==
    ASSUME NEW n \in 0..(UINT32_MAX \div 2)
    PROVE  ToInt32(n) = n
<1>1. n \in UInt32
  BY WordAssumption DEF UInt32
<1>2. QED
  BY <1>1, ToUInt32InRange DEF ToInt32

(* The number of new accounts is an integer, never above the cap.          *)
LEMMA NoOfNewAccountsType ==
    ASSUME NEW a \in Account, NEW major \in UInt32
    PROVE  /\ NoOfNewAccounts(a, major) \in Int
           /\ NoOfNewAccounts(a, major) <= MAX_NEW_ACCOUNTS
<1> DEFINE missing == ToInt32(ToUInt32(major + LOOKAHEAD_MAJOR)
                                - a.next_acc_id_to_populate)
<1>1. ToUInt32(major + LOOKAHEAD_MAJOR) - a.next_acc_id_to_populate \in Int
  BY ToUInt32Type, WordAssumption, LookaheadAssumption DEF Account, UInt32
<1>2. missing \in Int
  BY <1>1, ToUInt32Type, WordAssumption DEF ToInt32, UInt32
<1> HIDE DEF missing
<1>3. NoOfNewAccounts(a, major)
        = IF missing < MAX_NEW_ACCOUNTS THEN missing ELSE MAX_NEW_ACCOUNTS
  BY DEF NoOfNewAccounts, missing
<1>4. QED
  BY <1>2, <1>3, LookaheadAssumption

-----------------------------------------------------------------------------
(* The map.                                                                *)

(* A set of entries as the map may hold: typed, each key under its index.  *)
Sound(entries) ==
    /\ entries \subseteq [key : Key, idx : Index]
    /\ \A e \in entries : e.key = SpendKey[e.idx]

(* Inserting sound entries loses nothing: an entry whose key was there is  *)
(* there already, since different indices have different keys.             *)
LEMMA InsertSound ==
    ASSUME NEW book, NEW entries, Sound(book), Sound(entries)
    PROVE  Sound(Insert(book, entries))
           /\ Insert(book, entries) = book \cup entries
<1>1. ASSUME NEW e \in entries, NEW b \in book, b.key = e.key
      PROVE  e \in book
  <2>1. /\ e \in [key : Key, idx : Index] /\ b \in [key : Key, idx : Index]
        /\ SpendKey[b.idx] = SpendKey[e.idx]
    BY <1>1 DEF Sound
  <2>2. b.idx = e.idx
    BY <2>1, SpendKeyAssumption
  <2>3. b = e
    BY <1>1, <2>1, <2>2
  <2> QED BY <2>3
<1>2. Insert(book, entries) = book \cup entries
  BY <1>1 DEF Insert
<1>3. QED
  BY <1>2 DEF Sound

(* The entry of an index is typed and sound.                               *)
LEMMA EntrySound ==
    ASSUME NEW idx \in Index
    PROVE  Sound({Entry(SpendKey[idx], idx)})
  BY DEF Sound, Entry, Key

LEMMA AddressIndex ==
    ASSUME NEW acc_id \in UInt32, NEW minor \in 0..(LOOKAHEAD_MINOR - 1)
    PROVE  <<acc_id, minor>> \in Index
  BY LookaheadAssumption, WordAssumption DEF UInt32, Index

(* The batch of account 0, shifted by one address, files every key under   *)
(* the index it belongs to.                                                *)
LEMMA AccountZeroEntries ==
    EntriesOfAccountZero = {Entry(SpendKey[<<0, minor>>], <<0, minor>>) :
                                minor \in 1..(LOOKAHEAD_MINOR - 1)}
<1>1. ASSUME NEW minor \in 1..(LOOKAHEAD_MINOR - 1)
      PROVE  SpendPublicKeys(0, 1, LOOKAHEAD_MINOR)[minor - 1]
                = SpendKey[<<0, minor>>]
  <2>1. /\ minor - 1 \in 0..(LOOKAHEAD_MINOR - 1 - 1)
        /\ 1 + (minor - 1) = minor
    BY LookaheadAssumption
  <2> QED BY <2>1 DEF SpendPublicKeys
<1> QED BY <1>1 DEF EntriesOfAccountZero

LEMMA AccountEntries ==
    ASSUME NEW acc_id \in UInt32
    PROVE  EntriesOfAccount(acc_id)
             = {Entry(SpendKey[<<acc_id, minor>>], <<acc_id, minor>>) :
                    minor \in 0..(LOOKAHEAD_MINOR - 1)}
<1>1. ASSUME NEW minor \in 0..(LOOKAHEAD_MINOR - 1)
      PROVE  SpendPublicKeys(acc_id, 0, LOOKAHEAD_MINOR)[minor]
                = SpendKey[<<acc_id, minor>>]
  <2>1. /\ minor \in 0..(LOOKAHEAD_MINOR - 0 - 1)
        /\ 0 + minor = minor
    BY LookaheadAssumption
  <2> QED BY <2>1 DEF SpendPublicKeys
<1> QED BY <1>1 DEF EntriesOfAccount

(* Any addresses of one account make sound entries of that account.        *)
LEMMA EntriesOfOneAccount ==
    ASSUME NEW acc_id \in UInt32,
           NEW minors, minors \subseteq 0..(LOOKAHEAD_MINOR - 1),
           NEW entries,
           entries = {Entry(SpendKey[<<acc_id, minor>>], <<acc_id, minor>>) :
                          minor \in minors}
    PROVE  Sound(entries) /\ \A e \in entries : e.idx[1] = acc_id
<1>1. ASSUME NEW e \in entries
      PROVE  /\ e \in [key : Key, idx : Index]
             /\ e.key = SpendKey[e.idx]
             /\ e.idx[1] = acc_id
  <2>1. PICK minor \in minors :
            e = Entry(SpendKey[<<acc_id, minor>>], <<acc_id, minor>>)
    OBVIOUS
  <2>2. <<acc_id, minor>> \in Index
    BY AddressIndex
  <2>3. e = [key |-> SpendKey[<<acc_id, minor>>], idx |-> <<acc_id, minor>>]
    BY <2>1 DEF Entry
  <2> QED BY <2>2, <2>3 DEF Key
<1> QED BY <1>1 DEF Sound

(* What one call of populate_subaddress_indices registers: sound entries   *)
(* of the accounts asked for, and all of them but the primary address.     *)
LEMMA EntriesFromSound ==
    ASSUME NEW start \in UInt32, NEW last \in UInt32
    PROVE  /\ Sound(EntriesFrom(start, last))
           /\ \A acc_id \in start..(last - 1) :
                \A minor \in 0..(LOOKAHEAD_MINOR - 1) :
                   \/ acc_id = 0 /\ minor = 0
                   \/ Entry(SpendKey[<<acc_id, minor>>], <<acc_id, minor>>)
                          \in EntriesFrom(start, last)
           /\ \A e \in EntriesFrom(start, last) :
                e.idx[1] \in start..(last - 1) \/ (e.idx[1] = 0 /\ start = 0)
<1> DEFINE accounts == (start..(last - 1)) \ {0}
<1>1. accounts \subseteq UInt32 /\ 0 \in UInt32
  BY WordAssumption DEF UInt32
<1>2. 1..(LOOKAHEAD_MINOR - 1) \subseteq 0..(LOOKAHEAD_MINOR - 1)
  BY LookaheadAssumption
<1>3. /\ Sound(EntriesOfAccountZero)
      /\ \A e \in EntriesOfAccountZero : e.idx[1] = 0
  <2> DEFINE minors == 1..(LOOKAHEAD_MINOR - 1)
  <2>1. minors \subseteq 0..(LOOKAHEAD_MINOR - 1)
    BY <1>2
  <2>2. EntriesOfAccountZero
            = {Entry(SpendKey[<<0, minor>>], <<0, minor>>) : minor \in minors}
    BY AccountZeroEntries
  <2> HIDE DEF minors
  <2> QED BY <1>1, <2>1, <2>2, EntriesOfOneAccount
<1>4. ASSUME NEW acc_id \in accounts
      PROVE  /\ Sound(EntriesOfAccount(acc_id))
             /\ \A e \in EntriesOfAccount(acc_id) : e.idx[1] = acc_id
  <2>1. acc_id \in UInt32
    BY <1>1
  <2>2. EntriesOfAccount(acc_id)
             = {Entry(SpendKey[<<acc_id, minor>>], <<acc_id, minor>>) :
                    minor \in 0..(LOOKAHEAD_MINOR - 1)}
    BY <2>1, AccountEntries
  <2> QED BY <2>1, <2>2, EntriesOfOneAccount
<1>5. Sound(EntriesFrom(start, last))
  BY <1>3, <1>4 DEF Sound, EntriesFrom
<1>6. ASSUME NEW acc_id \in start..(last - 1),
             NEW minor \in 0..(LOOKAHEAD_MINOR - 1),
             ~(acc_id = 0 /\ minor = 0)
      PROVE  Entry(SpendKey[<<acc_id, minor>>], <<acc_id, minor>>)
                 \in EntriesFrom(start, last)
  <2>1. CASE acc_id = 0
    <3>1. start = 0 /\ minor \in 1..(LOOKAHEAD_MINOR - 1)
      BY <2>1, <1>6, LookaheadAssumption DEF UInt32
    <3> QED BY <3>1, <2>1, AccountZeroEntries DEF EntriesFrom
  <2>2. CASE acc_id # 0
    <3>1. acc_id \in accounts
      BY <2>2
    <3>2. Entry(SpendKey[<<acc_id, minor>>], <<acc_id, minor>>)
             \in EntriesOfAccount(acc_id)
      BY <3>1, <1>1, AccountEntries
    <3> QED BY <3>1, <3>2 DEF EntriesFrom
  <2> QED BY <2>1, <2>2
<1>7. ASSUME NEW e \in EntriesFrom(start, last)
      PROVE  e.idx[1] \in start..(last - 1) \/ (e.idx[1] = 0 /\ start = 0)
  <2>1. \/ start = 0 /\ e \in EntriesOfAccountZero
        \/ \E acc_id \in accounts : e \in EntriesOfAccount(acc_id)
    BY <1>7 DEF EntriesFrom
  <2>2. CASE start = 0 /\ e \in EntriesOfAccountZero
    BY <2>2, <1>3
  <2>3. CASE \E acc_id \in accounts : e \in EntriesOfAccount(acc_id)
    <3>1. PICK acc_id \in accounts : e \in EntriesOfAccount(acc_id)
      BY <2>3
    <3>2. e.idx[1] = acc_id
      BY <3>1, <1>4
    <3> QED BY <3>2
  <2> QED BY <2>1, <2>2, <2>3
<1> QED BY <1>5, <1>6, <1>7

-----------------------------------------------------------------------------
(* The operations.                                                         *)

(* The account is what its class promises: a sound map, with the primary   *)
(* address and with every account below the watermark.                     *)
GoodAccount(a) ==
    /\ a \in Account
    /\ KeysMatch(a)
    /\ RegisteredAddress(a, <<0, 0>>)
    /\ CoveredUpTo(a, a.next_acc_id_to_populate)

(* The step from a to b keeps the promise and forgets no address.          *)
Extends(a, b) ==
    /\ GoodAccount(b)
    /\ a.subaddresses \subseteq b.subaddresses

(* A map that grows keeps the accounts it covers.                          *)
LEMMA CoveredMonotone ==
    ASSUME NEW a, NEW b, NEW end,
           a.subaddresses \subseteq b.subaddresses, CoveredUpTo(a, end)
    PROVE  CoveredUpTo(b, end)
  BY DEF CoveredUpTo, Registered, RegisteredAddress

LEMMA GoodIsSound ==
    ASSUME NEW a, GoodAccount(a)
    PROVE  Sound(a.subaddresses) /\ a.next_acc_id_to_populate \in UInt32
  BY DEF GoodAccount, Account, Book, KeysMatch, Sound

(* The constructor's account covers nothing but the primary address.       *)
LEMMA NewAccountGood == GoodAccount(NewAccount)
<1>1. 0 \in UInt32 /\ <<0, 0>> \in Index
  BY WordAssumption DEF UInt32, Index
<1>2. Sound({Entry(SpendKey[<<0, 0>>], <<0, 0>>)})
  BY <1>1, EntrySound
<1>3. /\ NewAccount.subaddresses = {Entry(SpendKey[<<0, 0>>], <<0, 0>>)}
      /\ NewAccount.next_acc_id_to_populate = 0
      /\ NewAccount \in Account
  BY <1>1, <1>2 DEF NewAccount, Account, Book, Sound
<1>4. CoveredUpTo(NewAccount, 0)
  BY DEF CoveredUpTo
<1> QED
  BY <1>2, <1>3, <1>4 DEF GoodAccount, KeysMatch, RegisteredAddress, Sound

(* Populating accounts start .. last - 1 when those below start are        *)
(* covered leaves everything below last covered.                           *)
LEMMA PopulateGood ==
    ASSUME NEW a, GoodAccount(a), NEW start \in UInt32, NEW last \in UInt32,
           CoveredUpTo(a, start)
    PROVE  /\ Extends(a, PopulateSubaddressIndices(a, start, last))
           /\ CoveredUpTo(PopulateSubaddressIndices(a, start, last), last)
<1> DEFINE b == PopulateSubaddressIndices(a, start, last)
           es == EntriesFrom(start, last)
<1>1. /\ b.subaddresses = Insert(a.subaddresses, es)
      /\ b.next_acc_id_to_populate = last
      /\ b = [subaddresses |-> Insert(a.subaddresses, es),
              next_acc_id_to_populate |-> last]
  BY DEF PopulateSubaddressIndices
<1>2. Sound(es) /\ Sound(a.subaddresses)
  BY EntriesFromSound, GoodIsSound
<1>3. Sound(b.subaddresses) /\ b.subaddresses = a.subaddresses \cup es
  BY <1>1, <1>2, InsertSound
<1>4. b \in Account /\ KeysMatch(b)
  BY <1>1, <1>3 DEF Account, Book, Sound, KeysMatch
<1>5. RegisteredAddress(b, <<0, 0>>)
  BY <1>3 DEF GoodAccount, RegisteredAddress
<1>6. CoveredUpTo(b, last)
  <2>1. SUFFICES ASSUME NEW acc_id \in 0..(last - 1),
                        NEW minor \in 0..(LOOKAHEAD_MINOR - 1)
                 PROVE  RegisteredAddress(b, <<acc_id, minor>>)
    BY DEF CoveredUpTo, Registered
  <2>2. CASE acc_id < start
    <3>1. acc_id \in 0..(start - 1)
      BY <2>2 DEF UInt32
    <3> QED
      BY <3>1, <1>3 DEF CoveredUpTo, Registered, RegisteredAddress
  <2>3. CASE ~(acc_id < start)
    <3>1. acc_id \in start..(last - 1)
      BY <2>3 DEF UInt32
    <3>2. \/ acc_id = 0 /\ minor = 0
          \/ Entry(SpendKey[<<acc_id, minor>>], <<acc_id, minor>>) \in es
      BY <3>1, EntriesFromSound
    <3> QED
      BY <3>2, <1>3, <1>5 DEF RegisteredAddress
  <2> QED BY <2>2, <2>3
<1> HIDE DEF b, es
<1>7. GoodAccount(b)
  BY <1>1, <1>4, <1>5, <1>6 DEF GoodAccount
<1> QED BY <1>3, <1>6, <1>7 DEF Extends, b

(* expand_subaddresses keeps the account good, and a new watermark it      *)
(* accepts is reached.                                                     *)
LEMMA ExpandGood ==
    ASSUME NEW a, GoodAccount(a), NEW new_acc_id \in UInt32
    PROVE  /\ Extends(a, ExpandSubaddresses(a, new_acc_id))
           /\ new_acc_id >= a.next_acc_id_to_populate =>
                 CoveredUpTo(ExpandSubaddresses(a, new_acc_id), new_acc_id)
<1>1. CASE new_acc_id < a.next_acc_id_to_populate
  <2>1. a.next_acc_id_to_populate \in Int /\ new_acc_id \in Int
    BY GoodIsSound, WordAssumption DEF UInt32
  <2> QED BY <1>1, <2>1 DEF ExpandSubaddresses, Extends
<1>2. CASE ~(new_acc_id < a.next_acc_id_to_populate)
  <2>1. /\ a.next_acc_id_to_populate \in UInt32
        /\ CoveredUpTo(a, a.next_acc_id_to_populate)
    BY GoodIsSound DEF GoodAccount
  <2> QED BY <1>2, <2>1, PopulateGood DEF ExpandSubaddresses
<1> QED BY <1>1, <1>2

(* add_subaddress_index                                                    *)
LEMMA AddIndexGood ==
    ASSUME NEW a, GoodAccount(a), NEW idx \in Index
    PROVE  Extends(a, AddSubaddressIndex(a, idx))
<1> DEFINE b == AddSubaddressIndex(a, idx)
           es == {Entry(SpendKey[idx], idx)}
<1>1. /\ b.subaddresses = Insert(a.subaddresses, es)
      /\ b.next_acc_id_to_populate = a.next_acc_id_to_populate
      /\ b = [subaddresses |-> Insert(a.subaddresses, es),
              next_acc_id_to_populate |-> a.next_acc_id_to_populate]
  BY DEF AddSubaddressIndex, GoodAccount, Account
<1>2. Sound(es) /\ Sound(a.subaddresses)
        /\ a.next_acc_id_to_populate \in UInt32
  BY EntrySound, GoodIsSound
<1> HIDE DEF b, es
<1>3. Sound(b.subaddresses) /\ b.subaddresses = a.subaddresses \cup es
  BY <1>1, <1>2, InsertSound
<1>4. b \in Account /\ KeysMatch(b)
  BY <1>1, <1>2, <1>3 DEF Account, Book, Sound, KeysMatch
<1>5. RegisteredAddress(b, <<0, 0>>)
  BY <1>3 DEF GoodAccount, RegisteredAddress
<1>6. CoveredUpTo(b, b.next_acc_id_to_populate)
  BY <1>1, <1>3, CoveredMonotone DEF GoodAccount
<1> QED BY <1>3, <1>4, <1>5, <1>6 DEF GoodAccount, Extends, b

(* Finding an output keeps the account good, whatever the 32-bit           *)
(* arithmetic makes of its account id.                                     *)
LEMMA AfterFoundGood ==
    ASSUME NEW a, GoodAccount(a), NEW major \in UInt32
    PROVE  Extends(a, AfterFound(a, major))
<1>1. a \in Account /\ a.next_acc_id_to_populate \in UInt32
  BY GoodIsSound DEF GoodAccount
<1>2. NoOfNewAccounts(a, major) \in Int
  BY <1>1, NoOfNewAccountsType
<1>3. ToUInt32(a.next_acc_id_to_populate + NoOfNewAccounts(a, major)) \in UInt32
  BY <1>1, <1>2, ToUInt32Type DEF UInt32
<1> QED
  BY <1>3, ExpandGood DEF AfterFound, Extends

(* ... and when the account id was not past the watermark, the lookahead   *)
(* is restored behind it.                                                     *)
LEMMA AfterFoundRestoresLookahead ==
    ASSUME NEW a, GoodAccount(a), NEW major \in UInt32,
           major <= a.next_acc_id_to_populate,
           major + LOOKAHEAD_MAJOR <= UINT32_MAX,
           LOOKAHEAD_MAJOR <= MAX_NEW_ACCOUNTS
    PROVE  CoveredUpTo(AfterFound(a, major), major + LOOKAHEAD_MAJOR)
<1> DEFINE nx == a.next_acc_id_to_populate
           end == major + LOOKAHEAD_MAJOR
<1>1. nx \in UInt32 /\ end \in UInt32 /\ nx \in Nat /\ end \in Nat
  BY GoodIsSound, LookaheadAssumption DEF UInt32
<1>2. CASE end <= nx
  <2>1. CoveredUpTo(a, end)
    BY <1>1, <1>2 DEF GoodAccount, CoveredUpTo
  <2> QED BY <2>1, AfterFoundGood, CoveredMonotone DEF Extends
<1>3. CASE end > nx
  <2>1. ToUInt32(end) = end
    BY <1>1, ToUInt32InRange
  <2>2. end - nx \in 1..LOOKAHEAD_MAJOR
    BY <1>1, <1>3, LookaheadAssumption DEF UInt32
  <2>3. LOOKAHEAD_MAJOR <= UINT32_MAX \div 2
    BY LookaheadAssumption, WordAssumption
  <2>4. end - nx \in 0..(UINT32_MAX \div 2)
    BY <2>2, <2>3, LookaheadAssumption, WordAssumption
  <2>5. ToInt32(ToUInt32(end) - nx) = end - nx
    BY <2>1, <2>4, ToInt32Small
  <2>6. NoOfNewAccounts(a, major) = end - nx
    BY <2>2, <2>5, LookaheadAssumption DEF NoOfNewAccounts
  <2>7. ToUInt32(nx + NoOfNewAccounts(a, major)) = end
    BY <1>1, <2>1, <2>6
  <2>8. AfterFound(a, major) = ExpandSubaddresses(a, end)
    BY <2>2, <2>6, <2>7 DEF AfterFound
  <2> QED BY <1>1, <1>3, <2>8, ExpandGood
<1> QED BY <1>1, <1>2, <1>3

(* A find keeps what was promised before and adds its own lookahead.       *)
LEMMA FindKeepsPromise ==
    ASSUME NEW a, GoodAccount(a), NEW major \in UInt32,
           NEW promised \in UInt32, CoveredUpTo(a, promised),
           LOOKAHEAD_MAJOR <= MAX_NEW_ACCOUNTS
    PROVE  /\ Extends(a, AfterFound(a, major))
           /\ PromisedAfter(promised, a, major) \in UInt32
           /\ CoveredUpTo(AfterFound(a, major), PromisedAfter(promised, a, major))
<1>1. Extends(a, AfterFound(a, major))
  BY AfterFoundGood
<1>2. CASE PromisedAfter(promised, a, major) = promised
  BY <1>1, <1>2, CoveredMonotone DEF Extends
<1>3. CASE PromisedAfter(promised, a, major) # promised
  <2>1. /\ major <= a.next_acc_id_to_populate
        /\ major + LOOKAHEAD_MAJOR <= UINT32_MAX
        /\ PromisedAfter(promised, a, major) = major + LOOKAHEAD_MAJOR
    BY <1>3 DEF PromisedAfter, OwedAfter
  <2>2. major + LOOKAHEAD_MAJOR \in UInt32
    BY <2>1, LookaheadAssumption, WordAssumption DEF UInt32
  <2> QED BY <1>1, <2>1, <2>2, AfterFoundRestoresLookahead
<1> QED BY <1>2, <1>3

(* One find adds the keys of at most MAX_NEW_ACCOUNTS accounts.            *)
LEMMA AfterFoundBounded ==
    ASSUME NEW a, GoodAccount(a), NEW major \in UInt32
    PROVE  /\ IsFiniteSet(AccountIds(AfterFound(a, major)) \ AccountIds(a))
           /\ Cardinality(AccountIds(AfterFound(a, major)) \ AccountIds(a))
                <= MAX_NEW_ACCOUNTS
<1> DEFINE nx == a.next_acc_id_to_populate
           n == NoOfNewAccounts(a, major)
           last == ToUInt32(nx + n)
           b == AfterFound(a, major)
           new == AccountIds(b) \ AccountIds(a)
<1>1. /\ a \in Account /\ nx \in UInt32 /\ Sound(a.subaddresses)
      /\ RegisteredAddress(a, <<0, 0>>)
  BY GoodIsSound DEF GoodAccount
<1>2. n \in Int /\ n <= MAX_NEW_ACCOUNTS
  BY <1>1, NoOfNewAccountsType
<1>3. CASE n > 0 /\ ~(last < nx)
  <2>1. last \in UInt32 /\ last <= nx + n
    BY <1>1, <1>2, <1>3, WordAssumption DEF UInt32, ToUInt32
  <2>2. b.subaddresses = Insert(a.subaddresses, EntriesFrom(nx, last))
    BY <1>3 DEF AfterFound, ExpandSubaddresses, PopulateSubaddressIndices
  <2>3. b.subaddresses = a.subaddresses \cup EntriesFrom(nx, last)
    BY <1>1, <2>1, <2>2, EntriesFromSound, InsertSound
  <2>4. 0 \in AccountIds(a)
    <3>1. /\ Entry(SpendKey[<<0, 0>>], <<0, 0>>) \in a.subaddresses
          /\ Entry(SpendKey[<<0, 0>>], <<0, 0>>).idx[1] = 0
      BY <1>1 DEF RegisteredAddress, Entry
    <3> QED BY <3>1 DEF AccountIds
  <2>5. new \subseteq nx..(last - 1)
    <3>1. ASSUME NEW acc_id \in new
          PROVE  acc_id \in nx..(last - 1)
      <4>1. PICK e \in EntriesFrom(nx, last) : acc_id = e.idx[1]
        BY <2>3 DEF AccountIds
      <4>2. e.idx[1] \in nx..(last - 1) \/ e.idx[1] = 0
        BY <1>1, <2>1, EntriesFromSound
      <4>3. acc_id # 0
        BY <2>4
      <4> QED BY <4>1, <4>2, <4>3
    <3> QED BY <3>1
  <2>6. /\ IsFiniteSet(nx..(last - 1))
        /\ Cardinality(nx..(last - 1)) <= MAX_NEW_ACCOUNTS
    <3>1. nx \in Int /\ last - 1 \in Int
      BY <1>1, <2>1 DEF UInt32
    <3> HIDE DEF nx, last, n
    <3>2. /\ IsFiniteSet(nx..(last - 1))
          /\ Cardinality(nx..(last - 1))
                = IF nx > last - 1 THEN 0 ELSE (last - 1) - nx + 1
      BY <3>1, FS_Interval
    <3> QED BY <3>1, <3>2, <2>1, <1>2, LookaheadAssumption DEF UInt32
  <2>7. /\ IsFiniteSet(new)
        /\ Cardinality(new) <= Cardinality(nx..(last - 1))
        /\ Cardinality(new) \in Nat
        /\ Cardinality(nx..(last - 1)) \in Nat
    BY <2>5, <2>6, FS_Subset, FS_CardinalityType
  <2> HIDE DEF new, nx, last, n
  <2>8. Cardinality(new) <= MAX_NEW_ACCOUNTS
    BY <2>6, <2>7, LookaheadAssumption
  <2> QED BY <2>7, <2>8 DEF new, b
<1>4. CASE ~(n > 0 /\ ~(last < nx))
  <2>1. b = a
    BY <1>4 DEF AfterFound, ExpandSubaddresses
  <2>2. new = {}
    BY <2>1
  <2> QED BY <2>2, FS_EmptySet, LookaheadAssumption
<1> QED BY <1>3, <1>4
=============================================================================
