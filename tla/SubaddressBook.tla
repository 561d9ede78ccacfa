--------------------------- MODULE SubaddressBook ---------------------------
(***************************************************************************)
(* The subaddress book of a PrimaryAccount (src/src/Account.h, Account.cpp)*)
(* and the operations on it, as operators on an account record, so that    *)
(* the account's own state machine (PrimaryAccount) and the scanners that  *)
(* share one account (OutputScan, InputScan) use the same definitions.     *)
(*                                                                         *)
(* account.subaddresses  the unordered_map from public spend keys to       *)
(*                       subaddress indices, as a set of [key, idx] entries*)
(* account.next_acc_id_to_populate  the first account id not populated yet *)
(***************************************************************************)
EXTENDS Integers, FiniteSets

CONSTANTS
    LOOKAHEAD_MAJOR,     \* SUBADDRESS_LOOKAHEAD_MAJOR, 50 in the code
    LOOKAHEAD_MINOR,     \* SUBADDRESS_LOOKAHEAD_MINOR, 200 in the code
    MAX_NEW_ACCOUNTS,    \* the literal 50 in Output::identify
    UINT32_MAX,          \* largest account or address id; 2^32 - 1 in the code
    SpendKey             \* the device: public spend key of every index

UInt32 == 0..UINT32_MAX

(* cryptonote::subaddress_index as <<major, minor>>.                       *)
Index == UInt32 \X UInt32

Key == {SpendKey[idx] : idx \in Index}

ASSUME WordAssumption ==
    /\ UINT32_MAX \in Nat
    /\ UINT32_MAX % 2 = 1

ASSUME LookaheadAssumption ==
    /\ LOOKAHEAD_MAJOR \in Nat \ {0}
    /\ LOOKAHEAD_MINOR \in Nat \ {0}
    /\ MAX_NEW_ACCOUNTS \in Nat \ {0}
    /\ 2 * LOOKAHEAD_MAJOR <= UINT32_MAX
    /\ LOOKAHEAD_MINOR <= UINT32_MAX
    /\ MAX_NEW_ACCOUNTS <= UINT32_MAX

(* The cap of one expansion is a literal of its own, apart from the        *)
(* lookahead: it must leave room for the accounts one find may miss.       *)
ASSUME CapAssumption == LOOKAHEAD_MAJOR <= MAX_NEW_ACCOUNTS

(* Different subaddresses of one account have different spend keys.        *)
ASSUME SpendKeyAssumption ==
    /\ DOMAIN SpendKey = Index
    /\ \A i, j \in Index : SpendKey[i] = SpendKey[j] => i = j

-----------------------------------------------------------------------------
(* Arithmetic of the code: uint32_t, and the int it is converted to.       *)

(* A mistake: the value is not reduced to a word.                          *)
ToUInt32Unreduced(n) == n

ToUInt32(n) == n % (UINT32_MAX + 1)

ToInt32(n) ==
    IF ToUInt32(n) <= UINT32_MAX \div 2 THEN ToUInt32(n)
                                        ELSE ToUInt32(n) - (UINT32_MAX + 1)

-----------------------------------------------------------------------------
(* The map.                                                                *)

Entry(key, idx) == [key |-> key, idx |-> idx]

Book == SUBSET [key : Key, idx : Index]

Account == [subaddresses : Book, next_acc_id_to_populate : UInt32]

(* A key that is already in the map keeps its index.                       *)
Insert(book, entries) ==
    book \cup {e \in entries : \A b \in book : b.key # e.key}

(* has_subaddress: the entries found under a key, none or one.             *)
Lookup(account, key) == {e \in account.subaddresses : e.key = key}

(* PrimaryAccount::PrimaryAccount                                          *)
NewAccount ==
    [subaddresses |-> {Entry(SpendKey[<<0, 0>>], <<0, 0>>)},
     next_acc_id_to_populate |-> 0]

-----------------------------------------------------------------------------
(* hw::device::get_subaddress_spend_public_keys(keys, acc, begin, end): a  *)
(* vector whose nth key is that of address begin + n.                      *)
SpendPublicKeys(acc_id, begin, end) ==
    [n \in 0..(end - begin - 1) |-> SpendKey[<<acc_id, begin + n>>]]

(* Keys of account 0, without address 0 ...                                *)
EntriesOfAccountZero ==
    LET public_keys == SpendPublicKeys(0, 1, LOOKAHEAD_MINOR)
    IN  {Entry(public_keys[addr_id - 1], <<0, addr_id>>) :
            addr_id \in 1..(LOOKAHEAD_MINOR - 1)}

(* A mistake: the batch begins at address 1 as it does for account 0.      *)
EntriesOfAccountShifted(acc_id) ==
    LET public_keys == SpendPublicKeys(acc_id, 1, LOOKAHEAD_MINOR + 1)
    IN  {Entry(public_keys[addr_id], <<acc_id, addr_id>>) :
            addr_id \in 0..(LOOKAHEAD_MINOR - 1)}

(* ... and of any other account, from address 0.                           *)
EntriesOfAccount(acc_id) ==
    LET public_keys == SpendPublicKeys(acc_id, 0, LOOKAHEAD_MINOR)
    IN  {Entry(public_keys[addr_id], <<acc_id, addr_id>>) :
            addr_id \in 0..(LOOKAHEAD_MINOR - 1)}

(* A mistake: the start is incremented whether it was 0 or not.            *)
EntriesAfter(start, last) ==
    (IF start = 0 THEN EntriesOfAccountZero ELSE {})
        \cup UNION {EntriesOfAccount(acc_id) :
                        acc_id \in (start + 1)..(last - 1)}

(* A mistake: the last account is populated, too.                          *)
EntriesThrough(start, last) ==
    (IF start = 0 THEN EntriesOfAccountZero ELSE {})
        \cup UNION {EntriesOfAccount(acc_id) : acc_id \in (start..last) \ {0}}

(* Everything one call populates.                                          *)
EntriesFrom(start, last) ==
    (IF start = 0 THEN EntriesOfAccountZero ELSE {})
        \cup UNION {EntriesOfAccount(acc_id) :
                        acc_id \in (start..(last - 1)) \ {0}}

PopulateSubaddressIndices(account, start, last) ==
    [subaddresses |-> Insert(account.subaddresses, EntriesFrom(start, last)),
     next_acc_id_to_populate |-> last]

ExpandSubaddresses(account, new_acc_id) ==
    IF new_acc_id < account.next_acc_id_to_populate
    THEN account
    ELSE PopulateSubaddressIndices(
            account, account.next_acc_id_to_populate, new_acc_id)

AddSubaddressIndex(account, idx) ==
    [account EXCEPT !.subaddresses = Insert(@, {Entry(SpendKey[idx], idx)})]

-----------------------------------------------------------------------------
(* What Output::identify does to the account once it has found an output   *)
(* of account id major: keep the lookahead ahead of it.                    *)

(* A mistake: one account short.                                           *)
NoOfNewAccountsShort(account, major) ==
    LET missing == ToInt32(ToUInt32(major + LOOKAHEAD_MAJOR)
                             - account.next_acc_id_to_populate) - 1
    IN  IF missing < MAX_NEW_ACCOUNTS THEN missing ELSE MAX_NEW_ACCOUNTS

(* A mistake: no cap.                                                      *)
NoOfNewAccountsUncapped(account, major) ==
    ToInt32(ToUInt32(major + LOOKAHEAD_MAJOR) - account.next_acc_id_to_populate)

NoOfNewAccounts(account, major) ==
    LET missing == ToInt32(ToUInt32(major + LOOKAHEAD_MAJOR)
                             - account.next_acc_id_to_populate)
    IN  IF missing < MAX_NEW_ACCOUNTS THEN missing ELSE MAX_NEW_ACCOUNTS

AfterFound(account, major) ==
    LET no_of_new_accounts == NoOfNewAccounts(account, major)
    IN  IF no_of_new_accounts > 0
        THEN ExpandSubaddresses(account,
                ToUInt32(account.next_acc_id_to_populate + no_of_new_accounts))
        ELSE account
-----------------------------------------------------------------------------
(* What the components that use the book rely on.                          *)

KeysMatch(account) ==
    \A e \in account.subaddresses : e.key = SpendKey[e.idx]

AccountIds(account) == {e.idx[1] : e \in account.subaddresses}

RegisteredAddress(account, idx) ==
    Entry(SpendKey[idx], idx) \in account.subaddresses

Registered(account, acc_id) ==
    \A minor \in 0..(LOOKAHEAD_MINOR - 1) :
        RegisteredAddress(account, <<acc_id, minor>>)

CoveredUpTo(account, end) ==
    \A acc_id \in 0..(end - 1) : Registered(account, acc_id)

(* History: the account ids, from 0, that a wallet which keeps the gap     *)
(* limit may have handed out once an output of account id major was found. *)
(* A find so close to the last account id that its lookahead wraps around  *)
(* adds none.                                                              *)
OwedAfter(owed, major) ==
    IF /\ major + LOOKAHEAD_MAJOR <= UINT32_MAX
       /\ major + LOOKAHEAD_MAJOR > owed
    THEN major + LOOKAHEAD_MAJOR ELSE owed

(* History: those of them that the code goes on to register, which is what *)
(* finds at or below the watermark owe.                                    *)
PromisedAfter(promised, account, major) ==
    IF major <= account.next_acc_id_to_populate
    THEN OwedAfter(promised, major) ELSE promised
=============================================================================
