--------------------------- MODULE AccountFactory ---------------------------
(***************************************************************************)
(* The account_factory functions of src/src/Account.h, the accounts they   *)
(* make, and what a client does with them: keep an account, turn it into a *)
(* PrimaryAccount, search with it, generate subaddresses.                  *)
(*                                                                         *)
(* A text that holds an address is a record                                *)
(*   prefix    its base58 prefix, 0 if it cannot be decoded                *)
(*   spend     the public spend key in it                                  *)
(*   intact    whether the rest of it is an address                        *)
(* and a text that holds a secret key is "none", "key" or "bad".           *)
(***************************************************************************)
EXTENDS Integers, FiniteSets, Sequences, Functions

CONSTANTS
    LOOKAHEAD_MAJOR, LOOKAHEAD_MINOR, MAX_NEW_ACCOUNTS, UINT32_MAX,
    DeviceKey,    \* the device: for the public spend key that an account
                  \* holds, the spend key it derives for every index
    Wallet,       \* the spend key of the wallet's primary address
    Prefix,       \* base58 prefix of every network type and kind of address
    Texts,        \* addresses in texts
    Infos,        \* addresses parsed elsewhere: [spend, is_subaddress, valid]
    IndexTexts,   \* subaddress indices in texts, as sequences of parts
    Indices       \* those that are given to make_account

Book(spend) == INSTANCE SubaddressBook WITH SpendKey <- DeviceKey[spend]

Index == (0..UINT32_MAX) \X (0..UINT32_MAX)

(* No prefix serves two networks or kinds; index 0/0 is the address        *)
(* itself.                                                                 *)
ASSUME FactoryAssumption ==
    /\ UINT32_MAX \in Nat
    /\ Indices \subseteq Index
    /\ IndexTexts \subseteq Seq(Int)
    /\ \A a, b \in DOMAIN Prefix : Prefix[a] = Prefix[b] => a = b
    /\ \A spend \in DOMAIN DeviceKey : DeviceKey[spend][<<0, 0>>] = spend

(* The window fits the range of ids, and no two subaddresses that the      *)
(* device derives for an account share a key.                              *)
ASSUME WindowAssumption ==
    /\ LOOKAHEAD_MAJOR \in 0..UINT32_MAX
    /\ LOOKAHEAD_MINOR \in 0..UINT32_MAX
    /\ MAX_NEW_ACCOUNTS \in Nat
    /\ \A spend \in DOMAIN DeviceKey : \A i, j \in Index :
          DeviceKey[spend][i] = DeviceKey[spend][j] => i = j

(* The client's primary addresses, in texts or parsed, are of one wallet.  *)
ASSUME WalletAssumption ==
    /\ Wallet \in DOMAIN DeviceKey
    /\ \A text \in Texts :
          /\ text.spend \in DOMAIN DeviceKey
          /\ \A a \in DOMAIN Prefix :
                Prefix[a] = text.prefix /\ a[2] # "SUBADDRESS"
                    => text.spend = Wallet
    /\ \A info \in Infos :
          /\ info.spend \in DOMAIN DeviceKey /\ info.is_subaddress \in BOOLEAN
          /\ ~info.is_subaddress => info.spend = Wallet

VARIABLES
    acc,       \* the client's unique_ptr<Account>, as a set of none or one
    pacc,      \* its unique_ptr<PrimaryAccount>
    sub,       \* the last subaddress that was generated
    aborted    \* a failed assertion or a null pointer ended the program

vars == <<acc, pacc, sub, aborted>>

Init == acc = {} /\ pacc = {} /\ sub = {} /\ aborted = FALSE

-----------------------------------------------------------------------------
(* Texts.                                                                  *)

(* nettype_based_on_address: network and kind, none if UNDEFINED.          *)
NettypeBasedOnAddress(text) == {a \in DOMAIN Prefix : Prefix[a] = text.prefix}

(* A mistake: integrated addresses are taken for subaddresses.             *)
IsSubaddressOrIntegrated(address) == address[2] # "REGULAR"

IsSubaddress(address) == address[2] = "SUBADDRESS"

(* get_account_address_from_str for the network type of its prefix.        *)
ParseStrAddress(text) ==
    {[spend |-> text.spend, is_subaddress |-> a[2] = "SUBADDRESS",
      valid |-> TRUE] :
        a \in {x \in NettypeBasedOnAddress(text) : text.intact}}

(* addr_and_viewkey_from_string                                            *)
AddrAndViewkeyFromString(text, viewkey) ==
    IF viewkey = "key" THEN ParseStrAddress(text) ELSE {}

(* boost::lexical_cast to uint32_t takes a minus sign, too.                *)
LexicalCast(part) == IF part < 0 THEN UINT32_MAX + 1 + part ELSE part

(* parse_subaddress_index; a part that is no number counts as one that is  *)
(* out of range.                                                           *)
ParseSubaddressIndex(parts) ==
    IF Len(parts) = 2 /\ Range(parts) \subseteq -UINT32_MAX..UINT32_MAX
    THEN {<<LexicalCast(parts[1]), LexicalCast(parts[2])>>} ELSE {}

-----------------------------------------------------------------------------
(* Accounts.                                                               *)

(* subaddresses and watermark are members of PrimaryAccount only.          *)
NewBook(type, spend) ==
    IF type = "PRIMARY" THEN Book(spend)!NewAccount
    ELSE [subaddresses |-> {}, next_acc_id_to_populate |-> 0]

(* parsed is history: made, or generated by one that was made, by          *)
(* make_primaryaccount of a parsed address.                                *)
AccountRecord(type, info, viewkey, spendkey) ==
    [type |-> type, spend |-> info.spend, is_subaddress |-> info.is_subaddress,
     viewkey |-> viewkey = "key", spendkey |-> spendkey = "key",
     index |-> IF type = "PRIMARY" THEN {<<0, 0>>} ELSE {},
     book |-> NewBook(type, info.spend), parsed |-> FALSE]

(* set_index, which only a subaddress that was made with an index gets.    *)
WithIndex(account, idx) ==
    IF account.type = "SUBADDRESS" /\ idx # {}
    THEN [account EXCEPT !.index = idx] ELSE account

Populated(account) ==
    [account EXCEPT !.book = Book(account.spend)!PopulateSubaddressIndices(
                                 account.book, 0, LOOKAHEAD_MAJOR)]

TypeOf(is_subaddress) == IF is_subaddress THEN "SUBADDRESS" ELSE "PRIMARY"

(* keys() asserts that there is a view key.                                *)
NeedsViewkey(account) == ~account.viewkey

Primaries(accounts) == {a \in accounts : a.type = "PRIMARY"}

-----------------------------------------------------------------------------
(* The factory.                                                            *)

(* make_account()                                                          *)
MakeEmptyAccount ==
    /\ acc' = {AccountRecord("NONE", [spend |-> 0, is_subaddress |-> FALSE],
                             "none", "none")}
    /\ UNCHANGED <<pacc, sub, aborted>>

(* make_account(addr_str, ...), with or without an index.  It throws, and  *)
(* the client keeps what it had, if the rest of the address or a key       *)
(* cannot be parsed.                                                       *)
MakeAccount ==
    \E text \in Texts, viewkey, spendkey \in {"none", "key", "bad"},
       idx \in {{}} \cup {{i} : i \in Indices} :
        /\ \/ NettypeBasedOnAddress(text) = {} /\ acc' = {}
           \/ /\ "bad" \notin {viewkey, spendkey}
              /\ \E a \in NettypeBasedOnAddress(text),
                    info \in ParseStrAddress(text) :
                    acc' = {WithIndex(AccountRecord(TypeOf(IsSubaddress(a)),
                                        info, viewkey, spendkey), idx)}
        /\ UNCHANGED <<pacc, sub, aborted>>

(* Addresses that the client has parsed.                                   *)
ParsedInfos ==
    LET parsed == UNION {AddrAndViewkeyFromString(text, "key") :
                             text \in Texts}
        generated == {x \in sub : x.spend \in DOMAIN DeviceKey}
    IN  Infos \cup parsed
          \cup {[spend |-> s.spend, is_subaddress |-> TRUE, valid |-> TRUE] :
                    s \in generated}

(* The keys that an overload for a parsed address can be given.            *)
Keys == {<<"none", "none">>, <<"key", "none">>, <<"key", "key">>}

(* make_account(net_type, addr_info, ...)                                  *)
MakeAccountOfInfo ==
    \E info \in ParsedInfos, keys \in Keys,
       idx \in {{}} \cup {{i} : i \in Indices} :
        /\ acc' = IF ~info.valid THEN {}
                  ELSE {WithIndex(AccountRecord(TypeOf(info.is_subaddress),
                                                info, keys[1], keys[2]), idx)}
        /\ UNCHANGED <<pacc, sub, aborted>>

(* A mistake: the account is not populated.                                *)
MakePrimaryAccountUnpopulated ==
    \E text \in Texts, viewkey, spendkey \in {"none", "key"} :
        \E a \in NettypeBasedOnAddress(text), info \in ParseStrAddress(text) :
            /\ ~IsSubaddress(a)
            /\ pacc' = {AccountRecord("PRIMARY", info, viewkey, spendkey)}
            /\ UNCHANGED <<acc, sub, aborted>>

(* make_primaryaccount(addr_str, ...)                                      *)
MakePrimaryAccount ==
    \E text \in Texts, viewkey, spendkey \in {"none", "key", "bad"} :
        \/ /\ \A a \in NettypeBasedOnAddress(text) : IsSubaddress(a)
           /\ pacc' = {}
           /\ UNCHANGED <<acc, sub, aborted>>
        \/ /\ "bad" \notin {viewkey, spendkey}
           /\ \E a \in NettypeBasedOnAddress(text),
                 info \in ParseStrAddress(text) :
                /\ ~IsSubaddress(a)
                /\ LET account == AccountRecord("PRIMARY", info,
                                                viewkey, spendkey)
                   IN  IF NeedsViewkey(account)
                       THEN aborted' = TRUE /\ UNCHANGED pacc
                       ELSE pacc' = {Populated(account)} /\ UNCHANGED aborted
           /\ UNCHANGED <<acc, sub>>

(* make_primaryaccount(net_type, addr_info, ...), which returns an Account.*)
MakePrimaryAccountOfInfo ==
    \E info \in ParsedInfos, keys \in Keys :
        /\ acc' = IF ~info.valid THEN {}
                  ELSE {[AccountRecord("PRIMARY", info, keys[1], keys[2])
                            EXCEPT !.parsed = TRUE]}
        /\ UNCHANGED <<pacc, sub, aborted>>

(* A mistake: the account is released before its type is looked at.        *)
ConvertReleasing ==
    \/ /\ acc = {}
       /\ aborted' = TRUE
       /\ UNCHANGED <<acc, pacc, sub>>
    \/ \E a \in acc :
        /\ a.type = "PRIMARY" => a.viewkey
        /\ acc' = {}
        /\ pacc' = {Populated(p) : p \in Primaries(acc)}
        /\ UNCHANGED <<sub, aborted>>

(* A mistake: the type is not looked at.                                   *)
ConvertAny ==
    \/ /\ acc = {}
       /\ aborted' = TRUE
       /\ UNCHANGED <<acc, pacc, sub>>
    \/ \E a \in acc :
        /\ a.viewkey
        /\ acc' = {}
        /\ pacc' = {Populated(a)}
        /\ UNCHANGED <<sub, aborted>>

(* make_primaryaccount(std::move(acc)).  The account's type is asked for   *)
(* without a look at the pointer, which is null after a make_account that  *)
(* failed and after a conversion.                                          *)
Convert ==
    \/ /\ acc = {}
       /\ aborted' = TRUE
       /\ UNCHANGED <<acc, pacc, sub>>
    \/ \E a \in acc :
        /\ IF a.type # "PRIMARY" THEN pacc' = {} /\ UNCHANGED <<acc, aborted>>
           ELSE IF NeedsViewkey(a)
           THEN aborted' = TRUE /\ UNCHANGED <<acc, pacc>>
           ELSE acc' = {} /\ pacc' = {Populated(a)} /\ UNCHANGED aborted
        /\ UNCHANGED sub

-----------------------------------------------------------------------------
(* What a client does with a PrimaryAccount; one that make_account made it *)
(* casts.                                                                  *)

(* acc or pacc gets another book.                                          *)
ChangeBook(books(_)) ==
    /\ \/ \E a \in Primaries(acc) : \E book \in books(a) :
            acc' = {[a EXCEPT !.book = book]} /\ UNCHANGED pacc
       \/ \E a \in Primaries(pacc) : \E book \in books(a) :
            pacc' = {[a EXCEPT !.book = book]} /\ UNCHANGED acc
    /\ UNCHANGED <<sub, aborted>>

BooksAfterFind(a) ==
    {Book(a.spend)!AfterFound(a.book, e.idx[1]) :
        e \in {x \in a.book.subaddresses : a.viewkey}}

(* An Output identifier finds an output.                                   *)
FoundOutput == ChangeBook(BooksAfterFind)

BooksWithIndex(a) ==
    {Book(a.spend)!AddSubaddressIndex(a.book, idx) :
        idx \in {x \in Indices : a.viewkey}}

AddIndex == ChangeBook(BooksWithIndex)

GetSubaddress(account, idx) == DeviceKey[account.spend][idx]

Generated(account, idx) ==
    LET info == [spend |-> GetSubaddress(account, idx), is_subaddress |-> TRUE]
    IN  [AccountRecord("SUBADDRESS", info, "key",
                       IF account.spendkey THEN "key" ELSE "none")
            EXCEPT !.index = {idx}, !.parsed = account.parsed]

(* gen_subaddress, null without a view key and for 0/0.                    *)
GenSubaddress ==
    \E a \in Primaries(acc \cup pacc), parts \in IndexTexts :
        \E idx \in ParseSubaddressIndex(parts) :
            /\ sub' = IF ~a.viewkey \/ idx = <<0, 0>> THEN {}
                      ELSE {Generated(a, idx)}
            /\ UNCHANGED <<acc, pacc, aborted>>

Next ==
    /\ ~aborted
    /\ \/ MakeEmptyAccount \/ MakeAccount \/ MakeAccountOfInfo
       \/ MakePrimaryAccount \/ MakePrimaryAccountOfInfo \/ Convert
       \/ FoundOutput \/ AddIndex \/ GenSubaddress

Spec == Init /\ [][Next]_vars

-----------------------------------------------------------------------------
Accounts == acc \cup pacc \cup sub

(* A client holds at most one account each; only a PrimaryAccount has a    *)
(* book and is in pacc; indices are words.                                 *)
TypeOK ==
    /\ \A held \in {acc, pacc, sub} : Cardinality(held) <= 1
    /\ \A a \in pacc : a.type = "PRIMARY" /\ a.viewkey
    /\ \A a \in sub : a.type = "SUBADDRESS"
    /\ \A a \in Accounts : a.index \subseteq Index
    /\ aborted \in BOOLEAN

(* A subaddress account that was not generated has an index only if        *)
(* make_account(idx, ...) was given one, which nothing compares with the   *)
(* address (Account.h:317-330).                                            *)
IndexFromCaller(a) == a.type = "SUBADDRESS" /\ a \notin sub

(* What an account is follows the address it was made of, unless           *)
(* make_primaryaccount was given a parsed one, and its map and the index   *)
(* of its own give keys the wallet's indices: an output or a key image is  *)
(* attributed to the right subaddress, also by accounts made of integrated *)
(* addresses and by generated subaddresses.  Nothing is said of an index   *)
(* that the caller of make_account gave to a subaddress account: it is     *)
(* taken as it is, right or wrong (Account.h:270-376).                     *)
IndicesAreOfWallet ==
    \A a \in {x \in Accounts : ~x.parsed /\ x.type # "NONE"} :
        /\ a.is_subaddress <=> a.type = "SUBADDRESS"
        /\ \A e \in a.book.subaddresses : e.key = DeviceKey[Wallet][e.idx]
        /\ ~IndexFromCaller(a) =>
              \A idx \in a.index : a.spend = DeviceKey[Wallet][idx]

(* Every PrimaryAccount that the factory gave out searches the first       *)
(* window, and all accounts below its watermark, whatever had been found   *)
(* with it, or registered in it, before it was converted                   *)
(* (Account.h:353, 389).                                                   *)
WindowOfPrimaryAccounts ==
    \A a \in pacc :
        /\ Book(a.spend)!CoveredUpTo(a.book, LOOKAHEAD_MAJOR)
        /\ Book(a.spend)!CoveredUpTo(a.book, a.book.next_acc_id_to_populate)

(* The conversion of an account loses none: the caller still has one of a  *)
(* kind that cannot be converted, and of one that can, the PrimaryAccount  *)
(* finds all that the account found, under the same indices                *)
(* (Account.h:376-392).                                                    *)
ConversionLosesNothing ==
    [][Convert => \A a \in acc : \E b \in acc' \cup pacc' :
                      /\ b = [a EXCEPT !.book = b.book]
                      /\ a.book.subaddresses
                             \subseteq b.book.subaddresses]_vars

-----------------------------------------------------------------------------
(* README.md:18-20 of make_primaryaccount: "will search for outputs in a   *)
(* give tx to to the primary address and its subaddresses".  The overload  *)
(* for a parsed address does not populate the account.                     *)
PrimaryAccountsSearchSubaddresses ==
    \A a \in pacc \cup {x \in Primaries(acc) : x.parsed /\ x.viewkey} :
        Book(Wallet)!CoveredUpTo(a.book, LOOKAHEAD_MAJOR)
=============================================================================
