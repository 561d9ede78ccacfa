# A TLA+ model of xmregcore

xmregcore is a C++ library around Monero's own libraries. It opens a node's
database read-only, and tells which outputs of a transaction belong to an
account or address, which of its inputs spend them, and which payment id it
carries. The C++ lives in `src/src`; the tests in `src/tests` and the README in
`src/README.md` say how it is meant to be used.

This directory holds TLA+ modules for the parts that keep state, the TLC
configurations that check them on small instances, and proofs that TLAPS checks
for every instance. `PROJECT.json` lists components, runs, hazards, theorems and
the source lines of every definition.

## Inventory

| Component | State it keeps | Operations | What makes it hard |
|---|---|---|---|
| `PrimaryAccount` (Account.h, Account.cpp) | `subaddresses`, a map from public spend keys to indices; `next_acc_id_to_populate`, the watermark | constructor, `populate_subaddress_indices`, `expand_subaddresses`, `add_subaddress_index`, `has_subaddress` | the watermark is set unconditionally; two different batch layouts; `uint32_t` arithmetic read back as `int`; a cap that is a literal apart from the lookahead |
| `Output` identifier (UniversalIdentifier) | `identified_outputs`, `total_received`, `total_xmr` | `identify`, `decode_ringct` | every find may change the account that decides the next find; an exception leaves the loop half-way; `identify` may be called again; two derivations per output |
| `Input`, `GuessInput`, `RealInput` | `identified_inputs`, `total_xmr`, the map of known outputs | `identify`, `generate_key_image` | two passes over the inputs; one map for all rings; a database that changes between two reads; exceptions after part of the results are kept |
| `ModularIdentifier` | the identifiers, the tx public keys | constructor, `identify`, `get` | runs the identifiers in order on one shared account; the first exception stops the rest |
| `PaymentID` identifier | `payment_id`, `payment_id_tuple` | `identify`, `raw`, `get` | short and long ids, encryption that is its own inverse, a missing view key |
| `Account`, `account_factory` | network type, address, keys, index | the overloads of `make_account` and `make_primaryaccount`, `gen_subaddress`, `keys` | overloads that populate and one that does not; which refuse a subaddress; a conversion that takes an account in use |
| `MicroCore` | the database, `core_storage`, `m_mempool`, `initialization_succeded` | `init`, `get_tx`, `get_block_complete_entry`, getters | ownership passed on before later stages can fail; two reads of a database another process writes |
| `tools` | none | parsing of keys, addresses, indices and paths | pure; a number with a minus sign parses |
| `example.cpp` | none | a demonstration, with an estimate of what was spent | outputs minus inputs, in the presence of decoys |
| `monero_headers.h`, `ext/json.hpp` | none | includes; third-party code of the tests | not modelled |

How they interact. A client makes an account, makes identifiers that hold a
pointer to it, and hands them to a `ModularIdentifier` with a transaction.
`identify()` calls each identifier in the order it was given. `Output` asks the
account's map for the spend key it derives, and on a hit records the output and
expands the map. `GuessInput` and `RealInput` read the rings of the
transaction's inputs from `MicroCore`, fetch the transaction of every ring
member, run an `Output` identifier of their own on it (so they expand the account
as well), and compare public keys or key images. Nothing is locked: the library
assumes one thread per account. The only concurrent actor is the node that
writes the database the library reads.

The properties that make each part correct:

* account: a key is filed under its own index; no account below the watermark
  has a hole; the lookahead follows every find for ever; a find has bounded cost;
* output search: nothing false is recorded, nothing known is missed, nothing is
  counted twice, the totals agree with the records after exceptions and repeats,
  every receipt within the gap limit is found whatever came before it, as long as
  no populate sets the watermark back, and a pass is one step to who waits for it;
* input search: a guess is a true statement about a ring member of ours, a real
  input was spent here and is reported once, no known spending is missed, the
  guesses cover the real inputs and agree with a search that was given all
  outputs, the estimate of a spending is exact where it can be, the call ends;
* payment ids: no id is reported that this transaction does not carry, and the
  recipient reads what the sender meant;
* `MicroCore`: `init_success()` tells what `init()` told, and an answer about a
  transaction was so at some moment while it was asked for;
* factory: an account is of the kind of its address, whatever text or parsed
  address it came from; the indices it gives to keys are the wallet's, unless a
  caller forced a parsed address into a primary account or gave an index of its own;
  a conversion loses neither the account nor a key it had.

Everything in the code that is hard to test is listed under `hazards` in
`PROJECT.json`, at its line and with the properties about it.

## Modules

| Module | What it is |
|---|---|
| `SubaddressBook` | the account record and the operations on it, as operators; constants and their assumptions |
| `PrimaryAccount` | the account's life: its owner's calls and the finds of identifiers. It is also the abstract specification of what a scanner may do to an account |
| `OutputIdentify` | one round of the loop of `Output::identify`, and the whole call as a function |
| `OutputScan` | `Output::identify` as a process: one action per step of the loop, over several transactions, with a client that populates, repeats and goes on after exceptions |
| `InputScan` | `Output`, `Input`, `GuessInput` and `RealInput` in any order under a `ModularIdentifier`, called once or again, with a chain that may lose blocks |
| `AccountFactory` | every overload that makes an account, and a client that keeps one, searches with it, converts it and generates subaddresses |
| `BlockRead` | what reading a block promises: one look at the database per transaction |
| `MicroCore` | `init` with its failures, and `get_block_complete_entry` over `get_tx`, look by look, against a node that writes |
| `PaymentIdScan` | `LegacyPaymentID` and `IntegratedPaymentID`, alone or together, on one transaction after the other |
| `MCPrimaryAccount`, `MCOutputScan`, `MCInputScan`, `MCAccountFactory`, `MCMicroCore`, `MCPaymentIdScan` | keys, addresses, transactions, chains, rings and blocks for TLC |
| `SubaddressBookProofs`, `PrimaryAccountProofs`, `OutputIdentifyProofs`, `OutputScanProofs`, `InputScanProofs`, `AccountFactoryProofs`, `MicroCoreProofs`, `PaymentIdScanProofs` | lemmas and theorems |

`PrimaryAccount` and `OutputIdentify` extend `SubaddressBook`; `OutputScan` and
`InputScan` extend `OutputIdentify`; `OutputScan` instantiates `PrimaryAccount`
to state that it implements it, and `MicroCore` instantiates `BlockRead` for the
same reason. `AccountFactory` instantiates `SubaddressBook` once for every spend
key an account may hold, because the device derives other keys from each.

### How state and actions correspond to the code

**Account.** `account.subaddresses` is the `unordered_map` as a set of
`[key, idx]` entries. `Insert` keeps an entry that is there, as `insert` does;
`Lookup` is `has_subaddress`. `EntriesOfAccountZero` and `EntriesOfAccount` are
the two loops of `populate_subaddress_indices`, with their own offsets into the
vector of keys the device returns (`SpendPublicKeys`). `NoOfNewAccounts` is the
expression of `Output::identify`, in words of `UINT32_MAX + 1` values, converted
to a signed integer as the code's `min` does. `SpendKey`, the device's
derivation of subaddress spend keys, is a constant and injective.

**A transaction** is its version, whether it is a coinbase, which of its public
keys have a derivation, and its outputs. An output is sent to a spend key, *via*
the main public key or the additional one of its position. `DerivedSpendKey`
yields that spend key if asked with the right derivation and `OtherKey`
otherwise, which is all the code relies on. `decode_ringct` succeeds when the
output's ringct data are good and the derivation is the one it was sealed with.

**Scan.** `i` is the loop variable. `SkipOutput` is a round without a match,
`RecordOutput` one with a match (record, totals, expansion, all in one step, as
nothing can intervene), `CannotDecode` the exception, `Finish` the return.
`Crash` is the undefined read of `additional_derivations[i]` past its end; the
other outcome of that read, a derivation that matches nothing, is `SkipOutput`.
`Begin` makes a new identifier for another transaction, `IdentifyAgain` calls the
same one again, `Populate` is the client's.

**Inputs.** An output of the chain is `<<t, n>>`, in the order of the chain, so
that a ring is its list of outputs and "the last offset is below
`get_num_outputs`" is "the last one is on the chain". `order` is the tuple of
identifiers; where it repeats, `identify()` was called again, and results are
appended. `RunOutput` is `Output` on the spending transaction. `LookUpRing`,
`ScanMember`, `GuessMember`, `RealNoMatch`, `RealMatch` and `RealRefused` are the
loops over ring members: `ScanMember` is `get_tx` and the `Output` identifier on what
it gave, which may throw after it expanded the account; the others use what was
`found`. `StartMatching` is the assignment of `GuessInput`'s own map to
`known_outputs`; `CheckOffsets` and `MatchRing` are `Input::identify`, as `GuessInput`
calls it or with the map that was `Given`. A null map is the identifier
`"null_input"`. `NextIdentifier` is `ModularIdentifier::identify`. A scan of a
transaction is one step, `IdentifyOutputs`: the database is not read during it and no
other thread of the library shares the account. `InputScan` takes three things from
`IdentifyOutputs`: the account, the outputs found and whether it threw. `ScanIsAFunction`
checks on `OutputScan` that a pass of the loop, the first or a repeated one, ends with
just these. `PopBlock` is the node, at any
point between two reads. A key image is identified with the public key it is the
image of.

**Factory.** A text with an address is its base58 prefix, the spend key in it and
whether the rest is sound; `Prefix` gives every network and kind its prefix, as the
configuration of Monero does. `acc` and `pacc` are the client's two `unique_ptr`s, as
sets of no or one account; an action for each overload assigns to one of them, and
an overload that throws assigns nothing. `Convert` is the overload that takes an
account: it gives null and leaves the account where it was, or empties `acc`. It does
not look at the pointer, so that the program ends if `acc` is empty, after a
`make_account` that gave null or a conversion. `aborted` is this end, or that of the
assertion in `keys()`, which populating calls. `FoundOutput` and
`AddIndex` are what happens to an account in use, with the operators of
`SubaddressBook`; `GenSubaddress` parses an index and generates. An account that
holds a subaddress as if it were a primary address derives keys that no
wallet has, except its own (`DeviceKey`).

**MicroCore.** `ledger` is the database: each transaction is absent, whole or
pruned, and `AddTx`, `PruneTx` and `PopTx` may change it before any step of the
caller. `OpenDb`, `InitCore` and `InitMempool` are the stages of `init()`, each of
which may fail; it may be called again at any time. `NextTx` is the loop of
`get_block_complete_entry`, and `HaveTx`, `GetTx`, `GetPrunedTx` the three looks of
`get_tx`; a `TX_DNE` is the other branch of the last two. An entry may be new or
one that was used before, to which the code appends. `seen` and `returned` are
history. `AtomicReads` maps this to `BlockRead`, where a transaction is looked
up at once: this is why `InputScan` may fetch a transaction in one step.

**Payment ids.** An id is the set of its bits, so that XOR is a symmetric
difference. `Tx` says what the nonce of the extra field turned out to be, which
public keys the field has, and an id. `NextCall` makes a new `ModularIdentifier` of
the same identifiers, `Identify` is the `identify()` of the next of them:
`NotFound` stands for its two early returns, `CantDecrypt` for the exception.
`TxPubKey` is the choice of `get_tx_pub_key_from_received_outs`. `Encrypted` is the
sender, who uses the key it added last.

### Operators headed "A mistake"

Next to many definitions stands a variant headed *A mistake*: an off-by-one, a
dropped guard, a reset that was forgotten. No action uses them. Each is paired in
`PROJECT.json` with a property that fails when the definition is replaced by the
variant, which is how we know that the property can fail at all.

## Runs

| Run | Configuration | Question | Result |
|---|---|---|---|
| `account` | `PrimaryAccount.cfg` | does any sequence of populates, expansions, registrations and finds break the map, leave a hole, lose the lookahead or cost too much? | holds |
| `outputs` | `OutputScan.cfg` | is every pair of outputs, in every kind of transaction, recorded truly, completely and once, in one pass or two, and always with an index? over four transactions with populates and repeats between them, is every receipt within the gap limit found, and which are once a populate has set the watermark back? does every pass end as the function `IdentifyOutputs` says? does the account change only as `PrimaryAccount` allows? | holds |
| `inputs` | `InputScan.cfg` | are guesses and real inputs true, complete, counted once and in agreement, in any order and repeated, while the chain may lose a block? is the estimate of a spending exact? does every step get the call further, and does it end? | holds |
| `factory` | `AccountFactory.cfg` | is an account what its address says, are its indices the wallet's unless the caller gave them, is nothing lost by a conversion? | holds |
| `microcore` | `MicroCore.cfg` | are answers about transactions true and as good as atomic while the node writes? does `init_success()` tell? | holds |
| `payment_ids` | `PaymentIdScan.cfg` | is an id of an earlier transaction ever reported? does the recipient read what was sent? | holds |
| `expand_comment`, `primary_only`, `saved_derivation` | `OutputScan{Comment,Primary,Saved}.cfg` | is what a comment or the README says of the scan so? | violated |
| `guess_contains`, `equal_keys` | `InputScan{Contain,Twins}.cfg` | is what a comment and the tests say of the inputs so? | violated |
| `parsed_primary` | `AccountFactoryParsed.cfg` | does every `make_primaryaccount` give an account that searches subaddresses, as the README says? | violated |

### Properties worth a word

* `LookaheadCovered` and `GapLimitReceiptsFound` use a history variable,
  `promised`: the account ids owed after a populate, or after a find at or below
  the watermark. A find above the watermark promises nothing, because the account is
  expanded from the watermark and the cap of 50 ends that before the lookahead of the
  find; nor does one within a lookahead of the last account id, because of the
  wrap-around. A find can lie above the watermark for two reasons: its index was
  registered by hand (in `account`), or a populate set the watermark back below what
  is registered (in `account` and in `outputs`).
* The second is a hole in the code that a client can meet without doing anything
  odd: populate, let finds move the watermark to 148, populate again (it is 50 now), find
  an output at account 140. The account is expanded to 100, which is all there
  already, and an output to account 150, ten past one that was found, is missed.
  `GapLimitReceiptsFound` says where the line is. `owed` is the gap limit as wallets
  mean it: every populate and *every* find owes. Until a populate sets the
  watermark back (`rewound`), every receipt in those accounts is found. Afterwards, the
  property speaks of `promised`: what was owed before is kept, since a populate
  forgets nothing, and finds at or below the watermark are followed. Without that
  distinction (`owed` throughout) TLC finds the hole on the instance of `outputs`.
* `ScanIsAFunction` is about the steps that end a pass. It compares the account, the
  records the pass added to those there were (`before`) and the exception with what
  `IdentifyOutputs` gives for the account as it was when the pass began (`known`).
* `KnownNeverMissed` compares with the account *when the pass began*, so
  that an expansion in the middle can only add.
* `TotalsMatchRecords` and `TotalsMatchInputs` hold between any two steps,
  also after an exception and after a second call, which appends.
* `GuessCoversKnownReal` is the strongest form of "guesses contain the real
  inputs" that holds: `GuessInput` finds what was known when the call began, or
  everything if `RealInput` ran first, provided no block was lost in between.
* `GuessAgreesWithInput` compares two ways to the same answer: `GuessInput`, which
  collects our outputs from the rings, and `Input`, which is given all the
  wallet's. The guess finds nothing else, and misses nothing of the addresses
  known before the call, also when both are called a second time and append.
* `PossibleSpendingExact` is about the estimate in `example.cpp`, which subtracts
  change from guesses: it is right whenever the transaction spends and returns to
  known addresses only and the check of `example.cpp:199` passes, whatever decoys
  stand in the rings. The fee, a number the caller knows, is left out. The call must
  not have thrown (an `Output` that throws after a `GuessInput` returned leaves change
  out), and the change meant is what can be found: outputs that are keys, with a
  derivation.
* `CallAdvances` is what makes `CallEnds` true: each step of the caller's thread takes a
  later place in the order of identifier, pass, input and ring member.
* `IndexGiven` is about `has_subaddress_index`, which takes either half of an index
  being `UINT32_MAX` for "not given", though `UINT32_MAX` is a legal account. No
  populate or expansion registers that account, as the end of the window is
  exclusive and wraps. A client who registers such an index by hand
  (`add_subaddress_index`) would get records that deny having one; that is outside
  this module's client.
* `IndicesAreOfWallet` makes two exceptions. Accounts made by `make_primaryaccount`
  of a parsed address, which takes a subaddress for a primary address without a
  look at its flag. And the index of a subaddress account for which the caller of
  `make_account(idx, ...)` gave one (`IndexFromCaller`): nothing compares it with the
  address, so that the key of 0/1 may well be said to be that of 2/0. What is left is
  the index of a primary account (0/0, whatever the caller gave), that of a generated
  subaddress, and every entry of every map.
  `WindowOfPrimaryAccounts` holds for accounts of a parsed address, too, once
  converted, for the keys that they derive.
* `KnownSpendsFound` names what `RealInput` needs: an account, or a regular
  address with its own spend key; and the derivation saved with the output being
  the sender's, which the `saved_derivation` finding is about.
* `InitSuccessIsTold` says "any `init()` returned true": the flag is not taken
  back when a later `init()` fails, and the property does not ask for it.
* `AnswersWereSeen` lets `get_tx` give the pruned form of a transaction that is
  whole again by the third look, if it was away at the second: the code asks for
  the pruned form then, whatever there is.
* `RecipientReads` has one exception, which is in the code: an id that is encrypted
  as all zeros passes for none. The converse is no exception: one that decrypts
  to all zeros, as a wallet sends to hide that there is none, is reported as an id.
  Nothing is promised after an exception: the id is stored first and decrypted in
  place, so `get()` then returns it encrypted (`CantDecrypt`). Nor for a
  transaction with three public keys, of which the code takes the second.

### What the violations show

1. The comment at UniversalIdentifier.cpp:282-285 says the account is expanded
   for account ids above 0 only. An account that was never populated is expanded
   by its first output to account 0 (`expand_comment`).
2. Therefore a search with `make_account`, which the README calls a search for
   the primary address only, finds outputs of subaddresses from its second hit
   on. What it finds depends on the order of the outputs (`primary_only`).
3. The derivation saved with an output is the one it was found by for ringct
   outputs only; for one in the clear the main derivation is saved, and `RealInput`
   then throws on it (`saved_derivation`).
4. Comparing guessed with real key images over one account, as a test does, may
   show a real input that was not guessed: the first identifier's ring scans
   expand the account that the second one uses (`guess_contains`).
5. Two outputs with equal keys share one entry of `known_outputs_t`, an
   `unordered_map`, though a test's comment says it is a multimap
   (`equal_keys`).
6. `make_primaryaccount` of a parsed address does not populate the account, unlike
   the overloads for a text and for an account; a search with what it returns
   looks for the primary address only, until its first find (`parsed_primary`).

### Bounds, and why they are enough

* Lookahead: 2 accounts of 2 addresses, cap of 2 (50, 200 and 50 in the code).
  With two of each there is a first, a last and a next-but-one account, a minor
  that is registered and one that is not; the proofs cover all other values.
* Words: 4 bits in `account`, 3 bits elsewhere. The lookahead of the last two
  account ids wraps around, differences turn negative and the cap is met; with 4
  bits an index far away asks for more accounts than the cap allows.
* `Manual`: an index past the minors, one past the window, one on the last
  account. `MaxExpansion` = 6 reaches past two expansions.
* `outputs`: two outputs suffice for one to change the account the
  other is found with. `Destinations` are the primary address, a known
  subaddress, the edge of the window, beyond it, beyond the minors, and another
  wallet. `TxKeys` are the sets of public keys, with fewer additional keys than
  outputs included. Amounts are powers of two, so
  that two sets of outputs never have the same sum, and differ in the clear and
  under ringct. A client begins with any of these transactions and goes on with those
  of `ChainTxs` (`LaterTxs`), which lead the window away and back. `MaxScans` = 4 is one
  more than it takes to move the window past an account, set it back with a
  populate, and receive there; two passes of each identifier.
* `inputs`: rings of two over six transactions, two inputs or one after an input
  that is no key, `MaxPops` = 1. The orders are `Output`, `GuessInput`, `RealInput`;
  `RealInput`, `GuessInput`; `RealInput` twice, with identifiers without a map before
  it; `Input` and `GuessInput`, twice. Searchers are an account that was populated, one
  that was not, a bare address and a subaddress account. Every
  input spends a member of its ring; where that is another wallet's output, ours
  are decoys. Change goes to the edge of the window, which expands the account and
  turns decoys into guesses, or, for inputs whose decoys are not ours
  (`PlainInputs`), to an address that expands nothing: there `PossibleSpendingExact`
  has as many guesses as inputs to speak of. The two violation runs use one order
  and no pops.
* `factory`: 2-bit words, a lookahead of one account with two addresses; one wallet
  and one of its subaddresses, on two networks, as a regular, an integrated and a
  sub-address; texts that are no address, and one with a known prefix whose rest is
  not. `IndexTexts` hold an index of each fate: 0/0, a subaddress, a negative number, one
  number, one too large. There is no bound on the number of calls.
* `microcore`: a block of no, one or two transactions, so that a call can fail
  after a push and a used entry can be longer than the block. Three changes are one
  between each two looks and one to spare for the next transaction; two calls of
  each kind are one after the other.
* `payment_ids` has no counters to bound. Two bits, two keys and pads that differ
  (one of them zero, one all ones) tell any two ids and recipients apart; public keys
  that are no point come first, last or alone.
* `CHECK_DEADLOCK FALSE` in the scans, in `microcore` and in `factory`: a client that reached
  `MaxScans`, a call that returned, or a program that
  ended on an assertion or a null pointer, really is finished. The account never stops.

### Fairness

Only `InputScan` states fairness: weak fairness of `Identify`, the steps of the
caller's thread. They wait for no one, so while one is enabled the thread will
take it. The node owes nothing, so `PopBlock` is not fair. `CallEnds` needs
no more than that.

## Proofs

All theorems rest on the named assumptions about constants: `WordAssumption`
(`UINT32_MAX` is one less than an even number), `LookaheadAssumption` (positive
sizes that fit a word), `CapAssumption` (the lookahead is at most the cap, both
are 50 in the code), `SpendKeyAssumption` (injective keys), `OtherKeyAssumption`,
`OwnerAssumption` and `ScanAssumption` (the types of the other constants), and for
the inputs `CallAssumption` (types) and `SpendAssumption` (what the node checked before it stored the transaction: a key
image belongs to a member of its ring, and none is spent twice). TLC evaluates
them in the runs.

**The account** (`PrimaryAccountProofs`). The inductive invariant is
`GoodAccount(account)`, with `promised` a word up to which the account is covered.
`GoodAccount` says more than the properties: the primary address is
registered. It has to, because populate starts account 0 at address 1, and would
otherwise not re-establish that account 0 is covered. The argument is one lemma
per operation (`PopulateGood`, `ExpandGood`, `AddIndexGood`, `AfterFoundGood`):
each extends the map, keeping `GoodAccount` and forgetting no entry.
`AfterFoundRestoresLookahead` does the arithmetic of the signed and unsigned
words; `FindKeepsPromise` combines both. Theorems: `TypeCorrect`,
`KeysAlwaysMatch`, `WindowAlwaysCovered`, `LookaheadAlwaysCovered`,
`ExpansionAlwaysBounded` (an action property, about the cardinality of the
accounts a find adds).

**The output scan** (`OutputScanProofs`), for any set of transactions and
searchers and any number of scans. Two lemmas about a single output carry it:
`MatchIsTrue` (what matches was sent to us, by the derivation it matched with)
and `FindableMatches` (what was sent to a known address matches). The invariant
adds to the properties that the account only grows since the pass began
(`AccountInv`), where the loop stands (`LoopInv`), and that nothing before `i` was
missed (`NothingMissed`), from which completeness follows when the loop is done.
Theorems: `TypeCorrect`, `RecordsAlwaysTrue`, `KnownIsNeverMissed`,
`RctDerivationAlwaysMatches`, and
`ImplementsOwner`, the refinement of `PrimaryAccount`: a find maps to
`FoundOutput`, a populate to `Populate`, every other step to a stutter.
Three more have invariants of their own, on top of that one.
`GapLimitReceiptsAlwaysFound`: until a populate sets the watermark back, no entry of
the map lies above the watermark, and so `owed` is `promised` (`OwedInv`); a populate
or an expansion registers nothing above its end (`EntriesBelow`). `IndexAlwaysGiven`: no key is
filed under an index with `UINT32_MAX` in it (`Given`), because what a populate
registers ends before its last account and the last one there can be is
`UINT32_MAX` (`EntriesGiven`). `RecordedOncePerPass`: outputs the loop has yet to reach
have a record fewer than there were passes (`OnceInv`); a step adds a record to the
count of its own output only.

Two theorems are about what all steps of a scan add up to, and need induction over
data, of which the next paragraph speaks. `TotalsAlwaysMatch`: the totals are the
sums of the records, by `SumOfOneMore`. `ScanIsTheFunction`: while a pass runs,
the account and the records it added are those that the function `Rounds` has after
`i - 1` rounds, on `known`, the account the pass began with (`FunctionInv`);
`RoundsUnfold` takes it from one round to the next. A pass ends after all rounds
(`Finish`), or with an exception, after which the function's remaining rounds change
nothing (`RoundsStop`); `PassEnds` puts the two together.

**Induction** (`OutputIdentifyProofs`). The library's induction theorems take an
operator as a parameter, which the provers cannot instantiate. `Induction` states
the principle for a *set* of numbers instead, and follows from the
well-foundedness of `<` on `Nat`; a proof defines the set of the numbers of which the
claim is true. From it come `RecursionSolvable` (a function defined by recursion over
`0..n` exists, which gives `RoundsUnfold` and `MatchesUnfold`), the sums of
`SumAmounts`, which is a fold over a set (`SumAmountsIsSum`: it is the one function on
subsets that adds an element at a time, `SumUnique`; `SumOfBoth` for a concatenation,
`SumReordered` for another order of the same amounts), and `RoundsReached`. The
latter gives `IdentifyOutputsIsSound`, the contract of a whole call of
`Output::identify`: the account only grows, the records are true, in order and of
different outputs, and unless the call threw nothing that was known is missing.
It is all that `InputScanProofs` uses of `Output`.

**The input search** (`InputScanProofs`), for any chain, rings, orders of
identifiers and number of blocks lost. `TInv` is inductive: besides the types it says
that the account extends the initial one, that an identifier begins at the first
input and with an empty map (`FreshInv`), and that what `Output` found in a ring
member satisfies its contract (`FoundInv`). On top of it, one inductive invariant
for each question:

* `RealTrue` and `RealOnce`: each record of `RealInput` was found in the transaction
  of a ring member and carries the key image of its input; an input is recorded at
  most once by each `RealInput` that is done with it. `RealsAlwaysOurs`.
* `SeenInv`: a known spending is reported, or its ring member is still ahead.
  `KnownSpendsAlwaysFound`.
* `KnownTrue` and `GuessTrue`: `GuessInput`'s map holds what the account can find, and
  a guess is a match of a ring with such an entry. `GuessesAlwaysTrue`.
* `CoverInv(base)`: what `base`, an account no larger than the present one, can find
  in the ring members passed so far is in the map, and after the second pass among
  the guesses, unless the ring is off the chain. It is inductive for every
  `base`. `GuessFirstInv` takes the initial account, and `RealFirstInv` the one
  `RealInput` left behind, which is why the guesses cover more if `RealInput` ran
  first. `GuessAlwaysCoversKnownReal`.
* `InputTrue` and `InputCovers`, the same of `Input` and the map it was given. With
  `GuessTrue` and `CoverInv`, `GuessAlwaysAgreesWithInput`.
* `OutputsInv`: after its one turn, `Output` has all the change. As many guesses as
  inputs, and each spent output guessed, make the guesses the spent outputs in some
  order (the pigeonhole of finite sets); `SumReordered` does the sums.
  `PossibleSpendingAlwaysExact`.
* `TInv` alone gives `TypeCorrect`, `TotalsAlwaysMatch` (by `SumOfBoth`) and
  `CallAlwaysAdvances`.

Three hypotheses occur, each only where it is needed. `EqualKeysEqualAmounts`: outputs
with the same one-time key went to the same address with the same amount. Without
it the truth of guesses and real inputs fails, as the run `equal_keys` shows on
`TwinChain`. `DistinctKeys` and `GivenIsWallet`, for the comparison with `Input`: no
one-time key is used twice, and `Input` was given exactly what can be found of
the wallet. All three are true of the constants of `inputs`.

**The factory** (`AccountFactoryProofs`), for any addresses, words, lookahead and
derivation of keys. The invariant says what the client's pointers may hold:
at most one account, each a record of the fields of an account with an index
of words, and a `PrimaryAccount` with a view key in `pacc`. `TypeCorrect` and
`ConversionNeverLoses` follow; the latter because populating only adds to the map
(`PopulatedFacts`). It rests on `FactoryAssumption`.

The second invariant there, `HeldInv`, is of what is in the
accounts. Each is `Sane`: it is what its address says (`OfWallet`), unless
`make_primaryaccount` took a parsed address, and the book of a primary account
files every key under the index it was derived from and has no hole below its
watermark (`GoodBook`). Those in `pacc` cover the first window besides
(`Searching`). It also remembers that a generated subaddress has the wallet's
index (`OwnIndex`), as the subaddress outlives the account that generated it.
`IndicesAlwaysOfWallet`, with the two exceptions of its property, and
`WindowAlwaysCovered` follow. The lemmas about books are
those of `SubaddressBookProofs` once more, for all spend keys, because the prover
cannot cite a lemma through an instance with a parameter (`Book(spend)`); their
arithmetic is simpler, as nothing is claimed of the lookahead behind a find. They
rest on `WindowAssumption` (the lookahead is a word, no two indices of an account
share a key) and `WalletAssumption` (the client's primary addresses are those of one
wallet, and the device has keys for every address it is given).

**Reading blocks** (`MicroCoreProofs`). `IInv` adds to the types that a call is
running exactly while the thread is in it, that the present state of the
transaction being read counts as seen, and that at the third look it was once away
or pruned. `AnswersAlwaysSeen` follows. For the refinement, `ReadsAreAtomic`, the
moment at which a transaction counts as looked up is the last look that was
taken: the first to find nothing, the second to find it whole, the third in any
case. `HashesAppend` says that the mapped entry grows as `BlockRead`'s does.
Besides, `TypeCorrect` and `InitSuccessAlwaysTold`. It rests on `BlocksAssumption`.

**Payment ids** (`PaymentIdScanProofs`). The invariant names, for every identifier
that returned, the answer it must have given for the transaction at hand
(`Answer`); it needs that the identifiers still to be called are different from
each other and from those, or a later call could undo an answer. `XorTwice` then
gives `RecipientAlwaysReads`; `NeverStale` and `TypeCorrect` are immediate. It rests
on `PadAssumption`, `ValidAssumption`, `FieldsAssumption` and `NoKeyAssumption`.

**Model-checked only.** `CallEnds`, as liveness under fairness is out of the prover's
reach. Its arithmetic is proved: `CallAlwaysAdvances` with the bounds of
`TypeCorrect` leaves finitely many steps to take. What TLC adds is that some step can be
taken while the call runs. Every other property of a passing run is a theorem,
and the properties of the violation runs are false.

**What the proofs changed in the model.** The attempts showed three places where it
was wrong. `Round` had overlapping cases, so that what it did with an output that
matched and could not be decoded rested on TLC's choice of the first; it is now a
nested choice, in the order of the code. `PossibleSpendingExact` held of orders in
which `Output` comes first only: where it comes after `GuessInput` and throws, change
is missing. And its premise was never true on the instance that TLC checked, where
change always expanded the account: `HomeOutputs` and `PlainInputs` were added.

## Not modelled, and why

* Cryptography: key derivation, commitments and key images are stood for by what
  the code relies on. The device's subaddress keys are assumed injective.
* `uint64_t` overflow of the totals: no chain holds that much, and consensus
  excludes it.
* Exceptions of the database other than `TX_DNE`, and exceptions from
  `core_storage.init`: they leave `get_tx` and `init` uncaught, and end the call.
* A payment id identifier made of an account without a view key (the constructor
  dereferences an empty optional).
* The getters of `MicroCore` that forward to `Blockchain` in a line, and the filter
  of output histograms: they change no state, and a statement about the filter
  would repeat its condition.
* Blocks that are replaced or come back after a pop, and a transaction that moves
  to another block: `height` only falls.
* Two threads on one account: the code has no lock and documents no such use.
* A view-only `RealInput` (an `assert`), and printing and formatting throughout. In a
  build without assertions, `keys()` of an account without a view key goes on with
  an empty optional; the model stops there, as the build with assertions does.
* The network and the payment id of an account's address, which no decision after
  its making reads.
* `hex_to_tx`, blockchain paths and `for_each_network_type` as a loop in `tools`: pure
  conversions.
* An identifier of payment ids and one of outputs or inputs in one tuple: they share
  nothing but the transaction's public keys, and the account of the former is not
  changed by the latter in what it reads.
* `monero_headers.h`: includes. `example.cpp`, apart from its estimate: calls of the
  library with addresses of the time. `ext/json.hpp`: third-party code that the tests
  use, and nothing in `src/src`.

## Plan

In this order; all are done but the last item.

1. `SubaddressBook`, `PrimaryAccount` and their proofs.
2. `OutputIdentify`, `OutputScan`, with the refinement of `PrimaryAccount`.
3. `InputScan`, on `OutputIdentify`.
4. `OutputScanProofs`.
5. `BlockRead`, `MicroCore`, `MicroCoreProofs`.
6. `PaymentIdScan`, `PaymentIdScanProofs`.
7. `InputScan` completed: `Output` before the inputs, `Input` with a caller's own
   `known_outputs`, repeated calls, an account that is not populated when the call
   begins.
8. `AccountFactory`, `AccountFactoryProofs`.
9. `IndexGiven`, `OncePerPass` and `InitSuccessIsTold` as theorems.
10. `IndicesAreOfWallet` and `WindowOfPrimaryAccounts` as theorems.
11. `OutputIdentifyProofs`, `TotalsMatchRecords` and `ScanIsAFunction` as theorems.
12. `InputScanProofs`: all safety properties of `InputScan` as theorems, and
    `CallAdvances`.
13. A spend search as an abstract specification (a set of claims that only grows,
    each true of the chain) that `InputScan` implements.
