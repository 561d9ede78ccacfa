----------------------------- MODULE InputScan ------------------------------
(***************************************************************************)
(* A ModularIdentifier (src/src/UniversalIdentifier.hpp) that runs Output, *)
(* Input, GuessInput and RealInput identifiers, one after the other and in *)
(* any order, over one spending transaction.  They share one account,      *)
(* while the blockchain they read may lose its last blocks.                *)
(*                                                                         *)
(* The chain is a sequence of transactions; an output is <<t, n>>, and a   *)
(* ring lists outputs in the order of the chain.  The key image of an      *)
(* input stands for the one-time key it is the image of.                   *)
(***************************************************************************)
EXTENDS OutputIdentify

CONSTANTS
    Chain,        \* the transactions rings refer to, oldest first
    Spends,       \* spending transactions
    Searchers,    \* [pacc, acc, populated, address]; acc: identifiers got
                  \* an account; populated: with its window registered
    Orders,       \* the identifiers: sequences of "output", "input",
                  \* "null_input", "guess" and "real", repeated if
                  \* identify() is called again
    Given,        \* the known_outputs an Input was given
    MaxPops       \* bound on the blocks a reorganisation may take away

ASSUME CallAssumption ==
    /\ Chain \in Seq(Transaction)
    /\ MaxPops \in 0..Len(Chain)
    /\ Searchers \subseteq [pacc : BOOLEAN, acc : BOOLEAN,
                             populated : BOOLEAN, address : Key]
    /\ Orders \subseteq Seq({"output", "input", "null_input", "guess", "real"})
    /\ Given \subseteq [pub_key : PubKeys, amount : Nat]

Refs == UNION {{t} \X DOMAIN Chain[t].vout : t \in DOMAIN Chain}

PubKey(ref) == Chain[ref[1]].vout[ref[2]].pub_key

(* A spending transaction: is_key for txin_to_key, which alone has a ring  *)
(* and a key image.                                                        *)
Spend ==
    [vin : Seq([is_key : BOOLEAN, ring : Seq(Refs), k_image : PubKeys]),
     out : Transaction]

(* What the node checked of it before it was stored: the ring signature    *)
(* proves that the key image is that of a ring member, and no key image is *)
(* spent twice.                                                            *)
ASSUME SpendAssumption ==
    /\ Spends \subseteq Spend
    /\ \A spend \in Spends : \A i, j \in DOMAIN spend.vin :
          spend.vin[i].is_key =>
              /\ \E n \in DOMAIN spend.vin[i].ring :
                    PubKey(spend.vin[i].ring[n]) = spend.vin[i].k_image
              /\ spend.vin[j].is_key /\ i # j =>
                    spend.vin[i].k_image # spend.vin[j].k_image

VARIABLES
    searcher,
    tx,                 \* the spending transaction
    order, turn,        \* the identifiers, and the one that runs
    initial,            \* history: the account when the call began
    account,
    height,             \* transactions left on the chain
    matching,           \* GuessInput is in Input::identify
    k, r,               \* input; ring member, 0 before the ring was looked up
    found,              \* what Output found in the ring member: {} before
    known_outputs,      \* GuessInput's map, as [pub_key, amount] entries
    identified,         \* identified_inputs of each kind of identifier
    total,              \* and its total_xmr
    outputs,            \* identified_outputs of Output
    status

fixed == <<searcher, tx, order, initial>>
cursor == <<turn, matching, k, r>>
results == <<identified, total, outputs>>
vars == <<fixed, account, height, cursor, found, known_outputs, results,
          status>>

Init ==
    /\ searcher \in Searchers
    /\ tx \in Spends
    /\ order \in Orders /\ turn = 1
    /\ account = IF searcher.populated
                 THEN PopulateSubaddressIndices(NewAccount, 0, LOOKAHEAD_MAJOR)
                 ELSE NewAccount
    /\ initial = account
    /\ height = Len(Chain)
    /\ matching = FALSE /\ k = 1 /\ r = 0 /\ found = {}
    /\ known_outputs = {}
    /\ identified = [id \in {"input", "guess", "real"} |-> <<>>]
    /\ total = [id \in {"input", "guess", "real"} |-> 0]
    /\ outputs = <<>>
    /\ status = "running"

-----------------------------------------------------------------------------
Running == status = "running" /\ turn <= Len(order)

AtInput == Running /\ k <= Len(tx.vin)

(* Input::identify runs, for itself or for GuessInput.                     *)
Matching == order[turn] = "input" \/ matching

(* In the loop over ring members of the identifier id.                     *)
Scanning(id) == AtInput /\ order[turn] = id /\ ~matching /\ tx.vin[k].is_key

OnChain(ref) == ref[1] <= height

RingOnChain == \A n \in DOMAIN tx.vin[k].ring : OnChain(tx.vin[k].ring[n])

Throw == status' = "threw"

(* Skip to the next input.                                                 *)
NextInput == k' = k + 1 /\ r' = 0

(* A mistake: one past the last ring member.                               *)
AfterMemberPastEnd ==
    IF r <= Len(tx.vin[k].ring) THEN k' = k /\ r' = r + 1 ELSE NextInput

AfterMember ==
    IF r < Len(tx.vin[k].ring) THEN k' = k /\ r' = r + 1 ELSE NextInput

SkipInput ==
    /\ AtInput /\ order[turn] \in {"input", "guess", "real"}
    /\ ~tx.vin[k].is_key
    /\ NextInput
    /\ UNCHANGED <<fixed, account, height, turn, matching, found,
                   known_outputs, results, status>>

(* get_output_tx_and_index, which throws if an output does not exist.      *)
LookUpRing ==
    /\ Scanning("guess") \/ Scanning("real")
    /\ r = 0
    /\ IF RingOnChain THEN r' = 1 /\ UNCHANGED status ELSE Throw /\ UNCHANGED r
    /\ UNCHANGED <<fixed, account, height, turn, matching, k, found,
                   known_outputs, results>>

Member == tx.vin[k].ring[r]

(* An Output identifier, with the same account, for the transaction of the *)
(* ring member, unless get_tx fails.  It may throw after it expanded the   *)
(* account.                                                                *)
ScanMember ==
    /\ Scanning("guess") \/ Scanning("real")
    /\ r > 0 /\ found = {}
    /\ \/ ~OnChain(Member) /\ Throw /\ UNCHANGED <<account, found>>
       \/ /\ OnChain(Member)
          /\ \E result \in {IdentifyOutputs(searcher, account,
                                            Chain[Member[1]])} :
                /\ account' = result.account
                /\ IF result.threw
                   THEN Throw /\ UNCHANGED found
                   ELSE found' = {result.outputs} /\ UNCHANGED status
    /\ UNCHANGED <<fixed, height, cursor, known_outputs, results>>

-----------------------------------------------------------------------------
(* Output on the spending transaction itself: the change.                  *)
RunOutput ==
    /\ Running /\ order[turn] = "output"
    /\ \E result \in {IdentifyOutputs(searcher, account, tx.out)} :
          /\ account' = result.account
          /\ outputs' = outputs \o result.outputs
          /\ status' = IF result.threw THEN "threw"
                       ELSE IF turn = Len(order) THEN "done" ELSE status
    /\ turn' = turn + 1
    /\ UNCHANGED <<fixed, height, matching, k, r, found, known_outputs,
                   identified, total>>

-----------------------------------------------------------------------------
(* GuessInput: collect our outputs of all ring members' transactions ...   *)

(* known_outputs_map.insert, output after output.                          *)
KnownAfter(known, infos) ==
    LET first(n) == \A m \in 1..(n - 1) : infos[m].pub_key # infos[n].pub_key
        fresh(n) == \A e \in known : e.pub_key # infos[n].pub_key
        entry(n) == [pub_key |-> infos[n].pub_key, amount |-> infos[n].amount]
    IN  known \cup {entry(n) :
                       n \in {m \in DOMAIN infos : first(m) /\ fresh(m)}}

(* A mistake: the map is built anew for every ring member.                 *)
GuessMemberAlone ==
    /\ Scanning("guess") /\ found # {}
    /\ \E infos \in found : known_outputs' = KnownAfter({}, infos)
    /\ found' = {}
    /\ AfterMember
    /\ UNCHANGED <<fixed, account, height, turn, matching, results, status>>

(* A mistake: an input is left at its first ring member.                   *)
GuessFirstMember ==
    /\ Scanning("guess") /\ found # {}
    /\ \E infos \in found : known_outputs' = KnownAfter(known_outputs, infos)
    /\ found' = {}
    /\ NextInput
    /\ UNCHANGED <<fixed, account, height, turn, matching, results, status>>

GuessMember ==
    /\ Scanning("guess") /\ found # {}
    /\ \E infos \in found : known_outputs' = KnownAfter(known_outputs, infos)
    /\ found' = {}
    /\ AfterMember
    /\ UNCHANGED <<fixed, account, height, turn, matching, results, status>>

(* ... then go through the inputs again as Input::identify does.           *)
StartMatching ==
    /\ Running /\ order[turn] = "guess" /\ ~matching /\ k > Len(tx.vin)
    /\ matching' = TRUE /\ k' = 1
    /\ UNCHANGED <<fixed, account, height, turn, r, found, known_outputs,
                   results, status>>

(* A mistake: the loop goes on without its next input.                     *)
CheckOffsetsStuck ==
    /\ AtInput /\ Matching /\ tx.vin[k].is_key /\ r = 0
    /\ OnChain(Last(tx.vin[k].ring))
    /\ r' = 1
    /\ UNCHANGED <<fixed, account, height, turn, matching, k, found,
                   known_outputs, results, status>>

(* Is the last offset below get_num_outputs?                               *)
CheckOffsets ==
    /\ AtInput /\ Matching /\ tx.vin[k].is_key /\ r = 0
    /\ IF OnChain(Last(tx.vin[k].ring)) THEN r' = 1 /\ UNCHANGED k
                                        ELSE NextInput
    /\ UNCHANGED <<fixed, account, height, turn, matching, found,
                   known_outputs, results, status>>

Input(k_image, amount, out_pub_key) ==
    [key_img |-> k_image, amount |-> amount, out_pub_key |-> out_pub_key]

(* A mistake: the record names the first ring member, not the match.       *)
MatchesOfFirstMember(txin, known) ==
    LET at(n) == {e \in known : e.pub_key = PubKey(txin.ring[n])}
        upto[n \in 0..Len(txin.ring)] ==
            IF n = 0 THEN <<>>
            ELSE IF at(n) = {} THEN upto[n - 1]
            ELSE LET e == CHOOSE e \in at(n) : TRUE
                 IN  Append(upto[n - 1], Input(txin.k_image, e.amount,
                                               PubKey(txin.ring[1])))
    IN  upto[Len(txin.ring)]

(* A mistake: the search stops at the first match.                         *)
FirstMatchOfRing(txin, known) ==
    LET at(n) == {e \in known : e.pub_key = PubKey(txin.ring[n])}
        upto[n \in 0..Len(txin.ring)] ==
            IF n = 0 THEN <<>>
            ELSE IF at(n) = {} \/ upto[n - 1] # <<>> THEN upto[n - 1]
            ELSE LET e == CHOOSE e \in at(n) : TRUE
                 IN  << Input(txin.k_image, e.amount, e.pub_key) >>
    IN  upto[Len(txin.ring)]

(* One record for every ring member that is a known output.                *)
MatchesUpTo(txin, known) ==
    LET at(n) == {e \in known : e.pub_key = PubKey(txin.ring[n])}
        upto[n \in 0..Len(txin.ring)] ==
            IF n = 0 THEN <<>>
            ELSE IF at(n) = {} THEN upto[n - 1]
            ELSE LET e == CHOOSE e \in at(n) : TRUE
                 IN  Append(upto[n - 1],
                            Input(txin.k_image, e.amount, e.pub_key))
    IN  upto

MatchesOfRing(txin, known) == MatchesUpTo(txin, known)[Len(txin.ring)]

KnownOutputs == IF matching THEN known_outputs ELSE Given

(* A mistake: an input adds its first match to the total only.             *)
MatchRingOnce ==
    /\ AtInput /\ Matching /\ r = 1
    /\ RingOnChain
    /\ \E infos \in {MatchesOfRing(tx.vin[k], KnownOutputs)} :
          /\ identified' = [identified EXCEPT ![order[turn]] = @ \o infos]
          /\ total' = [total EXCEPT ![order[turn]] =
                          @ + IF infos = <<>> THEN 0 ELSE infos[1].amount]
    /\ NextInput
    /\ UNCHANGED <<fixed, account, height, turn, matching, found,
                   known_outputs, outputs, status>>

(* get_output_key throws if the chain lost an output since the check.      *)
MatchRing ==
    /\ AtInput /\ Matching /\ r = 1
    /\ IF RingOnChain
       THEN /\ \E infos \in {MatchesOfRing(tx.vin[k], KnownOutputs)} :
                  /\ identified' = [identified EXCEPT ![order[turn]] =
                                       @ \o infos]
                  /\ total' = [total EXCEPT ![order[turn]] =
                                  @ + SumAmounts(infos)]
            /\ NextInput /\ UNCHANGED status
       ELSE Throw /\ UNCHANGED <<k, r, identified, total>>
    /\ UNCHANGED <<fixed, account, height, turn, matching, found,
                   known_outputs, outputs>>

-----------------------------------------------------------------------------
(* RealInput: compute the key image of each of our outputs.                *)

(* The one-time secret key comes out right: the saved derivation is the    *)
(* one the output was sent with, and the spend secret belongs to the       *)
(* address.                                                                *)
HasSpendKey ==
    searcher.pacc \/ (~searcher.acc /\ searcher.address = SpendKey[<<0, 0>>])

OpensOutput(info) ==
    info.derivation = Chain[Member[1]].vout[info.idx_in_tx].via /\ HasSpendKey

(* generate_key_image_helper_precomp compares the one-time key; without an *)
(* account, generate_key_image does not.                                   *)
Refuses(info) == searcher.acc /\ ~OpensOutput(info)

(* A mistake: any output of ours counts as the spent one.                  *)
IsAnyImage(info) == OpensOutput(info)

IsImage(info) == OpensOutput(info) /\ tx.vin[k].k_image = info.pub_key

(* The loop over found outputs stops at the first that throws or matches.  *)
Decisive(infos) ==
    {n \in DOMAIN infos : Refuses(infos[n]) \/ IsImage(infos[n])}

FirstDecisive(infos) ==
    infos[CHOOSE n \in Decisive(infos) : \A m \in Decisive(infos) : n <= m]

(* A mistake: the first ring member decides for the input.                 *)
RealNoMatchGivesUp ==
    /\ Scanning("real")
    /\ \E infos \in found : Decisive(infos) = {}
    /\ found' = {}
    /\ NextInput
    /\ UNCHANGED <<fixed, account, height, turn, matching, known_outputs,
                   results, status>>

(* A mistake: the loop stays at its ring member.                           *)
RealNoMatchStays ==
    /\ Scanning("real")
    /\ \E infos \in found : Decisive(infos) = {}
    /\ found' = {}
    /\ UNCHANGED <<fixed, account, height, cursor, known_outputs, results,
                   status>>

RealNoMatch ==
    /\ Scanning("real")
    /\ \E infos \in found : Decisive(infos) = {}
    /\ found' = {}
    /\ AfterMember
    /\ UNCHANGED <<fixed, account, height, turn, matching, known_outputs,
                   results, status>>

RealMatch ==
    /\ Scanning("real")
    /\ \E infos \in found :
          /\ Decisive(infos) # {} /\ ~Refuses(FirstDecisive(infos))
          /\ LET info == FirstDecisive(infos)
             IN  /\ identified' = [identified EXCEPT !["real"] =
                        Append(@, Input(tx.vin[k].k_image, info.amount,
                                        info.pub_key))]
                 /\ total' = [total EXCEPT !["real"] = @ + info.amount]
    /\ found' = {}
    /\ NextInput
    /\ UNCHANGED <<fixed, account, height, turn, matching, known_outputs,
                   outputs, status>>

(* "Cant get key_img_generated"                                            *)
RealRefused ==
    /\ Scanning("real")
    /\ \E infos \in found :
          Decisive(infos) # {} /\ Refuses(FirstDecisive(infos))
    /\ Throw
    /\ UNCHANGED <<fixed, account, height, cursor, found, known_outputs,
                   results>>

-----------------------------------------------------------------------------
(* An input identifier is done.                                            *)
AtEnd ==
    /\ Running
    /\ \/ order[turn] \in {"input", "real"} /\ k > Len(tx.vin)
       \/ order[turn] = "guess" /\ matching /\ k > Len(tx.vin)
       \/ order[turn] = "null_input"

(* ModularIdentifier::identify goes on to the next.  GuessInput's map is   *)
(* gone.                                                                   *)
NextIdentifier ==
    /\ AtEnd
    /\ turn' = turn + 1 /\ matching' = FALSE /\ k' = 1 /\ r' = 0
    /\ known_outputs' = {}
    /\ status' = IF turn = Len(order) THEN "done" ELSE status
    /\ UNCHANGED <<fixed, account, height, found, results>>

(* The node behind the database switches to a shorter chain for a moment.  *)
PopBlock ==
    /\ Running /\ height > Len(Chain) - MaxPops
    /\ height' = height - 1
    /\ UNCHANGED <<fixed, account, cursor, found, known_outputs, results,
                   status>>

(* The caller's thread.                                                    *)
Identify ==
    \/ SkipInput \/ LookUpRing \/ ScanMember \/ RunOutput
    \/ GuessMember \/ StartMatching \/ CheckOffsets \/ MatchRing
    \/ RealNoMatch \/ RealMatch \/ RealRefused
    \/ NextIdentifier

Next == Identify \/ PopBlock

(* The call waits for nobody, so its thread goes on while it can.          *)
Spec == Init /\ [][Next]_vars /\ WF_vars(Identify)

-----------------------------------------------------------------------------
InputType(infos) ==
    \A n \in DOMAIN infos :
        infos[n].amount \in Nat /\ \E j \in DOMAIN tx.vin :
                                     infos[n].key_img = tx.vin[j].k_image

(* Positions stay inside the transaction, its rings and the chain, and     *)
(* what is identified carries a key image of the transaction.              *)
TypeOK ==
    /\ account \in Account
    /\ k \in 1..(Len(tx.vin) + 1)
    /\ k <= Len(tx.vin) => r \in 0..Len(tx.vin[k].ring)
    /\ height \in 0..Len(Chain) /\ turn \in 1..(Len(order) + 1)
    /\ status \in {"running", "done", "threw"}
    /\ \A id \in DOMAIN identified : InputType(identified[id])

Output(ref) == Chain[ref[1]].vout[ref[2]]

(* The output was sent to us, by what an account knows.                    *)
IsOurs(acc, ref) == Ours(searcher, acc, Output(ref).spend_key) # {}

TrueInfo(j, ref) ==
    Input(tx.vin[j].k_image, Amount(Chain[ref[1]], ref[2]), PubKey(ref))

(* The infos that tell the truth about a ring member of ours.              *)
TrueInfos(acc, j) ==
    {TrueInfo(j, ref) : ref \in {x \in Range(tx.vin[j].ring) : IsOurs(acc, x)}}

(* A guess is always a ring member of the input with that key image, an    *)
(* output of ours, with its amount: neither the pooling of all rings in    *)
(* one map nor the two passes over the inputs mixes inputs up              *)
(* (UniversalIdentifier.cpp:520-606, 411-437).  That is so where outputs   *)
(* with equal keys are equal payments; EqualKeysKeepTheirAmounts is about  *)
(* the others.                                                             *)
GuessesAreTrue ==
    \A n \in DOMAIN identified["guess"] :
        \E j \in DOMAIN tx.vin :
            /\ tx.vin[j].is_key
            /\ identified["guess"][n] \in TrueInfos(account, j)

Turns(id) == {t \in DOMAIN order : order[t] = id}

Ran(id) == \E t \in Turns(id) : t < turn

Once(id) == Cardinality(Turns(id)) = 1

(* What RealInput reports was spent by this transaction, is ours, and is   *)
(* reported once by each call (UniversalIdentifier.cpp:747-776).           *)
RealInputsAreOurs ==
    LET real == identified["real"]
    IN  \A n \in DOMAIN real :
            /\ real[n].out_pub_key = real[n].key_img
            /\ \E j \in DOMAIN tx.vin :
                  tx.vin[j].is_key /\ real[n] \in TrueInfos(account, j)
            /\ Cardinality({m \in DOMAIN real :
                               real[m].key_img = real[n].key_img})
                   <= Cardinality({t \in Turns("real") : t <= turn})

Spent(j, ref) ==
    ref \in Range(tx.vin[j].ring) /\ PubKey(ref) = tx.vin[j].k_image

(* The spent output of an input can be found, opened with the spend key,   *)
(* and was sent to an address known when the call began.                   *)
SpentKnown(j) ==
    /\ tx.vin[j].is_key
    /\ HasSpendKey
    /\ \E ref \in Range(tx.vin[j].ring) :
        /\ Spent(j, ref) /\ IsOurs(initial, ref) /\ Output(ref).is_key
        /\ Derivable(Chain[ref[1]], ref[2], Output(ref).via)
        /\ IsRct(Chain[ref[1]]) \/ Output(ref).via = "main"

(* Once RealInput returned, no spending of an output of a known address is *)
(* missing, whatever decoys stand before it in the ring, and with an       *)
(* account none of its subaddresses is.                                    *)
KnownSpendsFound ==
    status # "threw" /\ Ran("real") =>
        \A j \in DOMAIN tx.vin :
            SpentKnown(j) =>
                \E n \in DOMAIN identified["real"] :
                    identified["real"][n].key_img = tx.vin[j].k_image

(* The guesses contain the real inputs: those of addresses known before    *)
(* the call, or all of them if RealInput ran first and grew the account,   *)
(* or the chain lost no block in between.                                  *)
GuessCoversKnownReal ==
    status = "done" /\ Once("guess") /\ Once("real") =>
        LET guessed_first ==
                \A s \in Turns("guess"), t \in Turns("real") : s < t
        IN  \A n \in DOMAIN identified["real"] :
                \/ identified["real"][n] \in Range(identified["guess"])
                \/ guessed_first /\ \A j \in DOMAIN tx.vin :
                       identified["real"][n] \notin TrueInfos(initial, j)
                \/ ~guessed_first /\ height < Len(Chain)

(* GuessInput finds what Input finds when it is given all outputs of the   *)
(* wallet: nothing else, and nothing less of the addresses that were known *)
(* before the call (UniversalIdentifier.cpp:515-523).                      *)
GuessAgreesWithInput ==
    Ran("input") /\ Ran("guess") /\ height = Len(Chain) =>
        /\ Range(identified["guess"]) \subseteq Range(identified["input"])
        /\ \A j \in DOMAIN tx.vin : tx.vin[j].is_key =>
               Range(identified["input"]) \cap TrueInfos(initial, j)
                   \subseteq Range(identified["guess"])

(* Totals are the sums of their records, also when a call threw.           *)
TotalsMatchInputs ==
    \A id \in DOMAIN identified : total[id] = SumAmounts(identified[id])

(* "possible spending is just basic math" (README.md:74, example.cpp:205), *)
(* without the fee.                                                        *)
PossibleSpent == SumAmounts(identified["guess"]) - SumAmounts(outputs)

SpentRef(j) == CHOOSE ref \in Range(tx.vin[j].ring) : Spent(j, ref)

(* The change that can be found, by what an account knows.                 *)
ChangeOf(acc) ==
    {n \in DOMAIN tx.out.vout :
        /\ Ours(searcher, acc, tx.out.vout[n].spend_key) # {}
        /\ tx.out.vout[n].is_key
        /\ Derivable(tx.out, n, tx.out.vout[n].via)}

(* If the transaction spends only outputs of addresses that were known,    *)
(* and returns change only to such, and there are as many guesses as       *)
(* inputs, as example.cpp:199 checks, then the estimate of a call that did *)
(* not throw is exact: the decoys that GuessInput cannot tell from real    *)
(* inputs have no part in it.                                              *)
PossibleSpendingExact ==
    /\ Ran("output") /\ Once("output") /\ Ran("guess") /\ Once("guess")
    /\ status # "threw" /\ height = Len(Chain)
    /\ \A j \in DOMAIN tx.vin : SpentKnown(j)
    /\ ChangeOf(account) = ChangeOf(initial)
    /\ Len(identified["guess"]) = Len(tx.vin)
    => PossibleSpent =
          SumAmounts([j \in DOMAIN tx.vin |-> TrueInfo(j, SpentRef(j))])
          - SumAmounts([n \in ChangeOf(account) |->
                           [amount |-> Amount(tx.out, n)]])

(* How far the call has come: identifier, pass, input, ring member.        *)
Position ==
    <<turn, IF matching THEN 1 ELSE 0, k,
      2 * r + IF found = {} THEN 0 ELSE 1>>

Further(p, q) ==
    \E n \in DOMAIN p : p[n] < q[n] /\ \A m \in 1..(n - 1) : p[m] = q[m]

(* Every step of the call gets it further, or ends it with an exception:   *)
(* the loops over inputs and ring members, of two passes and three kinds   *)
(* of identifiers, go on whatever they find and whatever the chain does    *)
(* (UniversalIdentifier.cpp:359-461, 513-626, 628-781).  As TypeOK bounds  *)
(* how far it can come, a call takes finitely many steps.                  *)
CallAdvances ==
    [][Identify => status' = "threw" \/ Further(Position, Position')]_vars

(* The call returns or throws: no ring, input or identifier is visited for *)
(* ever.                                                                   *)
CallEnds == <>(status # "running")

-----------------------------------------------------------------------------
(* What comments and tests say.                                            *)

(* UniversalIdentifier.hpp:216-222: "we can compare wether guessed key     *)
(* images do contain all our key images", as the tests do                  *)
(* (tests/universalidentifier_tests.cpp:656-661).                          *)
GuessedContainAllOurs ==
    status = "done" =>
        \A n \in DOMAIN identified["real"] :
            \E m \in DOMAIN identified["guess"] :
                identified["guess"][m].key_img = identified["real"][n].key_img

(* tests/universalidentifier_tests.cpp:328-331: "in some rare cases,       *)
(* different txs have same output public keys, but different amounts. so   *)
(* known_output map is of type of unordered_mulitimap to allow for such a  *)
(* situation".                                                             *)
EqualKeysKeepTheirAmounts ==
    status = "done" =>
        \A n \in DOMAIN identified["real"] :
            (\E m \in DOMAIN identified["guess"] :
                identified["guess"][m].key_img = identified["real"][n].key_img)
                => identified["real"][n] \in Range(identified["guess"])
=============================================================================
