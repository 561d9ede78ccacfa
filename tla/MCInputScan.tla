---------------------------- MODULE MCInputScan -----------------------------
(* InputScan for TLC: the account of MCOutputScan (accounts 0 and 1 in the *)
(* first window), a chain of six transactions and rings of two.            *)
EXTENDS InputScan

MCSpendKey == [idx \in (0..UINT32_MAX) \X (0..UINT32_MAX) |->
                  idx[1] * (UINT32_MAX + 1) + idx[2] + 1]

Out(pub_key, key, via, decodable) ==
    [is_key |-> TRUE, pub_key |-> pub_key, spend_key |-> key, via |-> via,
     plain |-> 2^pub_key, hidden |-> 2^pub_key, decodable |-> decodable]

Tx(version, additional, vout) ==
    [version |-> version, coinbase |-> FALSE, main |-> TRUE,
     additional |-> additional, vout |-> vout]

(* A receipt past the window, and one at its edge, which expands it.       *)
FarReceipts ==
    << Tx(2, <<>>, <<Out(1, SpendKey[<<2, 0>>], "main", TRUE)>>),
       Tx(2, <<>>, <<Out(2, SpendKey[<<1, 1>>], "main", TRUE)>>) >>

(* Change and a payment through additional keys; a payment in the clear    *)
(* through an additional key; another wallet's; one that cannot be decoded.*)
NearReceipts ==
    << Tx(2, <<TRUE, TRUE>>,
          <<Out(3, SpendKey[<<0, 0>>], "main", TRUE),
            Out(4, SpendKey[<<0, 1>>], "additional", TRUE)>>),
       Tx(1, <<TRUE>>, <<Out(5, SpendKey[<<0, 1>>], "additional", TRUE)>>),
       Tx(2, <<>>, <<Out(6, OtherKey, "main", TRUE)>>),
       Tx(2, <<>>, <<Out(7, SpendKey[<<0, 0>>], "main", FALSE)>>) >>

MCChain == FarReceipts \o NearReceipts

(* The same one-time key twice, with different amounts.                    *)
TwinChain ==
    << Tx(2, <<>>, <<[Out(1, SpendKey[<<0, 0>>], "main", TRUE)
                        EXCEPT !.hidden = 5]>>),
       Tx(2, <<>>, <<Out(1, SpendKey[<<0, 0>>], "main", TRUE)>>),
       Tx(2, <<>>, <<Out(3, OtherKey, "main", TRUE)>>) >>

Before(a, b) == a[1] < b[1] \/ (a[1] = b[1] /\ a[2] < b[2])

Rings == {<<a, b>> \in Refs \X Refs : Before(a, b)}

(* Inputs that spend a member of their ring.                               *)
KeyInputs == {[is_key |-> TRUE, ring |-> ring, k_image |-> PubKey(ring[n])] :
                 ring \in Rings, n \in 1..2}

GenInput == [is_key |-> FALSE, ring |-> <<>>, k_image |-> 9]

(* A payment to another wallet, and change to the edge of the window.      *)
Outputs == Tx(2, <<>>, <<Out(8, OtherKey, "main", TRUE),
                         Out(9, SpendKey[<<1, 0>>], "main", TRUE)>>)

(* The same payment, with change to an address that expands nothing.       *)
HomeOutputs == Tx(2, <<>>, <<Out(8, OtherKey, "main", TRUE),
                             Out(9, SpendKey[<<0, 1>>], "main", TRUE)>>)

(* Inputs whose decoy is not ours, or past the window: as many guesses as  *)
(* inputs.                                                                 *)
PlainInputs ==
    {x \in KeyInputs : \E n \in 1..2 :
        PubKey(x.ring[n]) \in {1, 6} /\ PubKey(x.ring[n]) # x.k_image}

LastSpent == {x \in KeyInputs : x.k_image = PubKey(x.ring[2])}

(* Two inputs, not the same output twice, or one after an input that is    *)
(* not a key.                                                              *)
MCSpends ==
    {[vin |-> vin, out |-> Outputs] :
        vin \in {<<x, y>> : x \in KeyInputs \cup {GenInput}, y \in LastSpent}
                    \ {s \in KeyInputs \X KeyInputs :
                           s[1].k_image = s[2].k_image}}
    \cup {[vin |-> vin, out |-> HomeOutputs] :
             vin \in {s \in PlainInputs \X PlainInputs :
                         s[1].k_image # s[2].k_image}}

(* The wallet's outputs in MCChain, of all its subaddresses.               *)
MCGiven == {[pub_key |-> n, amount |-> 2^n] : n \in {1, 2, 3, 4, 5, 7}}

AccountSearcher(populated) ==
    [pacc |-> TRUE, acc |-> TRUE, populated |-> populated,
     address |-> SpendKey[<<0, 0>>]]
AddressSearcher ==
    [pacc |-> FALSE, acc |-> FALSE, populated |-> FALSE,
     address |-> SpendKey[<<0, 0>>]]
SubaddressSearcher ==
    [pacc |-> FALSE, acc |-> TRUE, populated |-> FALSE,
     address |-> SpendKey[<<0, 1>>]]

AllSearchers ==
    {AccountSearcher(TRUE), AccountSearcher(FALSE),
     AddressSearcher, SubaddressSearcher}
OnlyAccount == {AccountSearcher(TRUE)}

AllOrders == {<<"output", "guess", "real">>, <<"real", "guess">>,
              <<"null_input", "real", "null_input", "real">>,
              <<"input", "guess", "input", "guess">>}
GuessFirst == {<<"guess", "real">>}
=============================================================================
