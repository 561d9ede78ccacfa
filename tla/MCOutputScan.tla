---------------------------- MODULE MCOutputScan ----------------------------
(* OutputScan for TLC: 3-bit words, a lookahead of 2 accounts with 2       *)
(* addresses each, so that account 7 is the last and 2 .. 7 lie beyond the *)
(* first window.                                                           *)
EXTENDS OutputScan

MCSpendKey == [idx \in (0..UINT32_MAX) \X (0..UINT32_MAX) |->
                  idx[1] * (UINT32_MAX + 1) + idx[2] + 1]

(* An output at position n; amounts are powers of two, so that every set   *)
(* of outputs has its own sum, and differ in the clear and under ringct.   *)
Out(n, key, via, decodable) ==
    [is_key |-> TRUE, pub_key |-> n, spend_key |-> key, via |-> via,
     plain |-> 2^n, hidden |-> 2^(n + 4), decodable |-> decodable]

Tx(version, coinbase, main, additional, vout) ==
    [version |-> version, coinbase |-> coinbase, main |-> main,
     additional |-> additional, vout |-> vout]

Kinds == {<<1, FALSE>>, <<2, FALSE>>, <<2, TRUE>>}

-----------------------------------------------------------------------------
(* Every transaction of two outputs over these destinations: known from    *)
(* the start, in the initial window, at its edge, past its minors,         *)
(* another wallet's.                                                       *)

Destinations == {SpendKey[<<0, 0>>], SpendKey[<<1, 0>>], SpendKey[<<2, 1>>],
                 SpendKey[<<1, 2>>], OtherKey}

Outs(n) == {Out(n, key, via, TRUE) : key \in Destinations, via \in Derivations}
           \cup {Out(n, SpendKey[<<0, 0>>], "main", FALSE),
                 Out(n, SpendKey[<<0, 0>>], "additional", FALSE),
                 [Out(n, OtherKey, "main", TRUE) EXCEPT !.is_key = FALSE]}

(* Which of the tx public keys there are, and have a derivation.           *)
TxKeys == {<<TRUE, <<>>>>, <<TRUE, <<TRUE>>>>, <<TRUE, <<TRUE, TRUE>>>>,
            <<TRUE, <<FALSE, TRUE>>>>, <<FALSE, <<TRUE, TRUE>>>>}

PairTxs ==
    {Tx(kind[1], kind[2], keys[1], keys[2], <<o1, o2>>) :
        kind \in Kinds, keys \in TxKeys, o1 \in Outs(1), o2 \in Outs(2)}

-----------------------------------------------------------------------------
(* A chain of a few transactions that lead the window away and back.       *)

Pay(major, minor) == Out(1, SpendKey[<<major, minor>>], "main", TRUE)

ChainTxs ==
    {Tx(2, FALSE, TRUE, <<>>, <<Pay(m, n)>>) :
        m \in {0, 1, 3, 5, 7}, n \in {0, 1}}
    \cup
    {Tx(2, FALSE, TRUE, <<TRUE, TRUE>>,
        <<Out(1, SpendKey[<<a, 1>>], "additional", TRUE),
          Out(2, SpendKey[<<b, 0>>], "additional", d)>>) :
        a \in {1, 2}, b \in {2, 4}, d \in BOOLEAN}

AllTxs == PairTxs \cup ChainTxs

AccountSearcher == [pacc |-> TRUE, address |-> SpendKey[<<0, 0>>]]

AddressSearchers ==
    {[pacc |-> FALSE, address |-> SpendKey[<<0, 0>>]],
     [pacc |-> FALSE, address |-> SpendKey[<<2, 1>>]]}

OnlyAccount == {AccountSearcher}
AllSearchers == {AccountSearcher} \cup AddressSearchers
=============================================================================
