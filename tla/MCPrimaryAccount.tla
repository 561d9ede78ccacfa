-------------------------- MODULE MCPrimaryAccount --------------------------
(* PrimaryAccount for TLC: 4-bit words, a lookahead of 2 accounts with 2   *)
(* addresses each, and indices inside, beyond and far beyond the window.   *)
EXTENDS PrimaryAccount

(* An injective key for every index.                                       *)
MCSpendKey == [i \in (0..UINT32_MAX) \X (0..UINT32_MAX) |->
                  i[1] * (UINT32_MAX + 1) + i[2] + 1]

MCManual == {<<0, 3>>, <<5, 0>>, <<UINT32_MAX, 1>>}
=============================================================================
