---------------------------- MODULE MCMicroCore -----------------------------
(* MicroCore for TLC: two transactions, none, one or both in a block.      *)
EXTENDS MicroCore

CONSTANTS h1, h2

MCTxHash == {h1, h2}
MCBlocks == {<<>>, <<h1>>, <<h1, h2>>}
=============================================================================
