----------------------------- MODULE MCClobNode -----------------------------
(* An instance of ClobNode for TLC. *)
EXTENDS ClobNode

CONSTANTS h1, d1, d2

\* Two deposits in the first block, none in the second.
TwoBlocks == <<<<d1, d2>>, <<>>>>
=============================================================================
