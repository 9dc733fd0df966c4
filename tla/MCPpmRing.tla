------------------------------ MODULE MCPpmRing ------------------------------
(* PpmRing for TLC: a ring of RING_BUF_SIZE bytes with a short cushion.      *)
EXTENDS PpmRing
=============================================================================
