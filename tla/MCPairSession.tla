---------------------------- MODULE MCPairSession ----------------------------
(* PairSession on a small instance for TLC.                                *)
EXTENDS PairSession
=============================================================================
