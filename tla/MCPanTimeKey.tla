---------------------------- MODULE MCPanTimeKey ----------------------------
(* A small instance of PanTimeKey for TLC.                                 *)
EXTENDS PanTimeKey

CONSTANTS p1, p2, k1, k2

TwoProcs == {p1, p2}
TwoKeys == {k1, k2}
=============================================================================
