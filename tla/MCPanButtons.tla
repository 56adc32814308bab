---------------------------- MODULE MCPanButtons ----------------------------
(* A small instance of PanButtons for TLC.                                 *)
EXTENDS PanButtons

CONSTANTS p1, p2

TwoProcs == {p1, p2}
AnyRead == {0, 1, NKeys}
============================================================================
