---------------------------- MODULE MCPanTasklet ----------------------------
(* A small instance of PanTasklet for TLC.                                 *)
EXTENDS PanTasklet

CONSTANTS p1, p2

TwoProcs == {p1, p2}
AnyRead == {0, 1, NKeys}
============================================================================
