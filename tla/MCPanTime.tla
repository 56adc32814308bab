------------------------------ MODULE MCPanTime ------------------------------
(* Small instances of PanTime for TLC.                                     *)
EXTENDS PanTime, TLC

CONSTANTS p1, p2

TwoProcs == {p1, p2}
ProcSymmetry == Permutations(TwoProcs)
==============================================================================
