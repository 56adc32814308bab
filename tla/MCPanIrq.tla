------------------------------ MODULE MCPanIrq ------------------------------
(* Small instances of PanIrq for TLC: the constants of the runs.           *)
EXTENDS PanIrq, TLC

CONSTANTS p1, p2

TwoProcs == {p1, p2}
FullRead == {NKeys}
AnyRead == {0, 1, NKeys}

(* The processes are interchangeable.                                      *)
ProcSymmetry == Permutations(TwoProcs)
============================================================================
