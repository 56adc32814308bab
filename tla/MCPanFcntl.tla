----------------------------- MODULE MCPanFcntl -----------------------------
(* A small instance of PanFcntl for TLC.                                   *)
EXTENDS PanFcntl, TLC

CONSTANTS p1, p2, f1, f2

TwoProcs == {p1, p2}
TwoFiles == {f1, f2}
(* Backward, inside, at the end, and beyond what 32 bits hold.             *)
SomeOffsets == {-1, 1, Size, Word, Word + 1}
SomeCounts == {0, 1, Size}

Symmetric == Permutations(TwoProcs) \cup Permutations(TwoFiles)
============================================================================
