--------------------------- MODULE MCNoSemaphore ---------------------------
(* A small instance of NoSemaphore for TLC.                                *)
EXTENDS NoSemaphore, TLC

CONSTANTS p1, p2, p3

ThreeProcs == {p1, p2, p3}

(* The processes are interchangeable.                                      *)
ProcSymmetry == Permutations(ThreeProcs)
============================================================================
