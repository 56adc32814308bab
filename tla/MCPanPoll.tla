----------------------------- MODULE MCPanPoll -----------------------------
(* A small instance of PanPoll for TLC.                                    *)
EXTENDS PanPoll

CONSTANTS p1, p2, p3

ThreeProcs == {p1, p2, p3}
============================================================================
