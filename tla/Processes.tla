----------------------------- MODULE Processes -----------------------------
(* The processes and threads that call the drivers which pass data from    *)
(* one of them to another.                                                 *)
CONSTANT Procs
============================================================================
