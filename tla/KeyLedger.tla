----------------------------- MODULE KeyLedger -----------------------------
(***************************************************************************)
(* What a key driver promises about its counters, without interrupt lines, *)
(* descriptors, flags or loops: presses are counted one at a time, and a   *)
(* collection empties a key's counter and reports at most what was in it.  *)
(* How much of it a collection loses is left open: the drivers copy and    *)
(* clear without masking interrupts, clear counters the caller did not ask *)
(* for, and clear after a failed copy.                                     *)
(***************************************************************************)
EXTENDS Naturals

CONSTANT Keys

VARIABLES pressed, pending, reported

ledger == <<pressed, pending, reported>>

Init ==
  /\ pressed = [k \in Keys |-> 0]
  /\ pending = [k \in Keys |-> 0]
  /\ reported = [k \in Keys |-> 0]

Press(k) ==
  /\ pressed' = [pressed EXCEPT ![k] = @ + 1]
  /\ pending' = [pending EXCEPT ![k] = @ + 1]
  /\ UNCHANGED reported

Collect(k) ==
  \E r \in 0..pending[k] :
    /\ pending' = [pending EXCEPT ![k] = 0]
    /\ reported' = [reported EXCEPT ![k] = @ + r]
    /\ UNCHANGED pressed

Next == \E k \in Keys : Press(k) \/ Collect(k)

Spec == Init /\ [][Next]_ledger
============================================================================
