---------------------------- MODULE TimerDevice ----------------------------
(***************************************************************************)
(* What the two timer drivers (pan_time, pan_time_key) have in common:     *)
(* open starts the driver's one timer, its handler starts it again, and    *)
(* release deletes it.  Nothing keeps a second process from opening the    *)
(* device, which starts the same timer a second time.                      *)
(*                                                                         *)
(* A timer is linked into the kernel's timer wheel while it waits; pending *)
(* is what the timer itself says of that (its entry points somewhere).     *)
(* init_timer resets the entry and does not unlink it, so the add_timer    *)
(* that follows links a waiting timer twice: the wheel's lists are tangled,*)
(* and what the machine does next is not modelled.  Handlers run in the    *)
(* softirq, so each is one step for the processes.                         *)
(***************************************************************************)
EXTENDS Integers

CONSTANTS
  Procs,        \* the processes that use the device
  OneAtATime    \* do the processes open the device one after the other?

ASSUME TimerAssumption == OneAtATime \in BOOLEAN /\ "none" \notin Procs

VARIABLES
  linked, pending, tangled,
  file          \* the open file a process has a descriptor of: the process
                \* that opened it, or "none"

timerVars == <<linked, pending, tangled, file>>

TimerInit ==
  /\ linked = FALSE /\ pending = FALSE /\ tangled = FALSE
  /\ file = [p \in Procs |-> "none"]

HasOpen(p) == file[p] # "none"

(* open: init_timer and add_timer in a row.  A file is named by the process*)
(* that opened it, so (a bound) it opens again only when no child holds    *)
(* the earlier file.                                                       *)
TimerOpen(p) ==
  /\ ~tangled /\ ~HasOpen(p)
  /\ \A q \in Procs : file[q] # p
  /\ OneAtATime => \A q \in Procs : ~HasOpen(q)
  /\ file' = [file EXCEPT ![p] = p]
  /\ tangled' = linked
  /\ linked' = TRUE /\ pending' = TRUE

(* fork: the child's descriptor refers to the same open file.              *)
TimerFork(p, q) ==
  /\ ~tangled /\ HasOpen(p) /\ ~HasOpen(q)
  /\ file' = [file EXCEPT ![q] = file[p]]
  /\ UNCHANGED <<linked, pending, tangled>>

(* close: the last descriptor of the file calls release.                   *)
Deleted_Not == UNCHANGED <<linked, pending>> \* mutant: no del_timer
Deleted == linked' = (linked /\ ~pending) /\ pending' = FALSE

TimerClose(p) ==
  /\ ~tangled /\ HasOpen(p)
  /\ file' = [file EXCEPT ![p] = "none"]
  /\ IF \E q \in Procs \ {p} : file[q] = file[p]
       THEN UNCHANGED <<linked, pending>> ELSE Deleted
  /\ UNCHANGED tangled

(* The handler runs, and starts the timer again: the wheel has unlinked it *)
(* before the call, so it is linked once afterwards, as before.            *)
TimerGoesOff ==
  /\ ~tangled /\ pending
  /\ UNCHANGED timerVars

TimerTypeOK ==
  /\ linked \in BOOLEAN /\ pending \in BOOLEAN /\ tangled \in BOOLEAN
  /\ file \in [Procs -> Procs \cup {"none"}]

---------------------------------------------------------------------------
(* The wheel is never linked to one timer twice.                           *)
NoTangle == ~tangled

(* With no descriptor left the timer does not wait any more: rmmod, which  *)
(* frees it, can come at once.                                             *)
TimerQuiet == (\A p \in Procs : ~HasOpen(p)) => ~linked

(* What the proofs add: the timer waits exactly while the device is open,  *)
(* and all descriptors are of one open file.                               *)
WaitsWhileOpen == linked = pending /\ (pending <=> \E p \in Procs : HasOpen(p))
OneFile == \A p, q \in Procs : HasOpen(p) /\ HasOpen(q) => file[p] = file[q]
============================================================================
