---------------------------- MODULE ButtonSelect ----------------------------
(***************************************************************************)
(* select and poll on a key driver, as the pan_irq and pan_tasklet tests   *)
(* use them.  A process inside select is at                                *)
(*   "poll"   the first call of the poll method, before poll_wait,         *)
(*   "check"  the test of ev_press (the only effect of later calls),       *)
(*   "sleep"  on its way to sleep or asleep.                               *)
(* A wake-up reaches the processes that poll_wait queued; each has a       *)
(* triggered mark of its own, so a wake-up between its test and its sleep  *)
(* keeps it from sleeping.                                                 *)
(***************************************************************************)
EXTENDS ButtonCore

VARIABLES
  waitq,      \* processes queued on pan_irq_waitq or pan_tasklet_waitq
  triggered   \* processes woken since they last tested ev_press

waitVars == <<waitq, triggered>>

SelectInit == waitq = {} /\ triggered = {}

(* wake_up_interruptible reaches every process on the queue.               *)
Woken_None == {}                   \* mutant: no wake-up
Woken == waitq

SelectEnter(p) ==
  /\ Running(p) /\ pc[p] = "user"
  /\ Goto(p, "poll")
  /\ cpu' = p
  /\ UNCHANGED <<idx, irq, values, ev_press, want, buf, history, waitVars>>

PollWait_Not(p) == waitq           \* mutant: no poll_wait
PollWait(p) == waitq \cup {p}

PollRegister(p) ==
  /\ Running(p) /\ pc[p] = "poll"
  /\ waitq' = PollWait(p)
  /\ Goto(p, "check")
  /\ cpu' = p
  /\ UNCHANGED <<idx, irq, values, ev_press, want, buf, history, triggered>>

(* Ready: select returns, and with it goes the queue entry.                *)
LeaveSelect(p) ==
  /\ Goto(p, "user")
  /\ waitq' = waitq \ {p} /\ triggered' = triggered \ {p}
  /\ cpu' = Idle
  /\ UNCHANGED <<idx, irq, values, ev_press, want, buf, history>>

PollReady(p) ==
  /\ Running(p) /\ pc[p] = "check" /\ ev_press = 1
  /\ LeaveSelect(p)

PollNotReady(p) ==
  /\ Running(p) /\ pc[p] = "check" /\ ev_press = 0
  /\ Goto(p, "sleep")
  /\ cpu' = Idle
  /\ UNCHANGED <<idx, irq, values, ev_press, want, buf, history, waitVars>>

(* The scheduler runs a woken process; it tests the flag again.            *)
SelectWake(p) ==
  /\ Running(p) /\ pc[p] = "sleep" /\ p \in triggered
  /\ triggered' = triggered \ {p}
  /\ Goto(p, "check")
  /\ cpu' = p
  /\ UNCHANGED <<idx, irq, values, ev_press, want, buf, history, waitq>>

(* A signal ends the select.                                               *)
SelectInterrupted(p) ==
  /\ Running(p) /\ pc[p] = "sleep"
  /\ LeaveSelect(p)

---------------------------------------------------------------------------
(* No lost wake-up: a process that sleeps in select without a wake-up on   *)
(* its way has the flag down, so no press waits behind its back.           *)
NoLostWakeup ==
  \A p \in Procs : pc[p] = "sleep" /\ p \notin triggered => ev_press = 0

(* A process is queued exactly while it is past poll_wait in its select.   *)
QueueExact ==
  /\ \A p \in Procs : p \in waitq <=> pc[p] \in {"check", "sleep"}
  /\ triggered \subseteq waitq
============================================================================
