----------------------------- MODULE PanTasklet -----------------------------
(***************************************************************************)
(* The pan_tasklet driver: ButtonCore's lines and counters, ButtonSelect's *)
(* select, and an interrupt handler that counts and leaves the flag and    *)
(* the wake-up to a tasklet.  The tasklet is the kernel's: a SCHED bit, a  *)
(* place on the queue of the softirq that runs it, and the function that   *)
(* tasklet_init stored.  Running a queued tasklet whose SCHED bit is clear *)
(* is BUG() in the kernel, queueing it twice ties its list into a loop,    *)
(* and running it before tasklet_init calls a null function: each of them  *)
(* stops the machine here (oops).                                          *)
(*                                                                         *)
(* The softirq runs on the way out of the interrupt, before any process    *)
(* goes on, unless the load makes the kernel leave it to ksoftirqd;        *)
(* deferred records that this has happened.                                *)
(***************************************************************************)
EXTENDS ButtonSelect

VARIABLES
  sched,     \* the SCHED bit of pan_tasklet
  queued,    \* is pan_tasklet on the softirq's queue?
  ready,     \* has tasklet_init stored the function?
  oops,      \* has the kernel stopped?
  deferred,  \* history: has a process gone on while the tasklet was due?
  swallowed  \* history: keys whose schedule met the SCHED bit of tasklet_kill

taskVars == <<sched, queued, ready, oops, swallowed>>
vars == <<cpu, pc, idx, irq, values, ev_press, want, buf, presses, delivered,
          late, waitq, triggered, sched, queued, ready, oops, swallowed,
          deferred>>

Init ==
  /\ CoreInit /\ SelectInit
  /\ sched = FALSE /\ queued = FALSE /\ ready = FALSE
  /\ oops = FALSE /\ deferred = FALSE
  /\ swallowed = {}

(* A process goes on, possibly with the softirq left to ksoftirqd.         *)
ProcessesRun == ~oops /\ deferred' = (deferred \/ queued)

---------------------------------------------------------------------------
(* Interrupt context.                                                      *)

(* tasklet_schedule: test_and_set SCHED, and queue if it was clear.        *)
Schedule(k) ==
  IF sched
    THEN /\ swallowed' = IF queued THEN swallowed ELSE swallowed \cup {k}
         /\ UNCHANGED <<sched, queued, oops>>
    ELSE /\ sched' = TRUE /\ queued' = TRUE
         /\ oops' = queued
         /\ UNCHANGED swallowed

Interrupt(k) ==
  /\ ~oops
  /\ CountPress(k)
  /\ Schedule(k)
  /\ UNCHANGED <<ev_press, ready, deferred, waitVars>>

(* tasklet_action and pan_do_tasklet.                                      *)
RunTasklet ==
  /\ ~oops /\ queued
  /\ queued' = FALSE
  /\ IF sched /\ ready
       THEN /\ sched' = FALSE
            /\ ev_press' = 1
            /\ triggered' = triggered \cup Woken
            /\ UNCHANGED oops
       ELSE oops' = TRUE /\ UNCHANGED <<sched, ev_press, triggered>>
  /\ UNCHANGED <<cpu, pc, idx, irq, values, want, buf, history, waitq, ready,
                 swallowed, deferred>>

---------------------------------------------------------------------------
(* Process context.                                                        *)

(* tasklet_init sets the function and clears the state, each time the      *)
(* device is opened, also by an open that then fails.                      *)
TaskletInit_Not == UNCHANGED <<sched, ready>> \* mutant: no tasklet_init
TaskletInit == sched' = FALSE /\ ready' = TRUE

TaskletOpenEnter(p) ==
  /\ OpenEnter(p)
  /\ TaskletInit
  /\ UNCHANGED <<queued, oops, swallowed, waitVars>>

TaskletOpen(p) ==
  \/ TaskletOpenEnter(p)
  \/ /\ RequestIrq(p) \/ RequestFails(p) \/ Unwind(p)
     /\ UNCHANGED <<taskVars, waitVars>>

(* The last close: release starts with tasklet_kill.  (The process counts  *)
(* as a holder of the file until it goes on to free the lines.)            *)
TaskletClose(p) ==
  /\ Running(p) /\ pc[p] = "user"
  /\ Goto(p, IF \E q \in Procs \ {p} : InFile(q) THEN "out" ELSE "kill")
  /\ cpu' = Idle
  /\ UNCHANGED <<idx, irq, values, ev_press, want, buf, history, taskVars,
                 waitVars>>

(* tasklet_kill waits for the SCHED bit, yielding while it is set, and     *)
(* takes it ...                                                            *)
KillTakes(p) ==
  /\ Running(p) /\ pc[p] = "kill"
  /\ ~sched
  /\ sched' = TRUE
  /\ Goto(p, "killed")
  /\ cpu' = p
  /\ UNCHANGED <<idx, irq, values, ev_press, want, buf, history,
                 queued, ready, oops, swallowed, waitVars>>

(* ... and gives it back at the end.  The lines are still registered.      *)
KillBit_Kept == UNCHANGED sched    \* mutant: tasklet_kill keeps the bit
KillBit == sched' = FALSE

KillGives(p) ==
  /\ Running(p) /\ pc[p] = "killed"
  /\ KillBit
  /\ Goto(p, "release") /\ SetIdx(p, 1)
  /\ cpu' = p
  /\ UNCHANGED <<irq, values, ev_press, want, buf, history,
                 queued, ready, oops, swallowed, waitVars>>

TaskletRelease(p) ==
  \/ KillTakes(p) \/ KillGives(p)
  \/ FreeIrq(p) /\ UNCHANGED <<taskVars, waitVars>>

TaskletRead(p) ==
  \/ /\ Running(p) /\ pc[p] = "user"
     /\ \E n \in ReadSizes : ReadBody(p, n)
     /\ UNCHANGED <<taskVars, waitVars>>
  \/ (CopyKey(p) \/ CopyFault(p)) /\ UNCHANGED <<taskVars, waitVars>>
  \/ /\ ClearKey(p)
     /\ swallowed' = swallowed \ {idx[p]}
     /\ UNCHANGED <<sched, queued, ready, oops, waitVars>>

TaskletPoll(p) ==
  /\ \/ SelectEnter(p) \/ PollRegister(p) \/ PollReady(p) \/ PollNotReady(p)
     \/ SelectWake(p)
  /\ UNCHANGED taskVars

Process(p) ==
  /\ ProcessesRun
  /\ \/ TaskletOpen(p) \/ TaskletClose(p) \/ TaskletRelease(p)
     \/ TaskletRead(p) \/ TaskletPoll(p)
     \/ (\E q \in Procs : Fork(p, q)) /\ UNCHANGED <<taskVars, waitVars>>

Signal(p) == ProcessesRun /\ SelectInterrupted(p) /\ UNCHANGED taskVars

OtherDriver(k) ==
  /\ ProcessesRun
  /\ OtherTakes(k) \/ OtherFrees(k)
  /\ UNCHANGED <<taskVars, waitVars>>

Next ==
  \/ \E p \in Procs : Process(p) \/ Signal(p)
  \/ \E k \in Keys : Interrupt(k) \/ OtherDriver(k)
  \/ RunTasklet

Spec == Init /\ [][Next]_vars

(* The softirq runs, and the scheduler starves no process in the kernel.   *)
KernelStep(p) == Process(p) /\ pc[p] \notin {"out", "user"}

FairSpec ==
  Spec /\ WF_vars(RunTasklet) /\ \A p \in Procs : SF_vars(KernelStep(p))

---------------------------------------------------------------------------
(* Types.                                                                  *)
TypeOK ==
  /\ CoreTypeOK
  /\ waitq \subseteq Procs /\ triggered \subseteq Procs
  /\ \A b \in {sched, queued, ready, oops, deferred} : b \in BOOLEAN
  /\ swallowed \subseteq Keys

(* As long as the softirq runs on the way out of the interrupt, the kernel *)
(* never meets the tasklet queued without its SCHED bit, queued twice, or  *)
(* without a function, though every open initialises it again.             *)
NoOops == oops => deferred

(* A press that nobody is collecting has raised the flag, has a tasklet on *)
(* its way that will, or came in the one step of tasklet_kill in which the *)
(* SCHED bit is set and nothing is queued.                                 *)
PressScheduled ==
  \A k \in Keys : values[k] > 0 /\ ~oops =>
    \/ ev_press = 1 \/ queued \/ k \in swallowed
    \/ \E p \in Procs : WillClear(p, k)

(* When every descriptor is closed the tasklet is at rest, unless it was   *)
(* deferred: release frees the lines after tasklet_kill, so a late         *)
(* interrupt may schedule it again but it has run before release returns.  *)
TaskletAtRest ==
  (\A p \in Procs : pc[p] = "out") /\ ~deferred => ~queued /\ ~sched

(* A press counted when a process sleeps in select wakes it, through the   *)
(* tasklet, unless another holder of the descriptor reads the press first  *)
(* or the kernel stops.  A press that tasklet_kill swallowed does not: the *)
(* next application to open the device sleeps beside it until another      *)
(* press.                                                                  *)
PressEndsSelect ==
  \A p \in Procs, k \in Keys :
    pc[p] = "sleep" /\ values[k] > 0 /\ k \notin swallowed
      ~> pc[p] = "user" \/ values[k] = 0 \/ oops

(* release comes to its end: the bit tasklet_kill waits for is cleared,    *)
(* also when the softirq was deferred, unless the kernel stops.            *)
ReleaseReturns ==
  \A p \in Procs : pc[p] \in {"kill", "killed", "release"} ~> pc[p] = "out" \/ oops
============================================================================
