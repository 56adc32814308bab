----------------------------- MODULE PanButtons -----------------------------
(***************************************************************************)
(* The pan_buttons driver: ButtonCore's lines and counters, and a read     *)
(* that waits for an interrupt with wait_event_interruptible, whose result *)
(* it ignores.  Its file operations have no owner, so nothing keeps the    *)
(* module in the kernel while a file is open or a call sleeps, and its     *)
(* exit frees no line: rmmod leaves files, calls and lines that lead into  *)
(* memory that is no longer the module's.  The first use of them ends what *)
(* the model follows.  A waiting process is at                             *)
(*   "check"  queued by prepare_to_wait, before the test of ev_press,      *)
(*   "sleep"  on its way to sleep or asleep.                               *)
(* prepare_to_wait marks the process sleeping before the test, so a        *)
(* wake-up between the test and schedule() keeps it from sleeping:         *)
(* triggered holds the queued processes a wake-up has reached.             *)
(***************************************************************************)
EXTENDS ButtonCore

VARIABLES
  waitq,      \* processes queued on button_waitq
  triggered,  \* queued processes that a wake-up has reached
  module,     \* is pan_buttons.ko in the kernel?
  taken,      \* history: interrupts taken, of all keys
  served,     \* history: reads that went on to their copy without a signal
  strayed     \* has the kernel used the memory of a module it removed?

buttonVars == <<waitq, triggered, module, taken, served>>
vars == <<cpu, pc, idx, irq, values, ev_press, want, buf,
          presses, delivered, late, waitq, triggered, module,
          taken, served, strayed>>

Init ==
  /\ CoreInit
  /\ waitq = {} /\ triggered = {}
  /\ module = "loaded"
  /\ taken = 0 /\ served = 0
  /\ strayed = FALSE

(* wake_up_interruptible reaches every process on the queue.               *)
Woken_None == {}                   \* mutant: no wake-up
Woken == waitq

ButtonsInterrupt(k) ==
  /\ module = "loaded"
  /\ CountPress(k)
  /\ ev_press' = 1
  /\ triggered' = triggered \cup Woken
  /\ taken' = taken + 1
  /\ UNCHANGED <<waitq, module, served>>

(* open and close reach the driver through pan_buttons_fops.               *)
ButtonsOpen(p) ==
  /\ \/ module = "loaded" /\ OpenEnter(p)
     \/ RequestIrq(p) \/ RequestFails(p) \/ Unwind(p)
  /\ UNCHANGED buttonVars

ButtonsClose(p) ==
  /\ module = "loaded"
  /\ Close(p) \/ FreeIrq(p)
  /\ UNCHANGED buttonVars

(* read finds the flag up: it goes on without queueing.                    *)
ReadAtOnce(p) ==
  /\ Running(p) /\ pc[p] = "user" /\ module = "loaded"
  /\ ev_press = 1
  /\ \E n \in ReadSizes : ReadBody(p, n)
  /\ served' = served + 1
  /\ UNCHANGED <<waitq, triggered, module, taken>>

(* ... finds it down: prepare_to_wait.                                     *)
Queued_Not(p) == waitq             \* mutant: not queued before the test
Queued(p) == waitq \cup {p}

ReadWait(p) ==
  /\ Running(p) /\ pc[p] = "user" /\ module = "loaded"
  /\ ev_press = 0
  /\ Goto(p, "check")
  /\ waitq' = Queued(p)
  /\ cpu' = p
  /\ UNCHANGED <<idx, irq, values, ev_press, want, buf, history,
                 triggered, module, taken, served>>

(* The test after prepare_to_wait: the flag is up, finish_wait and go on.  *)
WaitOver(p) ==
  /\ \E n \in ReadSizes : ReadBody(p, n)
  /\ waitq' = waitq \ {p} /\ triggered' = triggered \ {p}
  /\ UNCHANGED <<module, taken>>

CheckReady(p) ==
  /\ Running(p) /\ pc[p] = "check" /\ ev_press = 1
  /\ WaitOver(p)
  /\ served' = served + 1

CheckNotReady(p) ==
  /\ Running(p) /\ pc[p] = "check" /\ ev_press = 0
  /\ Goto(p, "sleep")
  /\ cpu' = Idle
  /\ UNCHANGED <<idx, irq, values, ev_press, want, buf, history, buttonVars>>

(* Mutant of Wake: no loop, the woken process does not test again.         *)
Wake_Once(p) ==
  /\ Running(p) /\ pc[p] = "sleep" /\ p \in triggered
  /\ WaitOver(p)
  /\ served' = served + 1

(* Woken: autoremove took the process off the queue, the next turn of the  *)
(* loop queues it again and tests again.                                   *)
Wake(p) ==
  /\ Running(p) /\ pc[p] = "sleep" /\ p \in triggered
  /\ Goto(p, "check")
  /\ waitq' = Queued(p) /\ triggered' = triggered \ {p}
  /\ cpu' = p
  /\ UNCHANGED <<idx, irq, values, ev_press, want, buf, history,
                 module, taken, served>>

(* A signal ends the wait with -ERESTARTSYS; the read goes on as if the    *)
(* flag were up.                                                           *)
WaitInterrupted(p) ==
  /\ Running(p) /\ pc[p] = "sleep"
  /\ WaitOver(p)
  /\ UNCHANGED served

ButtonsRead(p) ==
  \/ ReadAtOnce(p) \/ ReadWait(p)
  \/ CheckReady(p) \/ CheckNotReady(p) \/ Wake(p)
  \/ (CopyKey(p) \/ CopyFault(p) \/ ClearKey(p)) /\ UNCHANGED buttonVars

(* rmmod, open files and calls asleep or not: pan_buttons_exit unregisters *)
(* the device and frees no line.  The module's data goes with it.          *)
Rmmod ==
  /\ module = "loaded" /\ cpu = Idle
  /\ module' = "absent"
  /\ pc' = [p \in Procs |-> IF pc[p] = "out" THEN "out" ELSE "gone"]
  /\ irq' = [k \in Keys |-> IF irq[k] = "mine" THEN "gone" ELSE irq[k]]
  /\ idx' = [p \in Procs |-> 0] /\ want' = [p \in Procs |-> 0]
  /\ buf' = [p \in Procs |-> NoCounts]
  /\ values' = NoCounts /\ ev_press' = 0
  /\ waitq' = {} /\ triggered' = {}
  /\ UNCHANGED <<cpu, history, taken, served>>

(* insmod: fresh data, which Rmmod left, also while a process still has    *)
(* the removed module's device open.                                       *)
Insmod ==
  /\ module = "absent" /\ cpu = Idle
  /\ module' = "loaded"
  /\ UNCHANGED <<coreVars, waitq, triggered, taken, served>>

(* An interrupt of a line that a removed module left, or a return into its *)
(* code, or a read, close or other use of its file.  The memory may be     *)
(* unmapped or hold anything.  (A child that inherits such a file can do   *)
(* no more than its parent.)                                               *)
Stray ==
  /\ \/ \E k \in Keys : irq[k] = "gone"
     \/ cpu = Idle /\ \E p \in Procs : pc[p] = "gone"
  /\ strayed' = TRUE
  /\ UNCHANGED <<coreVars, buttonVars>>

Environment ==
  \/ \E k \in Keys :
       \/ ButtonsInterrupt(k)
       \/ (OtherTakes(k) \/ OtherFrees(k)) /\ UNCHANGED buttonVars
  \/ Rmmod \/ Insmod

ButtonsFork(p) == (\E q \in Procs : Fork(p, q)) /\ UNCHANGED buttonVars

Work ==
  \/ \E p \in Procs :
       ButtonsOpen(p) \/ ButtonsClose(p) \/ ButtonsRead(p) \/ WaitInterrupted(p)
       \/ ButtonsFork(p)
  \/ Environment

Next ==
  /\ ~strayed
  /\ \/ Work /\ UNCHANGED strayed
     \/ Stray

Spec == Init /\ [][Next]_vars

(* The scheduler starves no process that can go on inside a read.          *)
FairSpec ==
  Spec /\ \A p \in Procs :
            SF_vars(/\ ~strayed /\ pc[p] # "user"
                    /\ ButtonsRead(p) /\ UNCHANGED strayed)

---------------------------------------------------------------------------
(* Types.                                                                  *)
TypeOK ==
  /\ CoreTypeOK
  /\ waitq \subseteq Procs /\ triggered \subseteq Procs
  /\ module \in {"loaded", "absent"}
  /\ taken \in Nat /\ served \in Nat
  /\ strayed \in BOOLEAN

(* A line that leads into a removed module is there because some process  *)
(* had the device open, or was in open or close, when the module went: one *)
(* removed while nobody uses it leaves none, whatever opens, failed opens  *)
(* and closes came before.  And as long as such a line is left, no open of *)
(* a module loaded since comes through: its request of the line fails.     *)
StaleLines ==
  \A k \in Keys : irq[k] = "gone" =>
    (\E p \in Procs : pc[p] = "gone") /\ \A p \in Procs : ~InFile(p)

(* A process asleep in read with no wake-up on its way has the flag down.  *)
NoLostWakeup ==
  \A p \in Procs : pc[p] = "sleep" /\ p \notin triggered => ev_press = 0

(* A press counted while a process sleeps in read ends its wait, unless    *)
(* another holder of the descriptor reads it first, the module is removed  *)
(* and the count with it, or memory of a removed module is used.  The copy *)
(* may be of no counter, so the read may be at its clear.                  *)
PressEndsRead ==
  \A p \in Procs, k \in Keys :
    pc[p] = "sleep" /\ values[k] > 0
      ~> pc[p] \in {"copy", "clear"} \/ values[k] = 0 \/ strayed

(* Reads without a press behind them are the signals' doing alone: but for *)
(* them, no more reads come back than interrupts were taken, one press     *)
(* ends one read whoever else it woke, and a caller that reads in a loop   *)
(* waits.  (A read may still find nothing: a press that comes during       *)
(* another read leaves the flag up over counters that are then cleared.)   *)
ReadsHavePresses == served <= taken
============================================================================
