------------------------------ MODULE PanTime ------------------------------
(***************************************************************************)
(* The pan_time driver counts seconds: open starts the timer and clears    *)
(* the counter, the timer's handler starts the timer again and counts.     *)
(***************************************************************************)
EXTENDS TimerDevice

CONSTANTS
  HZ,           \* ticks in a second
  MaxLate,      \* lateness of the softirq that runs a due timer, in ticks
  MaxJiffies    \* bound: length of a behaviour, in ticks

ASSUME TimeAssumption ==
  HZ \in Nat \ {0} /\ MaxLate \in Nat /\ MaxJiffies \in Nat

VARIABLES
  jiffies,      \* the kernel's clock
  expires,      \* when the timer is due
  counter,      \* seconds, as read returns them
  since         \* history: when a process' file was opened

vars == <<linked, pending, tangled, file, jiffies, expires, counter, since>>

Init ==
  /\ TimerInit
  /\ jiffies = 0 /\ expires = 0
  /\ counter = 0
  /\ since = [p \in Procs |-> 0]

(* time_open: the timer first, then the counter.                           *)
Open(p) ==
  /\ TimerOpen(p)
  /\ expires' = jiffies + HZ
  /\ counter' = 0
  /\ since' = [since EXCEPT ![p] = jiffies]
  /\ UNCHANGED jiffies

Fork(p, q) ==
  /\ TimerFork(p, q)
  /\ since' = [since EXCEPT ![q] = since[p]]
  /\ UNCHANGED <<jiffies, expires, counter>>

Close(p) ==
  /\ TimerClose(p)
  /\ UNCHANGED <<jiffies, expires, counter, since>>

(* key_timer_handle: mod_timer, then count.                                *)
NextExpiry_Early == expires + HZ - 1   \* mutant: a tick short
NextExpiry == jiffies + HZ

Counted == counter + 1

TimerRuns ==
  /\ TimerGoesOff /\ jiffies >= expires
  /\ expires' = NextExpiry
  /\ counter' = Counted
  /\ UNCHANGED <<jiffies, since>>

(* The clock ticks until a due timer must run.                             *)
Tick ==
  /\ ~tangled /\ jiffies < MaxJiffies
  /\ pending => jiffies < expires + MaxLate
  /\ jiffies' = jiffies + 1
  /\ UNCHANGED <<timerVars, expires, counter, since>>

Next ==
  \/ \E p \in Procs : Open(p) \/ Close(p) \/ \E q \in Procs : Fork(p, q)
  \/ TimerRuns
  \/ Tick

Spec == Init /\ [][Next]_vars

---------------------------------------------------------------------------
TypeOK ==
  /\ TimerTypeOK
  /\ jiffies \in Nat /\ expires \in Nat /\ counter \in Nat
  /\ since \in [Procs -> Nat]

(* "seconds after open": the counter never runs ahead of the seconds since *)
(* the open, and falls behind by the lateness of each second's timer and   *)
(* no more.                                                                *)
SecondsSinceOpen ==
  \A p \in Procs : HasOpen(p) =>
    /\ counter * HZ <= jiffies - since[p]
    /\ jiffies - since[p] <= (counter + 1) * (HZ + MaxLate)
============================================================================
