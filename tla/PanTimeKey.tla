----------------------------- MODULE PanTimeKey -----------------------------
(***************************************************************************)
(* The pan_time_key driver: keys without interrupts.  While the device is  *)
(* open its timer samples the keys every tenth of a second; a key sampled  *)
(* down three times in a row is pressed, and every further scan says so    *)
(* again until the key is up.  select and read are as in the other key     *)
(* drivers, but read does not clear what it copies.                        *)
(*                                                                         *)
(* Only the order of scans matters here, not the clock.  A process is at   *)
(*   "user"   anywhere outside read and select,                            *)
(*   "poll"   select, before poll_wait, which may sleep for memory,        *)
(*   "check"  select, at the test of ev_press,                             *)
(*   "sleep"  select, on its way to sleep or asleep,                       *)
(*   "copy"   read, in copy_to_user, which may sleep.                      *)
(* At "check" alone it holds the processor (no preemption).                *)
(***************************************************************************)
EXTENDS TimerDevice

CONSTANT Keys       \* the keys, MAX_KEYS of them

VARIABLES
  held,       \* the keys that are down
  pressed,    \* per key: how often it was sampled down in a row, up to 3
  key_values, \* per key: is it pressed?  What read copies
  ev_press,   \* the flag select tests
  pc,         \* where each process is
  waitq,      \* processes queued on key_waitq
  triggered,  \* of those, the woken ones that have not tested ev_press since
  recent,     \* history: the last three samples of each key, newest first
  lowered     \* history: has a read begun since the last scan?

keyVars  == <<pressed, key_values, ev_press, recent, lowered>>
waitVars == <<pc, waitq, triggered>>
vars == <<linked, pending, tangled, file, held, pressed, key_values, ev_press,
          pc, waitq, triggered, recent, lowered>>

Init ==
  /\ TimerInit
  /\ held \in SUBSET Keys
  /\ pressed = [k \in Keys |-> 0]
  /\ key_values = [k \in Keys |-> 0]
  /\ ev_press = 0
  /\ pc = [p \in Procs |-> "user"]
  /\ waitq = {} /\ triggered = {}
  /\ recent = [k \in Keys |-> [i \in 1..3 |-> FALSE]]
  /\ lowered = FALSE

Running(p) == HasOpen(p) /\ \A q \in Procs \ {p} : pc[q] # "check"
Goto(p, label) == pc' = [pc EXCEPT ![p] = label]

(* A finger, at any time.                                                  *)
KeyMoves(k) ==
  /\ held' = (held \ {k}) \cup ({k} \ held)
  /\ UNCHANGED <<timerVars, keyVars, waitVars>>

---------------------------------------------------------------------------
(* The timer's handler.                                                    *)
Counted(n) == IF n + 1 > 2 THEN 3 ELSE n + 1

(* The count is tested before the sample clears it, so the scan that finds *)
(* a pressed key up raises the flag once more.                             *)
Count(k) == IF k \in held THEN Counted(pressed[k]) ELSE pressed[k]
Signals_Edge(k) == Count(k) = 3 /\ pressed[k] # 3 \* mutant: only the third scan
Signals(k) == Count(k) = 3

Value_Kept(k) == IF Count(k) = 3 THEN 1 ELSE key_values[k] \* mutant: not cleared
Value(k) ==
  IF k \notin held /\ Count(k) # 0 THEN 0
  ELSE IF Count(k) = 3 THEN 1 ELSE key_values[k]

Woken_None == {}                   \* mutant: no wake-up
Woken == waitq

Scan ==
  /\ TimerGoesOff
  /\ pressed' = [k \in Keys |-> IF k \in held THEN Count(k) ELSE 0]
  /\ key_values' = [k \in Keys |-> Value(k)]
  /\ IF \E k \in Keys : Signals(k)
       THEN ev_press' = 1 /\ triggered' = triggered \cup Woken
       ELSE UNCHANGED <<ev_press, triggered>>
  /\ recent' = [k \in Keys |-> [i \in 1..3 |-> IF i = 1 THEN k \in held
                                                      ELSE recent[k][i - 1]]]
  /\ lowered' = FALSE
  /\ UNCHANGED <<held, pc, waitq>>

---------------------------------------------------------------------------
(* The file.  What the scans counted stays for the next open.              *)
Idle(p) == pc[p] = "user" /\ \A q \in Procs : pc[q] # "check"

Open(p) ==
  /\ Idle(p) /\ TimerOpen(p)
  /\ UNCHANGED <<held, keyVars, waitVars>>

Close(p) ==
  /\ Idle(p) /\ TimerClose(p)
  /\ UNCHANGED <<held, keyVars, waitVars>>

Fork(p, q) ==
  /\ Idle(p) /\ TimerFork(p, q)
  /\ UNCHANGED <<held, keyVars, waitVars>>

(* read: lower the flag, copy, and say 4 bytes or -EFAULT.                 *)
ReadBegins(p) ==
  /\ Running(p) /\ pc[p] = "user"
  /\ ev_press' = 0 /\ lowered' = TRUE
  /\ Goto(p, "copy")
  /\ UNCHANGED <<timerVars, held, pressed, key_values, recent, waitq, triggered>>

ReadEnds(p) ==
  /\ Running(p) /\ pc[p] = "copy"
  /\ Goto(p, "user")
  /\ UNCHANGED <<timerVars, held, keyVars, waitq, triggered>>

(* select.                                                                 *)
SelectEnter(p) ==
  /\ Running(p) /\ pc[p] = "user"
  /\ Goto(p, "poll")
  /\ UNCHANGED <<timerVars, held, keyVars, waitq, triggered>>

PollWait_Not(p) == waitq           \* mutant: no poll_wait
PollWait(p) == waitq \cup {p}

PollRegister(p) ==
  /\ Running(p) /\ pc[p] = "poll"
  /\ waitq' = PollWait(p)
  /\ Goto(p, "check")
  /\ UNCHANGED <<timerVars, held, keyVars, triggered>>

LeaveSelect(p) ==
  /\ Goto(p, "user")
  /\ waitq' = waitq \ {p} /\ triggered' = triggered \ {p}
  /\ UNCHANGED <<timerVars, held, keyVars>>

PollCheck(p) ==
  /\ Running(p) /\ pc[p] = "check"
  /\ \/ ev_press = 1 /\ LeaveSelect(p)
     \/ /\ ev_press = 0 /\ Goto(p, "sleep")
        /\ UNCHANGED <<timerVars, held, keyVars, waitq, triggered>>

(* The scheduler runs a woken process; it tests the flag again.            *)
SelectWake(p) ==
  /\ Running(p) /\ pc[p] = "sleep" /\ p \in triggered
  /\ Goto(p, "check")
  /\ triggered' = triggered \ {p}
  /\ UNCHANGED <<timerVars, held, keyVars, waitq>>

SelectInterrupted(p) ==
  /\ Running(p) /\ pc[p] = "sleep"
  /\ LeaveSelect(p)

---------------------------------------------------------------------------
Process(p) ==
  ~tangled /\ \/ Open(p) \/ Close(p) \/ \E q \in Procs : Fork(p, q)
              \/ ReadBegins(p) \/ ReadEnds(p)
              \/ SelectEnter(p) \/ PollRegister(p) \/ PollCheck(p)
              \/ SelectWake(p) \/ SelectInterrupted(p)

Next ==
  \/ Scan
  \/ \E p \in Procs : Process(p)
  \/ \E k \in Keys : ~tangled /\ KeyMoves(k)

Spec == Init /\ [][Next]_vars

(* The softirq runs the timer once it is due.                              *)
FairSpec == Spec /\ WF_vars(Scan)

---------------------------------------------------------------------------
TypeOK ==
  /\ TimerTypeOK
  /\ held \subseteq Keys
  /\ pressed \in [Keys -> 0..3]
  /\ key_values \in [Keys -> {0, 1}] /\ ev_press \in {0, 1}
  /\ pc \in [Procs -> {"user", "poll", "check", "sleep", "copy"}]
  /\ waitq \subseteq Procs /\ triggered \subseteq waitq
  /\ recent \in [Keys -> [1..3 -> BOOLEAN]]
  /\ lowered \in BOOLEAN

(* Debouncing: a key is pressed for readers exactly when the last three    *)
(* scans found it down, whatever reads, closes and opens came in between.  *)
Debounced ==
  \A k \in Keys :
    key_values[k] = 1 <=> recent[k][1] /\ recent[k][2] /\ recent[k][3]

(* A pressed key has the flag up, but for a read since the last scan: the  *)
(* flag that a read lowers over a held key is up again at the next scan.   *)
PressedSignalled ==
  \A k \in Keys : key_values[k] = 1 => ev_press = 1 \/ lowered

(* No process sleeps in select over a raised flag without a wake-up on its *)
(* way.                                                                    *)
NoLostWakeup ==
  \A p \in Procs : pc[p] = "sleep" /\ p \notin triggered => ev_press = 0

(* A key held down wakes every process that sleeps in select, also one     *)
(* that read the key before and selects again.                             *)
HeldKeyWakes ==
  \A p \in Procs, k \in Keys :
    pc[p] = "sleep" /\ k \in held
      ~> k \notin held \/ pc[p] # "sleep" \/ p \in triggered
=============================================================================
