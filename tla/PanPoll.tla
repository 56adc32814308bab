------------------------------ MODULE PanPoll ------------------------------
(***************************************************************************)
(* The pan_poll driver, in both variants: a number that writes store, a    *)
(* flag that select and poll test, a wait queue, and the beeper, which     *)
(* sounds from a poll to the next read.  write of the block variant wakes  *)
(* nobody.  Several processes have the device open, as open always         *)
(* succeeds.  A process is at                                              *)
(*   "user"   anywhere outside the driver,                                 *)
(*   "poll"   select, before poll_wait, which may sleep for memory,        *)
(*   "sleep"  select, on its way to sleep or asleep,                       *)
(*   "copy"   read, in copy_to_user, which may sleep,                      *)
(*   "write"  write, in copy_from_user, which may sleep.                   *)
(* No interrupt touches the driver, and there is no preemption: all else   *)
(* that a call does is one step.                                           *)
(***************************************************************************)
EXTENDS Processes, Beeper

CONSTANT
  MaxWrites   \* bound: writes

ASSUME PollAssumption == MaxWrites \in Nat

VARIABLES
  wakes,      \* is it the variant whose write wakes?
  flag, number,
  pc,         \* where each process is
  waitq,      \* processes queued on wq
  triggered,  \* of those, the woken ones that have not tested flag since
  result,     \* per process: what its last select said
  writes,     \* history: writes so far; each stores its number here
  unread,     \* history: has no read delivered the number of the last write?
  overtaken,  \* history: reads that were copying when the last write came
  faulted     \* history: did a read that began after the last write fail?

history == <<writes, unread, overtaken, faulted>>
pollVars == <<wakes, flag, number, pc, waitq, triggered, result, history>>
boardVars == <<output, level, down, test, answer, wakes, flag, number, pc,
               waitq, triggered, result, writes, unread, overtaken, faulted>>

PollInit ==
  /\ BeeperInit
  /\ wakes \in BOOLEAN
  /\ flag = 0 /\ number = 0
  /\ pc = [p \in Procs |-> "user"]
  /\ waitq = {} /\ triggered = {}
  /\ result = [p \in Procs |-> "none"]
  /\ writes = 0
  /\ unread = FALSE /\ overtaken = {} /\ faulted = FALSE

Goto(p, label) == pc' = [pc EXCEPT ![p] = label]

---------------------------------------------------------------------------
(* read: lower the flag, silence the beeper, copy.                         *)
Lowered_Not == flag                \* mutant: the flag stays up
Lowered == 0

ReadBegins(p) ==
  /\ pc[p] = "user"
  /\ flag' = Lowered
  /\ PinDriven(0)
  /\ Goto(p, "copy")
  /\ overtaken' = overtaken \ {p}
  /\ UNCHANGED <<testVars, wakes, number, waitq, triggered, result, writes,
                 unread, faulted>>

(* The copy gets through, or fails.  A read that a write overtook may have *)
(* copied before it or after, so it returns the old number or the new one. *)
ReadEnds(p) ==
  /\ pc[p] = "copy"
  /\ Goto(p, "user")
  /\ IF p \in overtaken
       THEN unread' \in {FALSE, unread} /\ UNCHANGED faulted
       ELSE \/ unread' = FALSE /\ UNCHANGED faulted
            \/ faulted' = TRUE /\ UNCHANGED unread
  /\ UNCHANGED <<pinVars, testVars, wakes, flag, number, waitq, triggered,
                 result, writes, overtaken>>

(* write: a copy that fails leaves 0 in number (the kernel clears what it  *)
(* did not copy), and raises the flag like any other.                      *)
WriteBegins(p) ==
  /\ pc[p] = "user" /\ writes < MaxWrites
  /\ Goto(p, "write")
  /\ UNCHANGED <<pinVars, testVars, wakes, flag, number, waitq, triggered,
                 result, history>>

Woken_None == {}                   \* mutant: no wake-up in either variant
Woken == IF wakes THEN waitq ELSE {}

Raised_Success(ok) == IF ok THEN 1 ELSE flag \* mutant: not after a fault
Raised(ok) == 1

WriteEnds(p) ==
  /\ pc[p] = "write" /\ writes < MaxWrites
  /\ writes' = writes + 1
  /\ \E ok \in BOOLEAN :
       /\ number' = IF ok THEN writes + 1 ELSE 0
       /\ flag' = Raised(ok)
  /\ triggered' = triggered \cup Woken
  /\ unread' = TRUE /\ faulted' = FALSE
  /\ overtaken' = {q \in Procs : pc[q] = "copy"}
  /\ Goto(p, "user")
  /\ UNCHANGED <<pinVars, testVars, wakes, waitq, result>>

---------------------------------------------------------------------------
(* select and poll.                                                        *)
SelectEnter(p) ==
  /\ pc[p] = "user"
  /\ Goto(p, "poll")
  /\ UNCHANGED <<pinVars, testVars, wakes, flag, number, waitq, triggered,
                 result, history>>

(* poll_poll after poll_wait: start the beeper, test the flag.  last is    *)
(* the test that select makes after its time is over or a signal has come. *)
PollTest(p, queue, last) ==
  /\ PinDriven(1)
  /\ triggered' = triggered \ {p}
  /\ IF flag = 1 \/ last
       THEN /\ Goto(p, "user") /\ waitq' = queue \ {p}
            /\ result' = [result EXCEPT ![p] = IF flag = 1 THEN "data" ELSE "none"]
       ELSE Goto(p, "sleep") /\ waitq' = queue /\ UNCHANGED result
  /\ UNCHANGED <<testVars, wakes, flag, number, history>>

PollWait_Not(p) == waitq           \* mutant: no poll_wait
PollWait(p) == waitq \cup {p}

PollFirst(p) == pc[p] = "poll" /\ PollTest(p, PollWait(p), FALSE)
SelectWake(p) == pc[p] = "sleep" /\ p \in triggered /\ PollTest(p, waitq, FALSE)
TimeOut(p) == pc[p] = "sleep" /\ PollTest(p, waitq, TRUE)

Process(p) ==
  \/ ReadBegins(p) \/ ReadEnds(p) \/ WriteBegins(p) \/ WriteEnds(p)
  \/ SelectEnter(p) \/ PollFirst(p) \/ SelectWake(p) \/ TimeOut(p)

PollNext ==
  \/ \E p \in Procs : Process(p)
  \/ (TestProgram \/ KeyMoves) /\ UNCHANGED pollVars

PollSpec == PollInit /\ [][PollNext]_boardVars

(* The scheduler runs a woken process and the test program.                *)
FairSpec ==
  /\ PollSpec
  /\ \A p \in Procs : WF_boardVars(SelectWake(p))
  /\ WF_boardVars(TestProgram /\ UNCHANGED pollVars)

---------------------------------------------------------------------------
(* Types.                                                                  *)
PollTypeOK ==
  /\ BeeperTypeOK
  /\ wakes \in BOOLEAN /\ flag \in {0, 1} /\ number \in Nat
  /\ pc \in [Procs -> {"user", "poll", "sleep", "copy", "write"}]
  /\ waitq \subseteq Procs /\ triggered \subseteq waitq
  /\ result \in [Procs -> {"none", "data"}]
  /\ writes \in Nat
  /\ unread \in BOOLEAN /\ overtaken \subseteq Procs /\ faulted \in BOOLEAN

(* A read that will return the number of the last write, or fail.          *)
Collecting(p) == pc[p] = "copy" /\ p \notin overtaken

(* Where the number of the last write is while the flag is down: delivered, *)
(* being copied by a read that began after it, or lost to such a read that *)
(* failed.  And a flag that is up means a number nobody has read, unless   *)
(* the write overtook a read: only then is one number delivered twice.     *)
FlagAccount ==
  /\ unread /\ flag = 0 => faulted \/ \E p \in Procs : Collecting(p)
  /\ flag = 1 => unread \/ overtaken # {}

(* No process sleeps in select over a raised flag without a wake-up on its *)
(* way, in the variant that wakes.                                         *)
NoLostWakeup ==
  wakes =>
    \A p \in Procs : pc[p] = "sleep" /\ p \notin triggered => flag = 0

(* "No data within 8 seconds" is true, in both variants: a select ends     *)
(* without data only when the last number written was read, is being read  *)
(* by a read that began after it, or was lost to such a read that failed.  *)
EmptyHanded ==
  [][\A p \in Procs :
       pc[p] = "sleep" /\ pc'[p] = "user" /\ result'[p] = "none" /\ unread
         => faulted \/ \E q \in Procs : Collecting(q)]_boardVars

(* A write ends every select that sleeps, long before its time is over, in *)
(* the variant that wakes, unless another process reads the number first.  *)
WriteEndsSelect ==
  \A p \in Procs :
    wakes /\ pc[p] = "sleep" /\ flag = 1 ~> pc[p] # "sleep" \/ flag = 0

(* The beeper follows the key: whatever pan_poll does to the pin meanwhile *)
(* and however the pin was configured, a key that stays down is heard.     *)
BeepFollowsKey == down ~> ~down \/ (output /\ level = 1)
============================================================================
