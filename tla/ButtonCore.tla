---------------------------- MODULE ButtonCore ----------------------------
(***************************************************************************)
(* What the three interrupt-driven key drivers (pan_irq, pan_tasklet,      *)
(* pan_buttons) have in common: open claims one interrupt line per key in  *)
(* a loop and unwinds on failure, release frees the lines in a loop, and   *)
(* read copies the press counters to the caller and clears them, with no   *)
(* lock and no interrupt masking around any of it.  The drivers EXTEND     *)
(* this module, add their interrupt path and their way of waiting, and     *)
(* put the next-state relation together.                                   *)
(*                                                                         *)
(* Scheduling.  The kernel is a uniprocessor built without preemption      *)
(* (CONFIG_PREEMPT_NONE, CONFIG_BROKEN_ON_SMP), so kernel code of a        *)
(* process is interrupted by interrupt handlers at any point, but another  *)
(* process gets the processor only where the code may sleep.  cpu is the   *)
(* process that holds the processor inside the kernel: a step that is      *)
(* followed by a point where the code may sleep, or by the return to user  *)
(* mode, leaves Idle there; every other step keeps the processor.          *)
(***************************************************************************)
EXTENDS Integers, FiniteSets

CONSTANTS
  Procs,        \* the processes that use the device
  Idle,         \* no process is inside a stretch that cannot sleep
  NKeys,        \* number of keys (6 in pan_irq and pan_tasklet, 4 in pan_buttons)
  MaxPress,     \* bound: interrupts per key
  Sharing,      \* may a descriptor be shared (fork, dup, threads)?
  ReadSizes,    \* the counts read is called with, in whole counters
  CopyMayFail   \* may copy_to_user fault?

Keys == 1..NKeys

ASSUME CoreAssumption ==
  /\ Procs # {} /\ IsFiniteSet(Procs) /\ Idle \notin Procs
  /\ NKeys \in Nat \ {0}
  /\ MaxPress \in Nat
  /\ Sharing \in BOOLEAN
  /\ ReadSizes \subseteq 0..NKeys
  /\ CopyMayFail \in BOOLEAN

VARIABLES
  cpu,        \* the process that holds the processor in the kernel, or Idle
  pc,         \* where each process is
  idx,        \* the loop index of its request, free, copy or clear loop
  irq,        \* owner of each key's interrupt line
  values,     \* press counters: pan_irq_values, pan_tasklet_values, press_cnt
  ev_press,   \* the flag that says an interrupt happened
  want,       \* how many counters a read was asked for
  buf,        \* the counters a read has copied out and not yet cleared
  presses,    \* history: interrupts taken per key
  delivered,  \* history: presses that successful reads returned per key
  late        \* history: interrupts between a read's copy and its clear of a key

history  == <<presses, delivered, late>>
coreVars == <<cpu, pc, idx, irq, values, ev_press, want, buf,
              presses, delivered, late>>

(* Outside the kernel, in open, in release, in read, in user mode with the *)
(* file open; then the drivers' ways of waiting and stopping.  A process   *)
(* is "gone" when the file it has open, or the call it is in, belongs to a *)
(* module that has been removed under it.                                  *)
Labels == {"out", "open", "unwind", "release", "copy", "clear", "user",
           "poll", "check", "sleep", "kill", "killed", "gone"}

(* "gone": registered by a module that has been removed since.             *)
Lines == {"free", "mine", "other", "gone"}
NoCounts == [k \in Keys |-> 0]

CoreInit ==
  /\ cpu = Idle
  /\ pc = [p \in Procs |-> "out"]
  /\ idx = [p \in Procs |-> 0]
  /\ irq = [k \in Keys |-> "free"]
  /\ values = NoCounts
  /\ ev_press = 0
  /\ want = [p \in Procs |-> 0]
  /\ buf = [p \in Procs |-> NoCounts]
  /\ presses = NoCounts
  /\ delivered = NoCounts
  /\ late = NoCounts

(* A process may take a step when nobody else is inside a stretch of       *)
(* kernel code that cannot sleep.                                          *)
Running(p) == cpu \in {p, Idle}

Goto(p, label) == pc' = [pc EXCEPT ![p] = label]
SetIdx(p, i) == idx' = [idx EXCEPT ![p] = i]

(* A process that has not the device open, or is in its open call.         *)
Outside(p) == pc[p] \in {"out", "open", "unwind", "release", "gone"}

(* A process whose descriptor refers to the open file.  A call in progress *)
(* holds a reference too, so release never runs beside it.                 *)
InFile(p) == ~Outside(p)

---------------------------------------------------------------------------
(* open: request the lines one by one.  request_irq allocates memory, so   *)
(* it may sleep, and the driver has no lock against a second open.         *)

OpenEnter(p) ==
  /\ Running(p) /\ pc[p] = "out"
  /\ Goto(p, "open") /\ SetIdx(p, 1)
  /\ cpu' = Idle
  /\ UNCHANGED <<irq, values, ev_press, want, buf, history>>

(* A line can be requested while nobody has it: the flags say              *)
(* IRQF_TRIGGER_FALLING and nothing of sharing.                            *)
Requestable_Shared(k) == TRUE      \* mutant: requested with IRQF_SHARED
Requestable(k) == irq[k] = "free"

RequestIrq(p) ==
  LET k == idx[p] IN
  /\ Running(p) /\ pc[p] = "open"
  /\ Requestable(k)
  /\ irq' = [irq EXCEPT ![k] = "mine"]
  /\ IF k = NKeys
       THEN Goto(p, "user") /\ SetIdx(p, 0)
       ELSE Goto(p, "open") /\ SetIdx(p, k + 1)
  /\ cpu' = Idle
  /\ UNCHANGED <<values, ev_press, want, buf, history>>

(* The line is taken (-EBUSY: no IRQF_SHARED), or there is no memory.      *)
(* The loop breaks and "i--" steps back over the line that failed.         *)
LastRequested_Failed(i) == i       \* mutant: "i--" is missing
LastRequested(i) == i - 1

RequestFails(p) ==
  /\ Running(p) /\ pc[p] = "open"
  /\ Goto(p, "unwind") /\ SetIdx(p, LastRequested(idx[p]))
  /\ cpu' = Idle
  /\ UNCHANGED <<irq, values, ev_press, want, buf, history>>

NextToFree_Stuck(i) == i           \* mutant: the loop does not step down
NextToFree(i) == i - 1

Unwind(p) ==
  /\ Running(p) /\ pc[p] = "unwind"
  /\ IF idx[p] = 0
       THEN Goto(p, "out") /\ UNCHANGED <<irq, idx>>
       ELSE /\ irq' = [irq EXCEPT ![idx[p]] = "free"]
            /\ SetIdx(p, NextToFree(idx[p]))
            /\ UNCHANGED pc
  /\ cpu' = Idle
  /\ UNCHANGED <<values, ev_press, want, buf, history>>

(* close: the last descriptor of the file calls release.                   *)
Close(p) ==
  /\ Running(p) /\ pc[p] = "user"
  /\ IF \E q \in Procs \ {p} : InFile(q)
       THEN Goto(p, "out") /\ UNCHANGED idx
       ELSE Goto(p, "release") /\ SetIdx(p, 1)
  /\ cpu' = Idle
  /\ UNCHANGED <<irq, values, ev_press, want, buf, history>>

ReleaseDone_TooFar(k) == k > NKeys \* mutant: one key too far
ReleaseDone_Short(k) == k = NKeys - 1 \* mutant: one key short
ReleaseDone(k) == k = NKeys

FreeIrq(p) ==
  LET k == idx[p] IN
  /\ Running(p) /\ pc[p] = "release"
  /\ irq' = [irq EXCEPT ![k] = "free"]
  /\ IF ReleaseDone(k)
       THEN Goto(p, "out") /\ SetIdx(p, 0)
       ELSE Goto(p, "release") /\ SetIdx(p, k + 1)
  /\ cpu' = Idle
  /\ UNCHANGED <<values, ev_press, want, buf, history>>

(* fork, dup or a thread: q gets a descriptor of p's open file.            *)
Fork(p, q) ==
  /\ Sharing
  /\ Running(p) /\ pc[p] = "user" /\ pc[q] = "out"
  /\ Goto(q, "user")
  /\ cpu' = Idle
  /\ UNCHANGED <<idx, irq, values, ev_press, want, buf, history>>

(* The other key drivers claim the same six external interrupts.           *)
OtherTakes(k) ==
  /\ cpu = Idle /\ irq[k] = "free"
  /\ irq' = [irq EXCEPT ![k] = "other"]
  /\ UNCHANGED <<cpu, pc, idx, values, ev_press, want, buf, history>>

OtherFrees(k) ==
  /\ cpu = Idle /\ irq[k] = "other"
  /\ irq' = [irq EXCEPT ![k] = "free"]
  /\ UNCHANGED <<cpu, pc, idx, values, ev_press, want, buf, history>>

---------------------------------------------------------------------------
(* read, from "ev_press = 0" on: lower the flag, copy the counters out,    *)
(* clear them.  copy_to_user may sleep on a page fault of the caller's     *)
(* buffer before any counter it stores; memset never sleeps.  Interrupts   *)
(* come in between any two words of either.                                *)

ReadStart_Clear(n) == "clear"      \* mutant: memset before the copy
ReadStart(n) == IF n = 0 THEN "clear" ELSE "copy"

ReadBody(p, n) ==
  /\ ev_press' = 0
  /\ want' = [want EXCEPT ![p] = n]
  /\ Goto(p, ReadStart(n)) /\ SetIdx(p, 1)
  /\ cpu' = IF n = 0 THEN p ELSE Idle
  /\ UNCHANGED <<irq, values, buf, history>>

CopyKey(p) ==
  LET k == idx[p] IN
  /\ Running(p) /\ pc[p] = "copy"
  /\ buf' = [buf EXCEPT ![p][k] = values[k]]
  /\ IF k = want[p]
       THEN Goto(p, "clear") /\ SetIdx(p, 1) /\ cpu' = p
       ELSE Goto(p, "copy") /\ SetIdx(p, k + 1) /\ cpu' = Idle
  /\ UNCHANGED <<irq, values, ev_press, want, history>>

(* copy_to_user stops at an unmapped page: the read will return -EFAULT,   *)
(* so its caller gets no counts, but memset runs all the same.             *)
CopyFault(p) ==
  /\ CopyMayFail
  /\ Running(p) /\ pc[p] = "copy"
  /\ buf' = [buf EXCEPT ![p] = NoCounts]
  /\ Goto(p, "clear") /\ SetIdx(p, 1)
  /\ cpu' = p
  /\ UNCHANGED <<irq, values, ev_press, want, history>>

Cleared_Short(k) ==                \* mutant: memset one counter short
  IF k = NKeys THEN values ELSE [values EXCEPT ![k] = 0]
Cleared(k) == [values EXCEPT ![k] = 0]

(* Mutant of ClearKey: the flag is lowered at the end of read.             *)
ClearKey_FlagLast(p) ==
  LET k == idx[p] IN
  /\ Running(p) /\ pc[p] = "clear"
  /\ values' = Cleared(k)
  /\ delivered' = [delivered EXCEPT ![k] = @ + buf[p][k]]
  /\ buf' = [buf EXCEPT ![p][k] = 0]
  /\ IF k = NKeys
       THEN /\ Goto(p, "user") /\ SetIdx(p, 0) /\ cpu' = Idle
            /\ want' = [want EXCEPT ![p] = 0] /\ ev_press' = 0
       ELSE /\ Goto(p, "clear") /\ SetIdx(p, k + 1) /\ cpu' = p
            /\ UNCHANGED <<want, ev_press>>
  /\ UNCHANGED <<irq, presses, late>>

(* memset clears all the counters, also those beyond the caller's count.   *)
(* The history takes the copied count as delivered when its counter is     *)
(* cleared; after the last one read returns.                               *)
ClearKey(p) ==
  LET k == idx[p] IN
  /\ Running(p) /\ pc[p] = "clear"
  /\ values' = Cleared(k)
  /\ delivered' = [delivered EXCEPT ![k] = @ + buf[p][k]]
  /\ buf' = [buf EXCEPT ![p][k] = 0]
  /\ IF k = NKeys
       THEN /\ Goto(p, "user") /\ SetIdx(p, 0) /\ cpu' = Idle
            /\ want' = [want EXCEPT ![p] = 0]
       ELSE /\ Goto(p, "clear") /\ SetIdx(p, k + 1) /\ cpu' = p
            /\ UNCHANGED want
  /\ UNCHANGED <<irq, ev_press, presses, late>>

(* The counter half of the interrupt handlers: *dev_id = *dev_id + 1.      *)
InWindow(p, k) ==
  \/ pc[p] = "copy" /\ k < idx[p]
  \/ pc[p] = "clear" /\ k >= idx[p]

CountPress(k) ==
  /\ irq[k] = "mine"
  /\ presses[k] < MaxPress
  /\ values' = [values EXCEPT ![k] = @ + 1]
  /\ presses' = [presses EXCEPT ![k] = @ + 1]
  /\ late' = IF \E p \in Procs : InWindow(p, k)
               THEN [late EXCEPT ![k] = @ + 1] ELSE late
  /\ UNCHANGED <<cpu, pc, idx, irq, want, buf, delivered>>

---------------------------------------------------------------------------
(* Types, and the loop indices inside the tables their loops run over.     *)
IndexOK ==
  \A p \in Procs :
    /\ pc[p] \in {"open", "release", "copy", "clear"} => idx[p] \in Keys
    /\ pc[p] = "copy" => idx[p] <= want[p]

CoreTypeOK ==
  /\ cpu \in Procs \cup {Idle}
  /\ pc \in [Procs -> Labels]
  /\ idx \in [Procs -> 0..NKeys]
  /\ irq \in [Keys -> Lines]
  /\ values \in [Keys -> Nat]
  /\ ev_press \in {0, 1}
  /\ want \in [Procs -> 0..NKeys]
  /\ buf \in [Procs -> [Keys -> Nat]]
  /\ presses \in [Keys -> Nat]
  /\ delivered \in [Keys -> Nat]
  /\ late \in [Keys -> Nat]
  /\ IndexOK

(* What the lines, the counters and the flag promise.                      *)

(* The lines process p has requested and not freed yet.                    *)
Claims(p, k) ==
  \/ InFile(p)
  \/ pc[p] = "open" /\ k < idx[p]
  \/ pc[p] = "unwind" /\ k <= idx[p]
  \/ pc[p] = "release" /\ k >= idx[p]

(* The interrupt lines and the open calls agree at every moment: a line    *)
(* is registered exactly while some call or open file accounts for it, and *)
(* only holders of the same open file account for the same line.  So no    *)
(* request leaks, no line is freed twice or freed under its owner, however *)
(* the request, unwind and free loops of two processes interleave.         *)
LinesClaimed ==
  \A k \in Keys : irq[k] = "mine" <=> \E p \in Procs : Claims(p, k)

ClaimsExclusive ==
  \A p, q \in Procs, k \in Keys :
    p # q /\ Claims(p, k) /\ Claims(q, k) => InFile(p) /\ InFile(q)

LinesExact == LinesClaimed /\ ClaimsExclusive

(* A descriptor that is not shared cannot be opened a second time: the     *)
(* first interrupt line refuses the second open.  The unlocked read rests  *)
(* on this.                                                                *)
SingleHolder ==
  Sharing \/ \A p, q \in Procs : InFile(p) /\ InFile(q) => p = q

(* Counts handed out and counts still held never exceed the interrupts     *)
(* taken: no press is reported twice.                                      *)
NoPhantomPress ==
  \A k \in Keys : delivered[k] + values[k] <= presses[k]

(* Every press is delivered, still counted, or came between a read's copy  *)
(* of its key and the memset that follows: nothing else loses a press.     *)
LossOnlyInWindow ==
  \A k \in Keys : presses[k] <= delivered[k] + values[k] + late[k]

(* Reads that reach the memset of counter k without having passed it.      *)
WillClear(p, k) ==
  \/ pc[p] = "copy"
  \/ pc[p] = "clear" /\ k >= idx[p]

(* A press nobody is about to collect keeps the flag up, so that a later   *)
(* select or read does not wait although there is something to report.     *)
PendingSignalled ==
  \A k \in Keys : values[k] > 0 =>
    ev_press = 1 \/ \E p \in Procs : WillClear(p, k)

---------------------------------------------------------------------------
(* What the proofs add to make the accounts inductive.                     *)

(* A read holds copies only of the counters between its copy and its       *)
(* clear, and no copy exceeds its counter: nobody else clears meanwhile.   *)
BufBounded ==
  \A p \in Procs, k \in Keys :
    buf[p][k] <= values[k] /\ (~InWindow(p, k) => buf[p][k] = 0)

(* Every read asks for all the counters and gets them.                     *)
FullReads == ~Sharing /\ ~CopyMayFail /\ ReadSizes = {NKeys}

(* Between its copy and its clear, a counter's copy accounts for all the   *)
(* presses but the late ones.                                              *)
WindowAccount ==
  \A p \in Procs, k \in Keys :
    /\ pc[p] = "copy" => want[p] = NKeys
    /\ InWindow(p, k) => presses[k] <= delivered[k] + buf[p][k] + late[k]
============================================================================
