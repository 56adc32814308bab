---------------------------- MODULE PanIrqProofs ----------------------------
(***************************************************************************)
(* Theorems about the pan_irq driver, for any number of processes and keys *)
(* and any sizes of read, with and without shared descriptors.  The        *)
(* lemmas of ButtonCoreProofs cover the steps of ButtonCore; what is added *)
(* here are the steps of select, and the composition.                      *)
(***************************************************************************)
EXTENDS PanIrq, ButtonCoreProofs

USE DEF Requestable, LastRequested, NextToFree, ReleaseDone, ReadStart,
        Cleared, Woken, PollWait

(* The steps inside select touch neither lines nor counters nor loop       *)
(* indices; the process keeps its reference to the file throughout.        *)
SelectStep(p) ==
  \/ SelectEnter(p) \/ PollRegister(p) \/ PollReady(p) \/ PollNotReady(p)
  \/ SelectWake(p) \/ SelectInterrupted(p)

LEMMA SelectFrame ==
  ASSUME CoreTypeOK, NEW p \in Procs, SelectStep(p)
  PROVE  /\ UNCHANGED <<idx, irq, values, ev_press, want, buf,
                        presses, delivered, late>>
         /\ cpu' \in Procs \cup {Idle}
         /\ \E l \in {"user", "poll", "check", "sleep"} : Goto(p, l)
         /\ pc[p] \in {"user", "poll", "check", "sleep"}
BY DEF SelectStep, SelectEnter, PollRegister, PollReady, PollNotReady,
       SelectWake, SelectInterrupted, LeaveSelect, history

LEMMA SelectTypes ==
  ASSUME CoreTypeOK, NEW p \in Procs, SelectStep(p)
  PROVE  CoreTypeOK'
<1>1. PICK l \in {"user", "poll", "check", "sleep"} : Goto(p, l)
  BY SelectFrame
<1>2. pc' \in [Procs -> Labels]
  BY <1>1 DEF Goto, CoreTypeOK, Labels
<1>3. pc'[p] = l /\ \A q \in Procs \ {p} : pc'[q] = pc[q]
  BY <1>1 DEF Goto, CoreTypeOK
<1>4. idx' = idx /\ want' = want
  BY SelectFrame
<1>5. IndexOK'
  BY <1>3, <1>4 DEF CoreTypeOK, IndexOK
<1> QED
  BY <1>2, <1>5, SelectFrame DEF CoreTypeOK

---------------------------------------------------------------------------
(* Every step of the driver is one of these.                               *)
LEMMA Steps ==
  ASSUME Next
  PROVE  \/ \E p \in Procs :
              \/ /\ \/ OpenEnter(p) \/ RequestIrq(p) \/ RequestFails(p)
                    \/ Unwind(p) \/ Close(p) \/ FreeIrq(p)
                    \/ \E q \in Procs : Fork(p, q)
                    \/ CopyKey(p) \/ CopyFault(p) \/ ClearKey(p)
                 /\ UNCHANGED waitVars
              \/ /\ pc[p] = "user"
                 /\ \E n \in ReadSizes : ReadBody(p, n)
                 /\ UNCHANGED waitVars
              \/ SelectStep(p)
         \/ \E k \in Keys :
              \/ Interrupt(k)
              \/ (OtherTakes(k) \/ OtherFrees(k)) /\ UNCHANGED waitVars
BY DEF Next, Choice, Kernel, Environment, Read, SelectStep

(* Every variable keeps its type, and no loop of open, release or read     *)
(* leaves its table, for any number of processes and keys.                 *)
THEOREM TypeCorrect == Spec => []TypeOK
<1>1. Init => TypeOK
  BY InitTypes DEF Init, SelectInit, TypeOK
<1>2. TypeOK /\ [Next]_vars => TypeOK'
  <2> SUFFICES ASSUME TypeOK, [Next]_vars PROVE TypeOK'
    OBVIOUS
  <2>1. CASE UNCHANGED vars
    BY <2>1 DEF vars, TypeOK, CoreTypeOK, IndexOK
  <2>2. ASSUME NEW p \in Procs,
               \/ OpenEnter(p) \/ RequestIrq(p) \/ RequestFails(p)
               \/ Unwind(p) \/ Close(p) \/ FreeIrq(p)
               \/ \E q \in Procs : Fork(p, q)
               \/ CopyKey(p) \/ CopyFault(p) \/ ClearKey(p),
               UNCHANGED waitVars
        PROVE  TypeOK'
    BY <2>2, OpenTypes, FileTypes, CopyTypes, ClearTypes DEF TypeOK, waitVars
  <2>3. ASSUME NEW p \in Procs, NEW n \in ReadSizes, ReadBody(p, n),
               UNCHANGED waitVars
        PROVE  TypeOK'
    BY <2>3, ReadTypes DEF TypeOK, waitVars
  <2>4. ASSUME NEW p \in Procs, SelectStep(p) PROVE TypeOK'
    <3>1. waitq' \subseteq Procs /\ triggered' \subseteq Procs
      BY <2>4 DEF SelectStep, SelectEnter, PollRegister, PollReady,
         PollNotReady, SelectWake, SelectInterrupted, LeaveSelect, waitVars,
         TypeOK
    <3> QED
      BY <2>4, <3>1, SelectTypes DEF TypeOK
  <2>5. ASSUME NEW k \in Keys, Interrupt(k) PROVE TypeOK'
    BY <2>5, PressTypes DEF Interrupt, TypeOK
  <2>6. ASSUME NEW k \in Keys, OtherTakes(k) \/ OtherFrees(k),
               UNCHANGED waitVars
        PROVE  TypeOK'
    BY <2>6, OtherTypes DEF TypeOK, waitVars
  <2> QED
    BY <2>1, <2>2, <2>3, <2>4, <2>5, <2>6, Steps
<1> QED
  BY <1>1, <1>2, PTL DEF Spec

---------------------------------------------------------------------------
(* Lines and claims agree: no leak, no double free, no line freed under    *)
(* another open, whatever the interleaving of the request, unwind and free *)
(* loops of any number of processes.                                       *)
THEOREM LinesCorrect == Spec => []LinesExact
<1>1. Init => LinesExact
  BY InitLines DEF Init
<1>2. TypeOK /\ LinesExact /\ [Next]_vars => LinesExact'
  <2> SUFFICES ASSUME CoreTypeOK, LinesExact, [Next]_vars PROVE LinesExact'
    BY DEF TypeOK
  <2>1. CASE UNCHANGED vars
    <3>1. irq' = irq /\ pc' = pc /\ idx' = idx
      BY <2>1 DEF vars
    <3> QED
      BY <3>1, SameClaims, MoveLines
  <2>2. ASSUME NEW p \in Procs,
               \/ OpenEnter(p) \/ RequestIrq(p) \/ RequestFails(p)
               \/ Unwind(p) \/ Close(p) \/ FreeIrq(p)
               \/ \E q \in Procs : Fork(p, q)
        PROVE  LinesExact'
    BY <2>2, RequestLines, FreeLines, EnterLines, CloseLines, ForkLines
  <2>3. ASSUME NEW p \in Procs,
               \/ pc[p] = "user" /\ \E n \in ReadSizes : ReadBody(p, n)
               \/ CopyKey(p) \/ CopyFault(p) \/ ClearKey(p)
        PROVE  LinesExact'
    <3>1. pc[p] \in {"user", "copy", "clear"}
      BY <2>3 DEF CopyKey, CopyFault, ClearKey
    <3>2. pc'[p] \in {"user", "copy", "clear"}
      BY <2>3 DEF ReadBody, CopyKey, CopyFault, ClearKey, Goto, CoreTypeOK
    <3>3. /\ irq' = irq
          /\ \A q \in Procs \ {p} : pc'[q] = pc[q] /\ idx'[q] = idx[q]
      BY <2>3 DEF ReadBody, CopyKey, CopyFault, ClearKey, Goto, SetIdx,
                  CoreTypeOK
    <3>4. InFile(p) /\ InFile(p)'
      BY <3>1, <3>2 DEF InFile, Outside
    <3> QED
      BY <3>3, <3>4, InsideLines
  <2>4. ASSUME NEW p \in Procs, SelectStep(p) PROVE LinesExact'
    <3>1. PICK l \in {"user", "poll", "check", "sleep"} : Goto(p, l)
      BY <2>4, SelectFrame
    <3>2. pc'[p] = l /\ \A q \in Procs \ {p} : pc'[q] = pc[q]
      BY <3>1 DEF Goto, CoreTypeOK
    <3>3. InFile(p) /\ InFile(p)'
      BY <2>4, <3>2, SelectFrame DEF InFile, Outside
    <3>4. irq' = irq /\ idx' = idx
      BY <2>4, SelectFrame
    <3> QED
      BY <3>2, <3>3, <3>4, InsideLines
  <2>5. ASSUME NEW k \in Keys, Interrupt(k) PROVE LinesExact'
    <3>1. irq' = irq /\ pc' = pc /\ idx' = idx
      BY <2>5 DEF Interrupt, CountPress
    <3> QED
      BY <3>1, SameClaims, MoveLines
  <2>6. ASSUME NEW k \in Keys, OtherTakes(k) \/ OtherFrees(k)
        PROVE  LinesExact'
    BY <2>6, OtherLines
  <2> QED
    BY <2>1, <2>2, <2>3, <2>4, <2>5, <2>6, Steps
<1> QED
  BY <1>1, <1>2, TypeCorrect, PTL DEF Spec

(* Without sharing the device has at most one holder: the first interrupt  *)
(* line turns the second open away.                                        *)
THEOREM SingleCorrect == Spec => []SingleHolder
<1>1. Init => SingleHolder
  BY DEF Init, CoreInit, SingleHolder, InFile, Outside
<1>2. TypeOK /\ LinesExact /\ SingleHolder /\ [Next]_vars => SingleHolder'
  <2> SUFFICES ASSUME CoreTypeOK, LinesExact, SingleHolder, [Next]_vars
               PROVE  SingleHolder'
    BY DEF TypeOK
  <2>1. CASE Sharing
    BY <2>1 DEF SingleHolder
  <2>2. ASSUME ~Sharing, NEW p \in Procs,
               \/ OpenEnter(p) \/ RequestFails(p) \/ Unwind(p) \/ Close(p)
               \/ FreeIrq(p) \/ \E q \in Procs : Fork(p, q)
        PROVE  SingleHolder'
    <3>1. \A q \in Procs : InFile(q)' => InFile(q)
      BY <2>2 DEF OpenEnter, RequestFails, Unwind, Close, FreeIrq, Fork,
                  Goto, CoreTypeOK, InFile, Outside
    <3> QED
      BY <3>1, SingleKept
  <2>3. ASSUME NEW p \in Procs,
               \/ pc[p] = "user" /\ \E n \in ReadSizes : ReadBody(p, n)
               \/ CopyKey(p) \/ CopyFault(p) \/ ClearKey(p)
        PROVE  SingleHolder'
    <3>1. \A q \in Procs : InFile(q)' => InFile(q)
      BY <2>3 DEF ReadBody, CopyKey, CopyFault, ClearKey, Goto, CoreTypeOK,
                  InFile, Outside
    <3> QED
      BY <3>1, SingleKept
  <2>4. ASSUME NEW p \in Procs, SelectStep(p) PROVE SingleHolder'
    <3>1. PICK l \in {"user", "poll", "check", "sleep"} : Goto(p, l)
      BY <2>4, SelectFrame
    <3>2. \A q \in Procs : InFile(q)' => InFile(q)
      BY <2>4, <3>1, SelectFrame DEF Goto, CoreTypeOK, InFile, Outside
    <3> QED
      BY <3>2, SingleKept
  <2>5. CASE pc' = pc
    BY <2>5 DEF SingleHolder, InFile, Outside
  <2>6. ASSUME NEW k \in Keys,
               Interrupt(k) \/ OtherTakes(k) \/ OtherFrees(k)
        PROVE  pc' = pc
    BY <2>6 DEF Interrupt, CountPress, OtherTakes, OtherFrees
  <2>7. UNCHANGED vars => pc' = pc
    BY DEF vars
  <2> QED
    BY <2>1, <2>2, <2>3, <2>4, <2>5, <2>6, <2>7, RequestSingle, Steps
<1> QED
  BY <1>1, <1>2, TypeCorrect, LinesCorrect, PTL DEF Spec

---------------------------------------------------------------------------
(* A step that is neither a read nor an interrupt touches no counter and   *)
(* moves no process into or out of a read.                                 *)
LEMMA QuietNext ==
  ASSUME CoreTypeOK,
         \/ \E p \in Procs :
              \/ OpenEnter(p) \/ RequestIrq(p) \/ RequestFails(p)
              \/ Unwind(p) \/ Close(p) \/ FreeIrq(p)
              \/ \E q \in Procs : Fork(p, q)
              \/ SelectStep(p)
         \/ \E k \in Keys : OtherTakes(k) \/ OtherFrees(k)
         \/ UNCHANGED vars
  PROVE  /\ UNCHANGED <<values, ev_press, want, buf, presses, delivered, late>>
         /\ \A q \in Procs : pc'[q] = "copy" => pc[q] = "copy"
         /\ \A q \in Procs, k \in Keys :
              /\ InWindow(q, k)' <=> InWindow(q, k)
              /\ WillClear(q, k)' <=> WillClear(q, k)
<1>1. ASSUME NEW p \in Procs, SelectStep(p)
      PROVE  /\ \A q \in Procs : pc'[q] = "copy" => pc[q] = "copy"
             /\ \A q \in Procs, k \in Keys :
                  /\ InWindow(q, k)' <=> InWindow(q, k)
                  /\ WillClear(q, k)' <=> WillClear(q, k)
  <2>1. PICK l \in {"user", "poll", "check", "sleep"} : Goto(p, l)
    BY <1>1, SelectFrame
  <2>2. /\ pc[p] \notin {"copy", "clear"} /\ pc'[p] \notin {"copy", "clear"}
        /\ \A q \in Procs \ {p} : pc'[q] = pc[q] /\ idx'[q] = idx[q]
    BY <1>1, <2>1, SelectFrame DEF Goto, CoreTypeOK
  <2> QED
    BY <2>2, OutsideRead
<1>2. ASSUME \/ \E k \in Keys : OtherTakes(k) \/ OtherFrees(k)
             \/ UNCHANGED vars
      PROVE  UNCHANGED <<pc, idx, values, ev_press, want, buf,
                         presses, delivered, late>>
  BY <1>2 DEF OtherTakes, OtherFrees, vars, history
<1> QED
  BY <1>1, <1>2, QuietSteps, InPlace, SelectFrame

(* The inductive account of the presses: a copy never exceeds its counter. *)
Account == ~Sharing => BufBounded /\ NoPhantomPress

LEMMA AccountInvariant == Spec => []Account
<1>1. Init => Account
  BY InitAccount DEF Init, Account
<1>2. TypeOK /\ SingleHolder /\ Account /\ [Next]_vars => Account'
  <2> SUFFICES ASSUME CoreTypeOK, SingleHolder, ~Sharing,
                      BufBounded, NoPhantomPress, [Next]_vars
               PROVE  BufBounded' /\ NoPhantomPress'
    BY DEF TypeOK, Account
  <2>1. ASSUME \/ \E p \in Procs :
                    \/ OpenEnter(p) \/ RequestIrq(p) \/ RequestFails(p)
                    \/ Unwind(p) \/ Close(p) \/ FreeIrq(p)
                    \/ \E q \in Procs : Fork(p, q)
                    \/ SelectStep(p)
               \/ \E k \in Keys : OtherTakes(k) \/ OtherFrees(k)
               \/ UNCHANGED vars
        PROVE  BufBounded' /\ NoPhantomPress'
    BY <2>1, QuietNext, QuietAccount
  <2>2. ASSUME NEW p \in Procs,
               \/ pc[p] = "user" /\ \E n \in ReadSizes : ReadBody(p, n)
               \/ CopyKey(p) \/ CopyFault(p) \/ ClearKey(p)
        PROVE  BufBounded' /\ NoPhantomPress'
    BY <2>2, ReadAccount, CopyAccount, FaultAccount, ClearAccount
  <2>3. ASSUME NEW k \in Keys, Interrupt(k)
        PROVE  BufBounded' /\ NoPhantomPress'
    BY <2>3, PressAccount DEF Interrupt
  <2> QED
    BY <2>1, <2>2, <2>3, Steps
<1> QED
  BY <1>1, <1>2, TypeCorrect, SingleCorrect, PTL DEF Spec

(* Without sharing no press is reported twice: what reads have returned    *)
(* and what is still counted never exceeds the interrupts taken.           *)
THEOREM NoPhantomCorrect ==
  ASSUME ~Sharing PROVE Spec => []NoPhantomPress
<1>1. Account => NoPhantomPress
  BY DEF Account
<1> QED
  BY <1>1, AccountInvariant, PTL

(* The second half of the account: what a read has copied and not cleared  *)
(* covers every press but the late ones.                                   *)
LossAccount == FullReads => LossOnlyInWindow /\ WindowAccount

LEMMA LossInvariant == Spec => []LossAccount
<1>1. Init => LossAccount
  BY InitAccount DEF Init, LossAccount
<1>2. TypeOK /\ SingleHolder /\ Account /\ LossAccount /\ [Next]_vars
        => LossAccount'
  <2> SUFFICES ASSUME CoreTypeOK, SingleHolder, FullReads, BufBounded,
                      LossOnlyInWindow, WindowAccount, [Next]_vars
               PROVE  LossOnlyInWindow' /\ WindowAccount'
    BY DEF TypeOK, Account, LossAccount, FullReads
  <2>1. ASSUME \/ \E p \in Procs :
                    \/ OpenEnter(p) \/ RequestIrq(p) \/ RequestFails(p)
                    \/ Unwind(p) \/ Close(p) \/ FreeIrq(p)
                    \/ \E q \in Procs : Fork(p, q)
                    \/ SelectStep(p)
               \/ \E k \in Keys : OtherTakes(k) \/ OtherFrees(k)
               \/ UNCHANGED vars
        PROVE  LossOnlyInWindow' /\ WindowAccount'
    <3>1. \A q \in Procs : pc'[q] = "copy" => want'[q] = NKeys
      BY <2>1, QuietNext, KeysFact DEF WindowAccount
    <3> QED
      BY <2>1, <3>1, QuietNext, QuietAccount
  <2>2. ASSUME NEW p \in Procs,
               \/ pc[p] = "user" /\ \E n \in ReadSizes : ReadBody(p, n)
               \/ CopyKey(p) \/ CopyFault(p) \/ ClearKey(p)
        PROVE  LossOnlyInWindow' /\ WindowAccount'
    BY <2>2, ReadAccount, CopyAccount, FaultAccount, ClearAccount
    DEF FullReads
  <2>3. ASSUME NEW k \in Keys, Interrupt(k)
        PROVE  LossOnlyInWindow' /\ WindowAccount'
    BY <2>3, PressAccount DEF Interrupt
  <2> QED
    BY <2>1, <2>2, <2>3, Steps
<1> QED
  BY <1>1, <1>2, TypeCorrect, SingleCorrect, AccountInvariant, PTL DEF Spec

(* When every read asks for all the counters and none faults, presses are  *)
(* lost only between a read's copy of a key and the memset that follows.   *)
THEOREM LossCorrect ==
  ASSUME FullReads PROVE Spec => []LossOnlyInWindow
<1>1. LossAccount => LossOnlyInWindow
  BY DEF LossAccount
<1> QED
  BY <1>1, LossInvariant, PTL

---------------------------------------------------------------------------
(* Uncollected presses keep the flag up, with any number of readers of a   *)
(* shared descriptor: read lowers the flag before it copies.               *)
THEOREM PendingCorrect == Spec => []PendingSignalled
<1>1. Init => PendingSignalled
  BY InitPending DEF Init
<1>2. TypeOK /\ PendingSignalled /\ [Next]_vars => PendingSignalled'
  <2> SUFFICES ASSUME CoreTypeOK, PendingSignalled, [Next]_vars
               PROVE  PendingSignalled'
    BY DEF TypeOK
  <2>1. ASSUME \/ \E p \in Procs :
                    \/ OpenEnter(p) \/ RequestIrq(p) \/ RequestFails(p)
                    \/ Unwind(p) \/ Close(p) \/ FreeIrq(p)
                    \/ \E q \in Procs : Fork(p, q)
                    \/ SelectStep(p)
               \/ \E k \in Keys : OtherTakes(k) \/ OtherFrees(k)
               \/ UNCHANGED vars
        PROVE  PendingSignalled'
    BY <2>1, QuietNext, QuietPending
  <2>2. ASSUME NEW p \in Procs,
               \/ pc[p] = "user" /\ \E n \in ReadSizes : ReadBody(p, n)
               \/ CopyKey(p) \/ CopyFault(p) \/ ClearKey(p)
        PROVE  PendingSignalled'
    BY <2>2, ReadPending, CopyPending, ClearPending
  <2>3. ASSUME NEW k \in Keys, Interrupt(k) PROVE PendingSignalled'
    BY <2>3 DEF Interrupt, PendingSignalled
  <2> QED
    BY <2>1, <2>2, <2>3, Steps
<1> QED
  BY <1>1, <1>2, TypeCorrect, PTL DEF Spec

(* No process sleeps in select while the flag is up and no wake-up is on   *)
(* its way: poll_wait queues it before the flag is tested, and its own     *)
(* triggered mark covers the gap between the test and the sleep.           *)
THEOREM NoLostWakeupCorrect == Spec => [](QueueExact /\ NoLostWakeup)
<1> DEFINE Inv == QueueExact /\ NoLostWakeup
<1>1. Init => Inv
  BY DEF Init, CoreInit, SelectInit, QueueExact, NoLostWakeup
<1>2. TypeOK /\ Inv /\ [Next]_vars => Inv'
  <2> SUFFICES ASSUME CoreTypeOK, QueueExact, NoLostWakeup, [Next]_vars
               PROVE  QueueExact' /\ NoLostWakeup'
    BY DEF TypeOK
  <2>1. ASSUME NEW p \in Procs, UNCHANGED waitVars, ev_press' \in {0, ev_press},
               NEW l \in Labels \ {"check", "sleep"}, Goto(p, l),
               pc[p] \notin {"check", "sleep"}
        PROVE  QueueExact' /\ NoLostWakeup'
    BY <2>1 DEF Goto, CoreTypeOK, QueueExact, NoLostWakeup, waitVars, Labels
  <2>2. ASSUME UNCHANGED <<pc, ev_press, waitq, triggered>>
        PROVE  QueueExact' /\ NoLostWakeup'
    BY <2>2 DEF QueueExact, NoLostWakeup
  <2>3. ASSUME NEW p \in Procs, UNCHANGED waitVars,
               \/ OpenEnter(p) \/ RequestIrq(p) \/ RequestFails(p)
               \/ Unwind(p) \/ Close(p) \/ FreeIrq(p)
        PROVE  QueueExact' /\ NoLostWakeup'
    <3>1. /\ pc[p] \notin {"check", "sleep"} /\ ev_press' = ev_press
          /\ (\E l \in Labels \ {"check", "sleep"} : Goto(p, l)) \/ pc' = pc
      BY <2>3 DEF OpenEnter, RequestIrq, RequestFails, Unwind, Close, FreeIrq,
                  Labels
    <3> QED
      BY <2>1, <2>2, <2>3, <3>1 DEF waitVars
  <2>4. ASSUME NEW p \in Procs, NEW q \in Procs, Fork(p, q), UNCHANGED waitVars
        PROVE  QueueExact' /\ NoLostWakeup'
    <3>1. /\ pc[q] \notin {"check", "sleep"} /\ ev_press' = ev_press
          /\ Goto(q, "user") /\ "user" \in Labels \ {"check", "sleep"}
      BY <2>4 DEF Fork, Labels
    <3> QED
      BY <2>1, <2>4, <3>1
  <2>5. ASSUME NEW p \in Procs, UNCHANGED waitVars,
               \/ pc[p] = "user" /\ \E n \in ReadSizes : ReadBody(p, n)
               \/ CopyKey(p) \/ CopyFault(p) \/ ClearKey(p)
        PROVE  QueueExact' /\ NoLostWakeup'
    <3>1. /\ pc[p] \notin {"check", "sleep"} /\ ev_press' \in {0, ev_press}
          /\ \E l \in Labels \ {"check", "sleep"} : Goto(p, l)
      BY <2>5 DEF ReadBody, CopyKey, CopyFault, ClearKey, Labels
    <3> QED
      BY <2>1, <2>5, <3>1
  <2>6. ASSUME NEW p \in Procs, SelectStep(p)
        PROVE  QueueExact' /\ NoLostWakeup'
    <3>1. CASE SelectEnter(p)
      BY <3>1 DEF SelectEnter, Goto, CoreTypeOK, QueueExact, NoLostWakeup,
                  waitVars
    <3>2. CASE PollRegister(p)
      BY <3>2 DEF PollRegister, Goto, CoreTypeOK, QueueExact, NoLostWakeup
    <3>3. CASE PollReady(p) \/ SelectInterrupted(p)
      BY <3>3 DEF PollReady, SelectInterrupted, LeaveSelect, Goto, CoreTypeOK,
                  QueueExact, NoLostWakeup
    <3>4. CASE PollNotReady(p)
      BY <3>4 DEF PollNotReady, Goto, CoreTypeOK, QueueExact, NoLostWakeup,
                  waitVars
    <3>5. CASE SelectWake(p)
      BY <3>5 DEF SelectWake, Goto, CoreTypeOK, QueueExact, NoLostWakeup
    <3> QED
      BY <2>6, <3>1, <3>2, <3>3, <3>4, <3>5 DEF SelectStep
  <2>7. ASSUME NEW k \in Keys, Interrupt(k)
        PROVE  QueueExact' /\ NoLostWakeup'
    BY <2>7 DEF Interrupt, CountPress, QueueExact, NoLostWakeup
  <2>8. ASSUME NEW k \in Keys, OtherTakes(k) \/ OtherFrees(k),
               UNCHANGED waitVars
        PROVE  QueueExact' /\ NoLostWakeup'
    BY <2>2, <2>8 DEF OtherTakes, OtherFrees, waitVars
  <2>9. CASE UNCHANGED vars
    BY <2>2, <2>9 DEF vars
  <2> QED
    BY <2>3, <2>4, <2>5, <2>6, <2>7, <2>8, <2>9, Steps
<1> QED
  BY <1>1, <1>2, TypeCorrect, PTL DEF Spec

---------------------------------------------------------------------------
(* The driver implements the abstract ledger when descriptors are not      *)
(* shared: the whole unlocked read, however interrupted, is a sequence of  *)
(* collections each of which reports at most what was pending.             *)
THEOREM LedgerCorrect ==
  ASSUME ~Sharing PROVE Spec => LedgerSpec
<1>1. Init => Ledger!Init
  BY DEF Init, CoreInit, NoCounts, Ledger!Init
<1>2. TypeOK /\ Account /\ [Next]_vars => [Ledger!Next]_(Ledger!ledger)
  <2> SUFFICES ASSUME CoreTypeOK, BufBounded, [Next]_vars
               PROVE  [Ledger!Next]_(Ledger!ledger)
    BY DEF TypeOK, Account
  <2>1. ASSUME UNCHANGED <<presses, values, delivered>>
        PROVE  [Ledger!Next]_(Ledger!ledger)
    BY <2>1 DEF Ledger!ledger
  <2>2. ASSUME \/ \E p \in Procs :
                    \/ OpenEnter(p) \/ RequestIrq(p) \/ RequestFails(p)
                    \/ Unwind(p) \/ Close(p) \/ FreeIrq(p)
                    \/ \E q \in Procs : Fork(p, q)
                    \/ SelectStep(p)
               \/ \E k \in Keys : OtherTakes(k) \/ OtherFrees(k)
               \/ UNCHANGED vars
        PROVE  [Ledger!Next]_(Ledger!ledger)
    BY <2>1, <2>2, QuietNext
  <2>3. ASSUME NEW p \in Procs,
               \/ \E n \in ReadSizes : ReadBody(p, n)
               \/ CopyKey(p) \/ CopyFault(p)
        PROVE  [Ledger!Next]_(Ledger!ledger)
    BY <2>1, <2>3 DEF ReadBody, CopyKey, CopyFault, history
  <2>4. ASSUME NEW p \in Procs, ClearKey(p)
        PROVE  [Ledger!Next]_(Ledger!ledger)
    <3>1. idx[p] \in Keys
      BY <2>4 DEF ClearKey, CoreTypeOK, IndexOK
    <3>2. buf[p][idx[p]] \in 0..values[idx[p]]
      BY <3>1 DEF CoreTypeOK, BufBounded
    <3>3. Ledger!Collect(idx[p])
      BY <2>4, <3>2 DEF ClearKey, Ledger!Collect
    <3> QED
      BY <3>1, <3>3 DEF Ledger!Next
  <2>5. ASSUME NEW k \in Keys, Interrupt(k)
        PROVE  [Ledger!Next]_(Ledger!ledger)
    <3>1. Ledger!Press(k)
      BY <2>5 DEF Interrupt, CountPress, Ledger!Press
    <3> QED
      BY <3>1 DEF Ledger!Next
  <2> QED
    BY <2>2, <2>3, <2>4, <2>5, Steps
<1> QED
  BY <1>1, <1>2, TypeCorrect, AccountInvariant, PTL
  DEF Spec, LedgerSpec, Ledger!Spec
============================================================================
