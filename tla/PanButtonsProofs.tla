-------------------------- MODULE PanButtonsProofs --------------------------
(***************************************************************************)
(* Theorems about the pan_buttons driver, for any number of processes and  *)
(* keys and any sizes of read, with sharing, faults and signals.  The      *)
(* lemmas of ButtonCoreProofs cover the steps of ButtonCore; what is added *)
(* here are the steps of the waiting read, rmmod and insmod, and the first *)
(* use of a removed module.                                                *)
(***************************************************************************)
EXTENDS PanButtons, ButtonCoreProofs

USE DEF Requestable, LastRequested, NextToFree, ReleaseDone, ReadStart,
        Cleared, Woken, Queued

(* The steps of a read up to its copy: to the queue, to sleep, and awake   *)
(* again; they touch neither lines nor counters.                           *)
WaitStep(p) == ReadWait(p) \/ CheckNotReady(p) \/ Wake(p)

(* The steps that lower the flag and start the copy.                       *)
StartStep(p) == ReadAtOnce(p) \/ CheckReady(p) \/ WaitInterrupted(p)

LEMMA WaitFrame ==
  ASSUME CoreTypeOK, NEW p \in Procs, WaitStep(p)
  PROVE  /\ UNCHANGED <<idx, irq, values, ev_press, want, buf,
                        presses, delivered, late, module, taken, served>>
         /\ cpu' \in Procs \cup {Idle}
         /\ \E l \in {"check", "sleep"} : Goto(p, l)
         /\ pc[p] \in {"user", "check", "sleep"}
         /\ waitq' \in {waitq, waitq \cup {p}}
         /\ triggered' \in {triggered, triggered \ {p}}
BY DEF WaitStep, ReadWait, CheckNotReady, Wake, buttonVars, history

LEMMA StartFrame ==
  ASSUME NEW p \in Procs, StartStep(p)
  PROVE  /\ \E n \in ReadSizes : ReadBody(p, n)
         /\ pc[p] \in {"user", "check", "sleep"}
         /\ UNCHANGED <<module, taken>>
         /\ served' \in {served, served + 1}
         /\ served' = served \/ ev_press = 1
         /\ waitq' \in {waitq, waitq \ {p}}
         /\ triggered' \in {triggered, triggered \ {p}}
BY DEF StartStep, ReadAtOnce, CheckReady, WaitInterrupted, WaitOver

---------------------------------------------------------------------------
(* Every step of the driver is one of these.                               *)
LEMMA Steps ==
  ASSUME Next
  PROVE  \/ \E p \in Procs :
              \/ /\ \/ OpenEnter(p) /\ module = "loaded"
                    \/ RequestIrq(p) \/ RequestFails(p)
                    \/ Unwind(p) \/ Close(p) \/ FreeIrq(p)
                    \/ \E q \in Procs : Fork(p, q)
                    \/ CopyKey(p) \/ CopyFault(p) \/ ClearKey(p)
                 /\ UNCHANGED buttonVars
              \/ StartStep(p)
              \/ WaitStep(p)
         \/ \E k \in Keys :
              \/ ButtonsInterrupt(k)
              \/ (OtherTakes(k) \/ OtherFrees(k)) /\ UNCHANGED buttonVars
         \/ Rmmod \/ Insmod
         \/ Stray
BY DEF Next, Work, ButtonsOpen, ButtonsClose, ButtonsRead, ButtonsFork, Environment,
       StartStep, WaitStep

(* What rmmod leaves of the core's state.                                  *)
LEMMA RmmodFrame ==
  ASSUME CoreTypeOK, Rmmod
  PROVE  /\ CoreTypeOK'
         /\ \A p \in Procs : pc'[p] = IF pc[p] = "out" THEN "out" ELSE "gone"
         /\ \A p \in Procs : pc'[p] \in {"out", "gone"}
         /\ \A k \in Keys : irq'[k] = IF irq[k] = "mine" THEN "gone" ELSE irq[k]
         /\ \A k \in Keys : values'[k] = 0
         /\ \A p \in Procs, k \in Keys : buf'[p][k] = 0
         /\ UNCHANGED <<presses, delivered, late, taken, served>>
<1>1. pc' \in [Procs -> Labels] /\ irq' \in [Keys -> Lines]
  BY DEF Rmmod, CoreTypeOK, Labels, Lines
<1>2. /\ NoCounts \in [Keys -> Nat] /\ 0 \in 0..NKeys
      /\ \A k \in Keys : NoCounts[k] = 0
  BY KeysFact DEF NoCounts
<1>3. \A p \in Procs : pc'[p] \in {"out", "gone"}
  BY DEF Rmmod
<1>4. IndexOK'
  BY <1>3 DEF IndexOK
<1>5. /\ idx' \in [Procs -> 0..NKeys] /\ want' \in [Procs -> 0..NKeys]
      /\ buf' \in [Procs -> [Keys -> Nat]] /\ values' \in [Keys -> Nat]
      /\ ev_press' = 0
  BY <1>2 DEF Rmmod
<1>6. UNCHANGED <<cpu, presses, delivered, late, taken, served>>
  BY DEF Rmmod, history
<1>7. CoreTypeOK'
  BY <1>1, <1>4, <1>5, <1>6 DEF CoreTypeOK
<1> QED
  BY <1>2, <1>3, <1>6, <1>7 DEF Rmmod

(* Every variable keeps its type, and no loop of open, close or read       *)
(* leaves its table, for any number of processes and keys.                 *)
THEOREM TypeCorrect == Spec => []TypeOK
<1>1. Init => TypeOK
  <2>1. Init => CoreTypeOK /\ strayed \in BOOLEAN
    BY InitTypes DEF Init
  <2> QED
    BY <2>1 DEF Init, TypeOK
<1>2. TypeOK /\ [Next]_vars => TypeOK'
  <2> SUFFICES ASSUME TypeOK, [Next]_vars PROVE TypeOK'
    OBVIOUS
  <2> CoreTypeOK
    BY DEF TypeOK
  <2>1. CASE UNCHANGED vars
    BY <2>1 DEF vars, TypeOK, CoreTypeOK, IndexOK
  <2>0. strayed' \in BOOLEAN
    BY DEF Next, Stray, vars, TypeOK
  <2>2. ASSUME NEW p \in Procs,
               \/ OpenEnter(p) \/ RequestIrq(p) \/ RequestFails(p)
               \/ Unwind(p) \/ Close(p) \/ FreeIrq(p)
               \/ \E q \in Procs : Fork(p, q)
               \/ CopyKey(p) \/ CopyFault(p) \/ ClearKey(p),
               UNCHANGED buttonVars
        PROVE  TypeOK'
    BY <2>0, <2>2, OpenTypes, FileTypes, CopyTypes, ClearTypes DEF TypeOK, buttonVars
  <2>3. ASSUME NEW p \in Procs, StartStep(p) PROVE TypeOK'
    <3>1. CoreTypeOK'
      BY <2>3, StartFrame, ReadTypes
    <3> QED
      BY <2>0, <2>3, <3>1, StartFrame DEF TypeOK
  <2>4. ASSUME NEW p \in Procs, WaitStep(p) PROVE TypeOK'
    <3>1. PICK l \in {"check", "sleep"} : Goto(p, l)
      BY <2>4, WaitFrame
    <3>2. pc' \in [Procs -> Labels]
      BY <3>1 DEF Goto, CoreTypeOK, Labels
    <3>3. pc'[p] = l /\ \A q \in Procs \ {p} : pc'[q] = pc[q]
      BY <3>1 DEF Goto, CoreTypeOK
    <3>4. idx' = idx /\ want' = want
      BY <2>4, WaitFrame
    <3>5. IndexOK'
      BY <3>3, <3>4 DEF CoreTypeOK, IndexOK
    <3>6. CoreTypeOK'
      BY <2>4, <3>2, <3>5, WaitFrame DEF CoreTypeOK
    <3> QED
      BY <2>0, <2>4, <3>6, WaitFrame DEF TypeOK
  <2>5. ASSUME NEW k \in Keys, ButtonsInterrupt(k) PROVE TypeOK'
    BY <2>0, <2>5, PressTypes DEF ButtonsInterrupt, TypeOK
  <2>6. ASSUME NEW k \in Keys, OtherTakes(k) \/ OtherFrees(k),
               UNCHANGED buttonVars
        PROVE  TypeOK'
    BY <2>0, <2>6, OtherTypes DEF TypeOK, buttonVars
  <2>7. CASE Rmmod
    BY <2>0, <2>7, RmmodFrame DEF Rmmod, TypeOK
  <2>8. CASE Insmod \/ Stray
    BY <2>0, <2>8 DEF Insmod, Stray, TypeOK, CoreTypeOK, IndexOK, coreVars,
                      buttonVars
  <2> QED
    BY <2>1, <2>2, <2>3, <2>4, <2>5, <2>6, <2>7, <2>8, Steps
<1> QED
  BY <1>1, <1>2, PTL DEF Spec

---------------------------------------------------------------------------
(* Lines and claims agree, as in pan_irq, whatever waits in read; rmmod    *)
(* takes the lines away from the calls and files it cuts off, all at once. *)
THEOREM LinesCorrect == Spec => []LinesExact
<1>1. Init => LinesExact
  BY InitLines DEF Init
<1>2. TypeOK /\ LinesExact /\ [Next]_vars => LinesExact'
  <2> SUFFICES ASSUME CoreTypeOK, LinesExact, [Next]_vars PROVE LinesExact'
    BY DEF TypeOK
  <2>1. CASE irq' = irq /\ pc' = pc /\ idx' = idx
    BY <2>1, SameClaims, MoveLines
  <2>2. ASSUME NEW p \in Procs,
               \/ OpenEnter(p) \/ RequestIrq(p) \/ RequestFails(p)
               \/ Unwind(p) \/ Close(p) \/ FreeIrq(p)
               \/ \E q \in Procs : Fork(p, q)
        PROVE  LinesExact'
    BY <2>2, RequestLines, FreeLines, EnterLines, CloseLines, ForkLines
  <2>3. ASSUME NEW p \in Procs,
               CopyKey(p) \/ CopyFault(p) \/ ClearKey(p) \/ StartStep(p)
        PROVE  LinesExact'
    <3>1. /\ pc[p] \in {"user", "check", "sleep", "copy", "clear"}
          /\ \/ \E n \in ReadSizes : ReadBody(p, n)
             \/ CopyKey(p) \/ CopyFault(p) \/ ClearKey(p)
      BY <2>3, StartFrame DEF CopyKey, CopyFault, ClearKey
    <3>2. pc'[p] \in {"user", "copy", "clear"}
      BY <3>1 DEF ReadBody, CopyKey, CopyFault, ClearKey, Goto, CoreTypeOK
    <3>3. /\ irq' = irq
          /\ \A q \in Procs \ {p} : pc'[q] = pc[q] /\ idx'[q] = idx[q]
      BY <3>1 DEF ReadBody, CopyKey, CopyFault, ClearKey, Goto, SetIdx,
                  CoreTypeOK
    <3>4. InFile(p) /\ InFile(p)'
      BY <3>1, <3>2 DEF InFile, Outside
    <3> QED
      BY <3>3, <3>4, InsideLines
  <2>4. ASSUME NEW p \in Procs, WaitStep(p) PROVE LinesExact'
    <3>1. PICK l \in {"check", "sleep"} : Goto(p, l)
      BY <2>4, WaitFrame
    <3>2. pc'[p] = l /\ \A q \in Procs \ {p} : pc'[q] = pc[q]
      BY <3>1 DEF Goto, CoreTypeOK
    <3>3. InFile(p) /\ InFile(p)'
      BY <2>4, <3>2, WaitFrame DEF InFile, Outside
    <3>4. irq' = irq /\ idx' = idx
      BY <2>4, WaitFrame
    <3> QED
      BY <3>2, <3>3, <3>4, InsideLines
  <2>5. ASSUME NEW k \in Keys, OtherTakes(k) \/ OtherFrees(k)
        PROVE  LinesExact'
    BY <2>5, OtherLines
  <2>6. ASSUME \/ \E k \in Keys : ButtonsInterrupt(k)
               \/ Insmod \/ Stray \/ UNCHANGED vars
        PROVE  irq' = irq /\ pc' = pc /\ idx' = idx
    BY <2>6 DEF ButtonsInterrupt, CountPress, Insmod, Stray, coreVars, vars
  <2>7. CASE Rmmod
    <3>1. \A k \in Keys : irq'[k] # "mine"
      BY <2>7, RmmodFrame
    <3>2. \A p \in Procs, k \in Keys : ~Claims(p, k)'
      BY <2>7, RmmodFrame DEF Claims, InFile, Outside
    <3> QED
      BY <3>1, <3>2 DEF LinesExact, LinesClaimed, ClaimsExclusive
  <2> QED
    BY <2>1, <2>2, <2>3, <2>4, <2>5, <2>6, <2>7, Steps
<1> QED
  BY <1>1, <1>2, TypeCorrect, PTL DEF Spec

(* A line that leads into a removed module goes back to a process that the *)
(* removal cut off, and keeps every open of a module loaded since from     *)
(* coming through.  The first part is an invariant of its own, as rmmod    *)
(* turns only claimed lines into such lines and nothing brings a process   *)
(* back; the second is what the lines account says of an open file.        *)
CutOff == \A k \in Keys : irq[k] = "gone" => \E p \in Procs : pc[p] = "gone"

LEMMA GoneForGood ==
  ASSUME CoreTypeOK, CutOff,
         \A p \in Procs : pc[p] = "gone" => pc'[p] = "gone",
         \A k \in Keys : irq'[k] = "gone" => irq[k] = "gone"
  PROVE  CutOff'
BY DEF CutOff

THEOREM RemoveCorrect == Spec => []StaleLines
<1>1. Init => CutOff
  BY DEF Init, CoreInit, CutOff
<1>2. TypeOK /\ LinesExact /\ CutOff /\ [Next]_vars => CutOff'
  <2> SUFFICES ASSUME CoreTypeOK, LinesExact, CutOff, [Next]_vars
               PROVE  CutOff'
    BY DEF TypeOK
  <2>1. CASE irq' = irq /\ pc' = pc
    BY <2>1, GoneForGood
  <2>2. ASSUME NEW p \in Procs,
               \/ OpenEnter(p) \/ RequestIrq(p) \/ RequestFails(p)
               \/ Unwind(p) \/ Close(p) \/ FreeIrq(p)
        PROVE  CutOff'
    <3>1. pc[p] # "gone" /\ \A q \in Procs \ {p} : pc'[q] = pc[q]
      BY <2>2 DEF OpenEnter, RequestIrq, RequestFails, Unwind, Close, FreeIrq,
                  Goto, CoreTypeOK
    <3>2. \A k \in Keys : irq'[k] = "gone" => irq[k] = "gone"
      BY <2>2 DEF OpenEnter, RequestIrq, RequestFails, Unwind, Close, FreeIrq,
                  CoreTypeOK
    <3> QED
      BY <3>1, <3>2, GoneForGood
  <2>3. ASSUME NEW p \in Procs, NEW q \in Procs, Fork(p, q) PROVE CutOff'
    <3>1. /\ irq' = irq
          /\ pc[q] # "gone" /\ \A r \in Procs \ {q} : pc'[r] = pc[r]
      BY <2>3 DEF Fork, Goto, CoreTypeOK
    <3> QED
      BY <3>1, GoneForGood
  <2>4. ASSUME NEW p \in Procs,
               \/ CopyKey(p) \/ CopyFault(p) \/ ClearKey(p)
               \/ StartStep(p) \/ WaitStep(p)
        PROVE  CutOff'
    <3>1. /\ irq' = irq
          /\ pc[p] # "gone" /\ \A q \in Procs \ {p} : pc'[q] = pc[q]
      BY <2>4, StartFrame, WaitFrame
         DEF ReadBody, CopyKey, CopyFault, ClearKey, Goto, CoreTypeOK
    <3> QED
      BY <3>1, GoneForGood
  <2>5. ASSUME NEW k \in Keys, OtherTakes(k) \/ OtherFrees(k) PROVE CutOff'
    BY <2>5, GoneForGood DEF OtherTakes, OtherFrees, CoreTypeOK
  <2>6. ASSUME \/ \E k \in Keys : ButtonsInterrupt(k)
               \/ Insmod \/ Stray \/ UNCHANGED vars
        PROVE  irq' = irq /\ pc' = pc
    BY <2>6 DEF ButtonsInterrupt, CountPress, Insmod, Stray, coreVars, vars
  <2>7. CASE Rmmod
    <3> SUFFICES ASSUME NEW k \in Keys, irq'[k] = "gone"
                 PROVE  \E p \in Procs : pc'[p] = "gone"
      BY DEF CutOff
    <3>1. CASE irq[k] = "mine"
      <4>1. PICK p \in Procs : Claims(p, k)
        BY <3>1 DEF LinesExact, LinesClaimed
      <4>2. pc[p] # "out"
        BY <4>1 DEF Claims, InFile, Outside
      <4> QED
        BY <2>7, <4>2, RmmodFrame
    <3>2. CASE irq[k] = "gone"
      <4>1. PICK p \in Procs : pc[p] = "gone"
        BY <3>2 DEF CutOff
      <4> QED
        BY <2>7, <4>1, RmmodFrame
    <3> QED
      BY <2>7, <3>1, <3>2, RmmodFrame
  <2> QED
    BY <2>1, <2>2, <2>3, <2>4, <2>5, <2>6, <2>7, Steps
<1>3. LinesExact /\ CutOff => StaleLines
  <2> SUFFICES ASSUME LinesExact, CutOff, NEW k \in Keys, irq[k] = "gone",
                      NEW p \in Procs, InFile(p)
               PROVE  FALSE
    BY DEF StaleLines, CutOff
  <2>1. irq[k] = "mine"
    BY DEF LinesExact, LinesClaimed, Claims
  <2> QED
    BY <2>1
<1> QED
  BY <1>1, <1>2, <1>3, TypeCorrect, LinesCorrect, PTL DEF Spec

---------------------------------------------------------------------------
(* Uncollected presses keep the flag up, so the next read does not wait    *)
(* beside them, also when a signal sent a read on with the flag down.      *)
THEOREM PendingCorrect == Spec => []PendingSignalled
<1>1. Init => PendingSignalled
  BY InitPending DEF Init
<1>2. TypeOK /\ PendingSignalled /\ [Next]_vars => PendingSignalled'
  <2> SUFFICES ASSUME CoreTypeOK, PendingSignalled, [Next]_vars
               PROVE  PendingSignalled'
    BY DEF TypeOK
  <2>1. ASSUME NEW p \in Procs,
               \/ OpenEnter(p) \/ RequestIrq(p) \/ RequestFails(p)
               \/ Unwind(p) \/ Close(p) \/ FreeIrq(p)
               \/ \E q \in Procs : Fork(p, q)
        PROVE  PendingSignalled'
    BY <2>1, QuietSteps, QuietPending
  <2>2. ASSUME NEW p \in Procs,
               CopyKey(p) \/ CopyFault(p) \/ ClearKey(p) \/ StartStep(p)
        PROVE  PendingSignalled'
    BY <2>2, StartFrame, ReadPending, CopyPending, ClearPending
  <2>3. ASSUME NEW p \in Procs, WaitStep(p) PROVE PendingSignalled'
    <3>1. PICK l \in {"check", "sleep"} : Goto(p, l)
      BY <2>3, WaitFrame
    <3>2. /\ pc[p] \notin {"copy", "clear"} /\ pc'[p] \notin {"copy", "clear"}
          /\ \A q \in Procs \ {p} : pc'[q] = pc[q] /\ idx'[q] = idx[q]
      BY <2>3, <3>1, WaitFrame DEF Goto, CoreTypeOK
    <3> QED
      BY <2>3, <3>2, WaitFrame, OutsideRead, QuietPending
  <2>4. ASSUME \/ \E k \in Keys : OtherTakes(k) \/ OtherFrees(k)
               \/ Insmod \/ Stray \/ UNCHANGED vars
        PROVE  PendingSignalled'
    <3>1. UNCHANGED <<pc, idx, values, ev_press>>
      BY <2>4 DEF OtherTakes, OtherFrees, Insmod, Stray, coreVars, vars
    <3> QED
      BY <3>1, InPlace, QuietPending
  <2>5. CASE Rmmod
    BY <2>5, RmmodFrame DEF PendingSignalled
  <2>6. ASSUME NEW k \in Keys, ButtonsInterrupt(k) PROVE PendingSignalled'
    BY <2>6 DEF ButtonsInterrupt, PendingSignalled
  <2> QED
    BY <2>1, <2>2, <2>3, <2>4, <2>5, <2>6, Steps
<1> QED
  BY <1>1, <1>2, TypeCorrect, PTL DEF Spec

---------------------------------------------------------------------------
(* A process is queued exactly while it waits in read, so a press wakes    *)
(* every process that sleeps, and one that tests the flag after it queued  *)
(* cannot miss a press between the test and the sleep.                     *)
WaitersQueued == \A p \in Procs : p \in waitq <=> pc[p] \in {"check", "sleep"}

THEOREM NoLostWakeupCorrect == Spec => []NoLostWakeup
<1> DEFINE Inv == WaitersQueued /\ NoLostWakeup
<1>1. Init => Inv
  BY DEF Init, CoreInit, WaitersQueued, NoLostWakeup
<1>2. TypeOK /\ Inv /\ [Next]_vars => Inv'
  <2> SUFFICES ASSUME CoreTypeOK, WaitersQueued, NoLostWakeup, [Next]_vars
               PROVE  WaitersQueued' /\ NoLostWakeup'
    BY DEF TypeOK
  <2>1. ASSUME NEW p \in Procs, UNCHANGED <<waitq, triggered>>,
               ev_press' \in {0, ev_press},
               NEW l \in Labels \ {"check", "sleep"}, Goto(p, l),
               pc[p] \notin {"check", "sleep"}
        PROVE  WaitersQueued' /\ NoLostWakeup'
    BY <2>1 DEF Goto, CoreTypeOK, WaitersQueued, NoLostWakeup, Labels
  <2>2. ASSUME UNCHANGED <<pc, waitq, triggered>>, ev_press' \in {0, ev_press}
        PROVE  WaitersQueued' /\ NoLostWakeup'
    BY <2>2 DEF WaitersQueued, NoLostWakeup
  <2>3. ASSUME NEW p \in Procs, UNCHANGED buttonVars,
               \/ OpenEnter(p) \/ RequestIrq(p) \/ RequestFails(p)
               \/ Unwind(p) \/ Close(p) \/ FreeIrq(p)
               \/ CopyKey(p) \/ CopyFault(p) \/ ClearKey(p)
        PROVE  WaitersQueued' /\ NoLostWakeup'
    <3>1. /\ pc[p] \notin {"check", "sleep"} /\ ev_press' = ev_press
          /\ (\E l \in Labels \ {"check", "sleep"} : Goto(p, l)) \/ pc' = pc
      BY <2>3 DEF OpenEnter, RequestIrq, RequestFails, Unwind, Close, FreeIrq,
                  CopyKey, CopyFault, ClearKey, Labels
    <3> QED
      BY <2>1, <2>2, <2>3, <3>1 DEF buttonVars
  <2>4. ASSUME NEW p \in Procs, NEW q \in Procs, Fork(p, q),
               UNCHANGED buttonVars
        PROVE  WaitersQueued' /\ NoLostWakeup'
    <3>1. /\ pc[q] \notin {"check", "sleep"} /\ ev_press' = ev_press
          /\ Goto(q, "user") /\ "user" \in Labels \ {"check", "sleep"}
      BY <2>4 DEF Fork, Labels
    <3> QED
      BY <2>1, <2>4, <3>1 DEF buttonVars
  <2>5. ASSUME NEW p \in Procs, StartStep(p)
        PROVE  WaitersQueued' /\ NoLostWakeup'
    <3>1. ev_press' = 0 /\ pc'[p] \in {"copy", "clear"}
      BY <2>5, StartFrame DEF ReadBody, Goto, CoreTypeOK
    <3>2. \A q \in Procs \ {p} : pc'[q] = pc[q]
      BY <2>5, StartFrame DEF ReadBody, Goto, CoreTypeOK
    <3>3. p \notin waitq'
      BY <2>5 DEF StartStep, ReadAtOnce, CheckReady, WaitInterrupted,
                  WaitOver, WaitersQueued
    <3> QED
      BY <2>5, <3>1, <3>2, <3>3, StartFrame DEF WaitersQueued, NoLostWakeup
  <2>6. ASSUME NEW p \in Procs, WaitStep(p)
        PROVE  WaitersQueued' /\ NoLostWakeup'
    <3>1. CASE ReadWait(p)
      BY <3>1 DEF ReadWait, Goto, CoreTypeOK, WaitersQueued, NoLostWakeup
    <3>2. CASE CheckNotReady(p)
      BY <3>2 DEF CheckNotReady, Goto, CoreTypeOK, WaitersQueued,
                  NoLostWakeup, buttonVars
    <3>3. CASE Wake(p)
      BY <3>3 DEF Wake, Goto, CoreTypeOK, WaitersQueued, NoLostWakeup
    <3> QED
      BY <2>6, <3>1, <3>2, <3>3 DEF WaitStep
  <2>7. ASSUME NEW k \in Keys, ButtonsInterrupt(k)
        PROVE  WaitersQueued' /\ NoLostWakeup'
    BY <2>7 DEF ButtonsInterrupt, CountPress, WaitersQueued, NoLostWakeup
  <2>8. ASSUME \/ \E k \in Keys : /\ OtherTakes(k) \/ OtherFrees(k)
                                  /\ UNCHANGED buttonVars
               \/ Insmod \/ Stray \/ UNCHANGED vars
        PROVE  UNCHANGED <<pc, waitq, triggered>> /\ ev_press' \in {0, ev_press}
    BY <2>8 DEF OtherTakes, OtherFrees, Insmod, Stray, buttonVars, coreVars,
                vars
  <2>9. CASE Rmmod
    <3>1. waitq' = {} /\ \A p \in Procs : pc'[p] \notin {"check", "sleep"}
      BY <2>9, RmmodFrame DEF Rmmod
    <3> QED
      BY <3>1 DEF WaitersQueued, NoLostWakeup
  <2> QED
    BY <2>2, <2>3, <2>4, <2>5, <2>6, <2>7, <2>8, <2>9, Steps
<1> QED
  BY <1>1, <1>2, TypeCorrect, PTL DEF Spec

(* Signals apart, no more reads come back than presses came: each press    *)
(* raises the flag at most once, and each read lowers it.                  *)
FlagPaid == served + ev_press <= taken

THEOREM ReadsCorrect == Spec => []ReadsHavePresses
<1>1. Init => FlagPaid
  BY DEF Init, CoreInit, FlagPaid
<1>2. TypeOK /\ FlagPaid /\ [Next]_vars => FlagPaid'
  <2> SUFFICES ASSUME TypeOK, FlagPaid, [Next]_vars PROVE FlagPaid'
    OBVIOUS
  <2> USE DEF FlagPaid
  <2> /\ ev_press \in {0, 1} /\ taken \in Nat /\ served \in Nat
    BY DEF TypeOK, CoreTypeOK
  <2>1. CASE UNCHANGED <<ev_press, taken, served>>
    BY <2>1
  <2>2. ASSUME NEW p \in Procs,
               \/ OpenEnter(p) \/ RequestIrq(p) \/ RequestFails(p)
               \/ Unwind(p) \/ Close(p) \/ FreeIrq(p)
               \/ \E q \in Procs : Fork(p, q)
               \/ CopyKey(p) \/ CopyFault(p) \/ ClearKey(p),
               UNCHANGED buttonVars
        PROVE  UNCHANGED <<ev_press, taken, served>>
    BY <2>2 DEF OpenEnter, RequestIrq, RequestFails, Unwind, Close, FreeIrq,
                Fork, CopyKey, CopyFault, ClearKey, buttonVars
  <2>3. ASSUME NEW p \in Procs, StartStep(p) PROVE FlagPaid'
    <3>1. ev_press' = 0
      BY <2>3, StartFrame DEF ReadBody
    <3> QED
      BY <2>3, <3>1, StartFrame
  <2>4. ASSUME NEW p \in Procs, WaitStep(p)
        PROVE  UNCHANGED <<ev_press, taken, served>>
    BY <2>4, WaitFrame DEF TypeOK
  <2>5. ASSUME NEW k \in Keys, ButtonsInterrupt(k) PROVE FlagPaid'
    BY <2>5 DEF ButtonsInterrupt
  <2>6. ASSUME \/ \E k \in Keys : /\ OtherTakes(k) \/ OtherFrees(k)
                                  /\ UNCHANGED buttonVars
               \/ Insmod \/ Stray \/ UNCHANGED vars
        PROVE  UNCHANGED <<ev_press, taken, served>>
    BY <2>6 DEF OtherTakes, OtherFrees, Insmod, Stray, buttonVars, coreVars,
                vars
  <2>7. CASE Rmmod
    BY <2>7 DEF Rmmod
  <2> QED
    BY <2>1, <2>2, <2>3, <2>4, <2>5, <2>6, <2>7, Steps
<1>3. TypeOK /\ FlagPaid => ReadsHavePresses
  BY DEF TypeOK, CoreTypeOK, FlagPaid, ReadsHavePresses
<1> QED
  BY <1>1, <1>2, <1>3, TypeCorrect, PTL DEF Spec

---------------------------------------------------------------------------
(* The account of the presses, as in pan_irq.                              *)

(* Without sharing the device has at most one holder, asleep in read or    *)
(* not: the first interrupt line refuses a second open.                    *)
THEOREM SingleCorrect == Spec => []SingleHolder
<1>1. Init => SingleHolder
  BY DEF Init, CoreInit, SingleHolder, InFile, Outside
<1>2. TypeOK /\ LinesExact /\ SingleHolder /\ [Next]_vars => SingleHolder'
  <2> SUFFICES ASSUME CoreTypeOK, LinesExact, SingleHolder, ~Sharing, [Next]_vars
               PROVE  SingleHolder'
    BY DEF TypeOK, SingleHolder
  <2>1. ASSUME NEW p \in Procs,
               \/ OpenEnter(p) \/ RequestFails(p) \/ Unwind(p)
               \/ Close(p) \/ FreeIrq(p) \/ \E q \in Procs : Fork(p, q)
        PROVE  SingleHolder'
    <3>1. \A q \in Procs : InFile(q)' => InFile(q)
      BY <2>1 DEF OpenEnter, RequestFails, Unwind, Close, FreeIrq, Fork,
                  Goto, CoreTypeOK, InFile, Outside
    <3> QED
      BY <3>1, SingleKept
  <2>2. ASSUME NEW p \in Procs,
               \/ CopyKey(p) \/ CopyFault(p) \/ ClearKey(p)
               \/ StartStep(p) \/ WaitStep(p)
        PROVE  SingleHolder'
    <3>1. InFile(p) /\ \A q \in Procs \ {p} : pc'[q] = pc[q]
      BY <2>2, StartFrame, WaitFrame DEF ReadBody, CopyKey, CopyFault,
         ClearKey, Goto, CoreTypeOK, InFile, Outside
    <3>2. \A q \in Procs : InFile(q)' => InFile(q)
      BY <3>1 DEF InFile, Outside
    <3> QED
      BY <3>2, SingleKept
  <2>3. ASSUME pc' = pc PROVE SingleHolder'
    BY <2>3 DEF SingleHolder, InFile, Outside
  <2>4. ASSUME \/ \E k \in Keys : \/ ButtonsInterrupt(k)
                                 \/ OtherTakes(k) \/ OtherFrees(k)
               \/ Insmod \/ Stray \/ UNCHANGED vars
        PROVE  pc' = pc
    BY <2>4 DEF ButtonsInterrupt, CountPress, OtherTakes, OtherFrees, Insmod,
       Stray, coreVars, vars
  <2>5. CASE Rmmod
    <3>1. \A q \in Procs : ~InFile(q)'
      BY <2>5, RmmodFrame DEF InFile, Outside
    <3> QED
      BY <3>1, SingleKept
  <2> QED
    BY <2>1, <2>2, <2>3, <2>4, <2>5, RequestSingle, Steps
<1> QED
  BY <1>1, <1>2, TypeCorrect, LinesCorrect, PTL DEF Spec

Account == ~Sharing => BufBounded /\ NoPhantomPress

(* Without sharing no press is reported twice, by whatever reads that wait *)
(* or that a signal sends on, and across rmmod and insmod: the counts that *)
(* a read was copying when its module went are nobody's.                   *)
THEOREM NoPhantomCorrect ==
  ASSUME ~Sharing PROVE Spec => []NoPhantomPress
<1>1. Init => Account
  BY InitAccount DEF Init, Account
<1>2. TypeOK /\ SingleHolder /\ Account /\ [Next]_vars => Account'
  <2> SUFFICES ASSUME CoreTypeOK, SingleHolder, BufBounded, NoPhantomPress,
                      [Next]_vars
               PROVE  BufBounded' /\ NoPhantomPress'
    BY DEF TypeOK, Account
  <2>1. ASSUME NEW p \in Procs,
               \/ OpenEnter(p) \/ RequestIrq(p) \/ RequestFails(p)
               \/ Unwind(p) \/ Close(p) \/ FreeIrq(p)
               \/ \E q \in Procs : Fork(p, q)
        PROVE  BufBounded' /\ NoPhantomPress'
    BY <2>1, QuietSteps, QuietAccount
  <2>2. ASSUME NEW p \in Procs,
               CopyKey(p) \/ CopyFault(p) \/ ClearKey(p) \/ StartStep(p)
        PROVE  BufBounded' /\ NoPhantomPress'
    BY <2>2, StartFrame, ReadAccount, CopyAccount, FaultAccount, ClearAccount
  <2>3. ASSUME NEW p \in Procs, WaitStep(p)
        PROVE  BufBounded' /\ NoPhantomPress'
    <3>1. PICK l \in {"check", "sleep"} : Goto(p, l)
      BY <2>3, WaitFrame
    <3>2. /\ pc[p] \notin {"copy", "clear"} /\ pc'[p] \notin {"copy", "clear"}
          /\ \A q \in Procs \ {p} : pc'[q] = pc[q] /\ idx'[q] = idx[q]
      BY <2>3, <3>1, WaitFrame DEF Goto, CoreTypeOK
    <3> QED
      BY <2>3, <3>2, WaitFrame, OutsideRead, QuietAccount
  <2>4. ASSUME \/ \E k \in Keys : OtherTakes(k) \/ OtherFrees(k)
               \/ Insmod \/ Stray \/ UNCHANGED vars
        PROVE  BufBounded' /\ NoPhantomPress'
    <3>1. UNCHANGED <<pc, idx, values, buf, presses, delivered, late>>
      BY <2>4 DEF OtherTakes, OtherFrees, Insmod, Stray, coreVars, history, vars
    <3> QED
      BY <3>1, InPlace, QuietAccount
  <2>5. CASE Rmmod
    <3>1. BufBounded'
      BY <2>5, RmmodFrame DEF BufBounded
    <3>2. NoPhantomPress'
      BY <2>5, RmmodFrame DEF NoPhantomPress, CoreTypeOK
    <3> QED
      BY <3>1, <3>2
  <2>6. ASSUME NEW k \in Keys, ButtonsInterrupt(k)
        PROVE  BufBounded' /\ NoPhantomPress'
    BY <2>6, PressAccount DEF ButtonsInterrupt
  <2> QED
    BY <2>1, <2>2, <2>3, <2>4, <2>5, <2>6, Steps
<1>3. Account => NoPhantomPress
  BY DEF Account
<1> QED
  BY <1>1, <1>2, <1>3, TypeCorrect, SingleCorrect, PTL DEF Spec
============================================================================
