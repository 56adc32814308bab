-------------------------- MODULE PanTaskletProofs --------------------------
(***************************************************************************)
(* Theorems about the pan_tasklet driver, for any number of processes and  *)
(* keys, with and without shared descriptors: the lines through the two    *)
(* steps of tasklet_kill, the life of the tasklet itself, and the presses  *)
(* it is due to report.  ButtonCoreProofs covers the steps of ButtonCore.  *)
(***************************************************************************)
EXTENDS PanTasklet, ButtonCoreProofs

USE DEF Requestable, LastRequested, NextToFree, ReleaseDone, ReadStart,
        Cleared, Woken, PollWait, TaskletInit, KillBit

(* The steps inside select touch neither lines nor counters nor loop       *)
(* indices; the process keeps its reference to the file throughout.        *)
SelectStep(p) ==
  \/ SelectEnter(p) \/ PollRegister(p) \/ PollReady(p) \/ PollNotReady(p)
  \/ SelectWake(p) \/ SelectInterrupted(p)

(* The calls that are ButtonCore's alone, and those of tasklet_kill.       *)
CoreStep(p) ==
  \/ RequestIrq(p) \/ RequestFails(p) \/ Unwind(p) \/ FreeIrq(p)
  \/ \E q \in Procs : Fork(p, q)

KillStep(p) == TaskletClose(p) \/ KillTakes(p) \/ KillGives(p)

CopyStep(p) ==
  \/ pc[p] = "user" /\ \E n \in ReadSizes : ReadBody(p, n)
  \/ CopyKey(p) \/ CopyFault(p)

(* Every step of the driver is one of these.                               *)
LEMMA Steps ==
  ASSUME Next
  PROVE  \/ \E p \in Procs :
              /\ ProcessesRun
              /\ \/ OpenEnter(p) /\ TaskletInit
                    /\ UNCHANGED <<queued, oops, swallowed, waitVars>>
                 \/ CoreStep(p) /\ UNCHANGED <<taskVars, waitVars>>
                 \/ KillStep(p)
                 \/ CopyStep(p) /\ UNCHANGED <<taskVars, waitVars>>
                 \/ /\ ClearKey(p) /\ swallowed' = swallowed \ {idx[p]}
                    /\ UNCHANGED <<sched, queued, ready, oops, waitVars>>
                 \/ SelectStep(p) /\ UNCHANGED taskVars
         \/ \E k \in Keys :
              \/ Interrupt(k)
              \/ /\ ProcessesRun /\ (OtherTakes(k) \/ OtherFrees(k))
                 /\ UNCHANGED <<taskVars, waitVars>>
         \/ RunTasklet
BY DEF Next, Process, Signal, OtherDriver, TaskletOpen, TaskletOpenEnter,
       TaskletRelease, TaskletRead, TaskletPoll, CoreStep, KillStep, CopyStep,
       SelectStep

---------------------------------------------------------------------------
(* Types.                                                                  *)

LEMMA SelectFrame ==
  ASSUME CoreTypeOK, NEW p \in Procs, SelectStep(p)
  PROVE  /\ UNCHANGED <<idx, irq, values, ev_press, want, buf,
                        presses, delivered, late>>
         /\ cpu' \in Procs \cup {Idle}
         /\ \E l \in {"user", "poll", "check", "sleep"} : Goto(p, l)
         /\ pc[p] \in {"user", "poll", "check", "sleep"}
BY DEF SelectStep, SelectEnter, PollRegister, PollReady, PollNotReady,
       SelectWake, SelectInterrupted, LeaveSelect, history

(* What close and tasklet_kill do to their process.                        *)
LEMMA KillFrame ==
  ASSUME CoreTypeOK, NEW p \in Procs, KillStep(p)
  PROVE  /\ UNCHANGED <<irq, values, ev_press, want, buf,
                        presses, delivered, late, waitq, triggered,
                        queued, ready, oops, swallowed>>
         /\ cpu' \in Procs \cup {Idle} /\ sched' \in {sched, TRUE, FALSE}
         /\ \A q \in Procs \ {p} : pc'[q] = pc[q] /\ idx'[q] = idx[q]
         /\ \/ /\ pc[p] = "user" /\ pc'[p] = "out" /\ idx' = idx
               /\ \E q \in Procs \ {p} : InFile(q)
            \/ /\ pc[p] = "user" /\ pc'[p] = "kill" /\ idx' = idx
               /\ \A q \in Procs \ {p} : ~InFile(q)
            \/ pc[p] = "kill" /\ pc'[p] = "killed" /\ idx' = idx
            \/ pc[p] = "killed" /\ pc'[p] = "release" /\ idx'[p] = 1
BY DEF KillStep, TaskletClose, KillTakes, KillGives, Goto, SetIdx, CoreTypeOK,
       history, taskVars, waitVars

LEMMA SelectTypes ==
  ASSUME CoreTypeOK, NEW p \in Procs, SelectStep(p)
  PROVE  CoreTypeOK'
<1>1. PICK l \in {"user", "poll", "check", "sleep"} : Goto(p, l)
  BY SelectFrame
<1>2. pc' \in [Procs -> Labels]
  BY <1>1 DEF Goto, CoreTypeOK, Labels
<1>3. pc'[p] = l /\ \A q \in Procs \ {p} : pc'[q] = pc[q]
  BY <1>1 DEF Goto, CoreTypeOK
<1>4. idx' = idx /\ want' = want
  BY SelectFrame
<1>5. IndexOK'
  BY <1>3, <1>4 DEF CoreTypeOK, IndexOK
<1> QED
  BY <1>2, <1>5, SelectFrame DEF CoreTypeOK

LEMMA KillTypes ==
  ASSUME CoreTypeOK, NEW p \in Procs, KillStep(p)
  PROVE  CoreTypeOK'
<1>1. pc' \in [Procs -> Labels]
  BY DEF KillStep, TaskletClose, KillTakes, KillGives, Goto, CoreTypeOK, Labels
<1>2. idx' \in [Procs -> 0..NKeys]
  BY KeysFact DEF KillStep, TaskletClose, KillTakes, KillGives, SetIdx, CoreTypeOK
<1>3. IndexOK'
  BY KillFrame, KeysFact DEF CoreTypeOK, IndexOK
<1> QED
  BY <1>1, <1>2, <1>3, KillFrame DEF CoreTypeOK

(* Every variable keeps its type, and no loop leaves its table.            *)
THEOREM TypeCorrect == Spec => []TypeOK
<1>1. Init => TypeOK
  BY InitTypes DEF Init, SelectInit, TypeOK
<1>2. TypeOK /\ [Next]_vars => TypeOK'
  <2> SUFFICES ASSUME TypeOK, [Next]_vars PROVE TypeOK'
    OBVIOUS
  <2> DEFINE TaskTypes == /\ waitq \subseteq Procs /\ triggered \subseteq Procs
                          /\ \A b \in {sched, queued, ready, oops, deferred} :
                               b \in BOOLEAN
                          /\ swallowed \subseteq Keys
  <2>1. TaskTypes
    BY DEF TypeOK
  <2>2. ASSUME CoreTypeOK', TaskTypes' PROVE TypeOK'
    BY <2>2 DEF TypeOK
  <2>3. ProcessesRun => deferred' \in BOOLEAN
    BY <2>1 DEF ProcessesRun
  <2>4. CASE UNCHANGED vars
    BY <2>4 DEF vars, TypeOK, CoreTypeOK, IndexOK
  <2>5. ASSUME NEW p \in Procs, ProcessesRun,
               \/ /\ OpenEnter(p) /\ TaskletInit
                  /\ UNCHANGED <<queued, oops, swallowed, waitVars>>
               \/ /\ CoreStep(p) \/ CopyStep(p)
                  /\ UNCHANGED <<taskVars, waitVars>>
        PROVE  TypeOK'
    <3>1. CoreTypeOK'
      BY <2>5, OpenTypes, FileTypes, ReadTypes, CopyTypes
      DEF TypeOK, CoreStep, CopyStep
    <3>2. TaskTypes'
      BY <2>1, <2>3, <2>5 DEF taskVars, waitVars
    <3> QED
      BY <2>2, <3>1, <3>2
  <2>6. ASSUME NEW p \in Procs, ProcessesRun, KillStep(p) PROVE TypeOK'
    <3>1. TaskTypes'
      BY <2>1, <2>3, <2>6, KillFrame DEF TypeOK
    <3> QED
      BY <2>2, <2>6, <3>1, KillTypes DEF TypeOK
  <2>7. ASSUME NEW p \in Procs, ProcessesRun, ClearKey(p),
               swallowed' = swallowed \ {idx[p]},
               UNCHANGED <<sched, queued, ready, oops, waitVars>>
        PROVE  TypeOK'
    <3>1. TaskTypes'
      BY <2>1, <2>3, <2>7 DEF waitVars
    <3> QED
      BY <2>2, <2>7, <3>1, ClearTypes DEF TypeOK
  <2>8. ASSUME NEW p \in Procs, ProcessesRun, SelectStep(p), UNCHANGED taskVars
        PROVE  TypeOK'
    <3>1. waitq' \subseteq Procs /\ triggered' \subseteq Procs
      BY <2>8 DEF SelectStep, SelectEnter, PollRegister, PollReady,
         PollNotReady, SelectWake, SelectInterrupted, LeaveSelect, waitVars,
         TypeOK
    <3>2. TaskTypes'
      BY <2>1, <2>3, <2>8, <3>1 DEF taskVars
    <3> QED
      BY <2>2, <2>8, <3>2, SelectTypes DEF TypeOK
  <2>9. ASSUME NEW k \in Keys, Interrupt(k) PROVE TypeOK'
    <3>1. CoreTypeOK'
      BY <2>9, PressTypes DEF Interrupt, TypeOK, CoreTypeOK
    <3>2. TaskTypes'
      BY <2>1, <2>9 DEF Interrupt, Schedule, waitVars
    <3> QED
      BY <2>2, <3>1, <3>2
  <2>10. ASSUME NEW k \in Keys, ProcessesRun, OtherTakes(k) \/ OtherFrees(k),
                UNCHANGED <<taskVars, waitVars>>
         PROVE  TypeOK'
    <3>1. TaskTypes'
      BY <2>1, <2>3, <2>10 DEF taskVars, waitVars
    <3> QED
      BY <2>2, <2>10, <3>1, OtherTypes DEF TypeOK
  <2>11. ASSUME RunTasklet PROVE TypeOK'
    <3>1. CoreTypeOK'
      BY <2>11 DEF RunTasklet, TypeOK, CoreTypeOK, IndexOK, history
    <3>2. TaskTypes'
      BY <2>1, <2>11 DEF RunTasklet
    <3> QED
      BY <2>2, <3>1, <3>2
  <2> QED
    BY <2>4, <2>5, <2>6, <2>7, <2>8, <2>9, <2>10, <2>11, Steps
<1> QED
  BY <1>1, <1>2, PTL DEF Spec

---------------------------------------------------------------------------
(* Lines.  From the last close to the end of tasklet_kill the file has one *)
(* holder left: a second open cannot get a line, and nobody can fork.      *)
KillAlone ==
  \A p, q \in Procs : pc[p] \in {"kill", "killed"} /\ InFile(q) => p = q

LineInv == LinesExact /\ KillAlone

(* A step that brings nobody into the file and nobody into tasklet_kill.   *)
LEMMA AloneKept ==
  ASSUME KillAlone,
         \A q \in Procs : /\ InFile(q)' => InFile(q)
                          /\ pc'[q] \in {"kill", "killed"} =>
                               pc[q] \in {"kill", "killed"}
  PROVE  KillAlone'
BY DEF KillAlone

LEMMA CoreLines ==
  ASSUME CoreTypeOK, LineInv, NEW p \in Procs, OpenEnter(p) \/ CoreStep(p)
  PROVE  LineInv'
<1>1. LinesExact'
  BY RequestLines, FreeLines, EnterLines, ForkLines DEF LineInv, CoreStep
<1>2. CASE RequestIrq(p)
  <2>1. idx[p] \in Keys /\ irq[idx[p]] # "mine"
    BY <1>2 DEF RequestIrq, CoreTypeOK, IndexOK
  <2>2. \A q \in Procs : ~InFile(q)
    BY <2>1 DEF LineInv, LinesExact, LinesClaimed, Claims
  <2>3. \A q \in Procs : pc'[q] \notin {"kill", "killed"}
    BY <1>2, <2>2 DEF RequestIrq, Goto, CoreTypeOK, InFile, Outside
  <2> QED
    BY <1>1, <2>3 DEF LineInv, KillAlone
<1>3. CASE OpenEnter(p) \/ RequestFails(p) \/ Unwind(p) \/ FreeIrq(p)
  <2>1. \A q \in Procs : /\ InFile(q)' => InFile(q)
                         /\ pc'[q] \in {"kill", "killed"} => pc'[q] = pc[q]
    BY <1>3 DEF OpenEnter, RequestFails, Unwind, FreeIrq, Goto, CoreTypeOK,
                InFile, Outside
  <2> QED
    BY <1>1, <2>1, AloneKept DEF LineInv
<1>4. ASSUME NEW q \in Procs, Fork(p, q) PROVE LineInv'
  <2>1. pc[p] = "user" /\ pc[q] = "out" /\ pc' = [pc EXCEPT ![q] = "user"]
    BY <1>4 DEF Fork, Goto
  <2>2. \A r \in Procs : pc[r] \notin {"kill", "killed"}
    BY <2>1 DEF LineInv, KillAlone, InFile, Outside
  <2>3. \A r \in Procs : pc'[r] \notin {"kill", "killed"}
    BY <2>1, <2>2 DEF CoreTypeOK
  <2> QED
    BY <1>1, <2>3 DEF LineInv, KillAlone
<1> QED
  BY <1>2, <1>3, <1>4 DEF CoreStep

LEMMA KillLines ==
  ASSUME CoreTypeOK, LineInv, NEW p \in Procs, KillStep(p)
  PROVE  LineInv'
<1>1. \A q \in Procs \ {p} :
        /\ InFile(q)' <=> InFile(q)
        /\ \A k \in Keys : Claims(q, k)' <=> Claims(q, k)
  BY KillFrame, SameClaims
<1>2. irq' = irq /\ InFile(p) /\ \A k \in Keys : Claims(p, k)
  BY KillFrame DEF InFile, Outside, Claims
<1>3. CASE pc[p] = "user" /\ pc'[p] = "out"
  <2>1. PICK q \in Procs \ {p} : InFile(q)
    BY <1>3, KillFrame
  <2>2. \A k \in Keys : ~Claims(p, k)' /\ Claims(q, k)
    BY <1>3, <2>1 DEF Claims, InFile, Outside
  <2>3. LinesClaimed'
    BY <1>1, <1>2, <2>2 DEF LineInv, LinesExact, LinesClaimed
  <2>4. ClaimsExclusive'
    BY <1>1, <2>2, ExclusiveStep DEF LineInv, LinesExact
  <2>5. KillAlone'
    <3>1. \A r \in Procs : pc'[r] \in {"kill", "killed"} => pc'[r] = pc[r]
      BY <1>3, KillFrame
    <3>2. \A r \in Procs : InFile(r)' => InFile(r)
      BY <1>1, <1>2
    <3> QED
      BY <3>1, <3>2, AloneKept DEF LineInv
  <2> QED
    BY <2>3, <2>4, <2>5 DEF LineInv, LinesExact
<1>4. CASE pc'[p] \in {"kill", "killed"}
  <2>1. \A q \in Procs \ {p} : ~InFile(q)
    BY <1>2, <1>4, KillFrame DEF LineInv, KillAlone
  <2>2. InFile(p)'
    BY <1>4 DEF InFile, Outside
  <2>3. LinesExact'
    BY <1>2, <2>2, KillFrame, InsideLines DEF LineInv
  <2>4. KillAlone'
    <3>1. \A q \in Procs \ {p} : ~InFile(q)'
      BY <1>1, <2>1
    <3>2. \A q \in Procs \ {p} : pc'[q] \notin {"kill", "killed"}
      BY <3>1 DEF InFile, Outside
    <3> QED
      BY <3>1, <3>2 DEF KillAlone
  <2> QED
    BY <2>3, <2>4 DEF LineInv
<1>5. CASE pc[p] = "killed" /\ pc'[p] = "release"
  <2>1. \A q \in Procs \ {p} : ~InFile(q)
    BY <1>5 DEF LineInv, KillAlone
  <2>2. idx'[p] = 1
    BY <1>5, KillFrame
  <2>3. \A k \in Keys : Claims(p, k)'
    BY <1>5, <2>2, KeysFact DEF Claims
  <2>4. \A q \in Procs \ {p}, k \in Keys : ~Claims(q, k)
    BY <1>2, <2>1 DEF LineInv, LinesExact, ClaimsExclusive
  <2>5. LinesClaimed'
    BY <1>2, <2>3 DEF LineInv, LinesExact, LinesClaimed
  <2>6. ClaimsExclusive'
    BY <1>1, <2>4, ExclusiveStep DEF LineInv, LinesExact
  <2>7. KillAlone'
    <3>1. \A q \in Procs : ~InFile(q)'
      BY <1>1, <1>5, <2>1 DEF InFile, Outside
    <3> QED
      BY <3>1 DEF KillAlone
  <2> QED
    BY <2>5, <2>6, <2>7 DEF LineInv, LinesExact
<1> QED
  BY <1>3, <1>4, <1>5, KillFrame

(* A step by which a process moves inside the file, outside tasklet_kill.  *)
LEMMA InsideAlone ==
  ASSUME CoreTypeOK, LineInv, NEW p \in Procs, irq' = irq,
         InFile(p), InFile(p)', pc'[p] \notin {"kill", "killed"},
         \A q \in Procs \ {p} : pc'[q] = pc[q] /\ idx'[q] = idx[q]
  PROVE  LineInv'
<1>1. LinesExact'
  BY InsideLines DEF LineInv
<1>2. \A q \in Procs \ {p} : InFile(q)' <=> InFile(q)
  BY SameClaims
<1>3. KillAlone'
  BY <1>2, AloneKept DEF LineInv
<1> QED
  BY <1>1, <1>3 DEF LineInv

(* A step that moves nobody and takes no line from the driver.             *)
LEMMA StillLines ==
  ASSUME LineInv, UNCHANGED <<pc, idx, irq>>
  PROVE  LineInv'
<1>1. LinesExact'
  BY SameClaims, MoveLines DEF LineInv
<1>2. KillAlone'
  BY DEF LineInv, KillAlone, InFile, Outside
<1> QED
  BY <1>1, <1>2 DEF LineInv

LEMMA LineInvariant == Spec => []LineInv
<1>1. Init => LineInv
  BY InitLines DEF Init, CoreInit, LineInv, KillAlone
<1>2. TypeOK /\ LineInv /\ [Next]_vars => LineInv'
  <2> SUFFICES ASSUME CoreTypeOK, LineInv, [Next]_vars PROVE LineInv'
    BY DEF TypeOK
  <2>1. ASSUME NEW p \in Procs, CopyStep(p) \/ ClearKey(p) PROVE LineInv'
    <3>1. pc[p] \in {"user", "copy", "clear"}
      BY <2>1 DEF CopyStep, CopyKey, CopyFault, ClearKey
    <3>2. pc'[p] \in {"user", "copy", "clear"}
      BY <2>1 DEF CopyStep, ReadBody, CopyKey, CopyFault, ClearKey, Goto,
                  CoreTypeOK
    <3>3. /\ irq' = irq
          /\ \A q \in Procs \ {p} : pc'[q] = pc[q] /\ idx'[q] = idx[q]
      BY <2>1 DEF CopyStep, ReadBody, CopyKey, CopyFault, ClearKey, Goto,
                  SetIdx, CoreTypeOK
    <3>4. InFile(p) /\ InFile(p)' /\ pc'[p] \notin {"kill", "killed"}
      BY <3>1, <3>2 DEF InFile, Outside
    <3> QED
      BY <3>3, <3>4, InsideAlone
  <2>2. ASSUME NEW p \in Procs, SelectStep(p) PROVE LineInv'
    <3>1. PICK l \in {"user", "poll", "check", "sleep"} : Goto(p, l)
      BY <2>2, SelectFrame
    <3>2. pc'[p] = l /\ \A q \in Procs \ {p} : pc'[q] = pc[q]
      BY <3>1 DEF Goto, CoreTypeOK
    <3>3. InFile(p) /\ InFile(p)' /\ pc'[p] \notin {"kill", "killed"}
      BY <2>2, <3>2, SelectFrame DEF InFile, Outside
    <3>4. irq' = irq /\ idx' = idx
      BY <2>2, SelectFrame
    <3> QED
      BY <3>2, <3>3, <3>4, InsideAlone
  <2>3. ASSUME NEW k \in Keys, OtherTakes(k) \/ OtherFrees(k) PROVE LineInv'
    <3>1. LinesExact'
      BY <2>3, OtherLines DEF LineInv
    <3>2. pc' = pc
      BY <2>3 DEF OtherTakes, OtherFrees
    <3> QED
      BY <3>1, <3>2 DEF LineInv, KillAlone, InFile, Outside
  <2>4. ASSUME \/ \E k \in Keys : Interrupt(k)
               \/ RunTasklet
               \/ UNCHANGED vars
        PROVE  LineInv'
    BY <2>4, StillLines DEF Interrupt, CountPress, RunTasklet, vars
  <2> QED
    BY <2>1, <2>2, <2>3, <2>4, CoreLines, KillLines, Steps
<1> QED
  BY <1>1, <1>2, TypeCorrect, PTL DEF Spec

(* Lines and claims agree also with tasklet_kill between the last close    *)
(* and the loop that frees the lines.                                      *)
THEOREM LinesCorrect == Spec => []LinesExact
<1>1. LineInv => LinesExact
  BY DEF LineInv
<1> QED
  BY <1>1, LineInvariant, PTL

---------------------------------------------------------------------------
(* The tasklet, while the softirq has always run before a process went on: *)
(* a queued tasklet has its SCHED bit and its function, and the driver has *)
(* a line; the bit without the queue is tasklet_kill's.                    *)
PromptTasklet ==
  /\ queued => sched /\ ready /\ \E k \in Keys : irq[k] = "mine"
  /\ sched => queued \/ \E p \in Procs : pc[p] = "killed"

(* Whoever has entered open has called tasklet_init.                       *)
EntryReady == (\E p \in Procs : pc[p] # "out") => ready

TaskInv == NoOops /\ EntryReady /\ (~deferred => PromptTasklet)

(* A process that goes on with the tasklet queued makes it deferred; if it *)
(* does not, only the bit remains to be looked at.                         *)
LEMMA ProcessKeeps ==
  ASSUME TaskInv, deferred \in BOOLEAN, ProcessesRun, UNCHANGED <<queued, oops>>,
         EntryReady',
         ~deferred /\ ~queued /\ sched' => \E p \in Procs : pc'[p] = "killed"
  PROVE  TaskInv'
<1>1. NoOops'
  BY DEF TaskInv, NoOops, ProcessesRun
<1>2. ASSUME ~deferred' PROVE PromptTasklet'
  <2>1. ~deferred /\ ~queued /\ ~queued'
    BY <1>2 DEF ProcessesRun
  <2> QED
    BY <2>1 DEF PromptTasklet
<1> QED
  BY <1>1, <1>2 DEF TaskInv

LEMMA InterruptKeeps ==
  ASSUME TypeOK, LinesExact, TaskInv, NEW k \in Keys, Interrupt(k)
  PROVE  TaskInv'
<1>1. /\ irq[k] = "mine" /\ UNCHANGED <<pc, irq, ready, deferred>>
      /\ ~oops /\ Schedule(k)
  BY DEF Interrupt, CountPress
<1>2. ready
  <2>1. PICK p \in Procs : Claims(p, k)
    BY <1>1 DEF LinesExact, LinesClaimed
  <2>2. pc[p] # "out"
    BY <2>1 DEF Claims, InFile, Outside
  <2> QED
    BY <2>2 DEF TaskInv, EntryReady
<1>3. EntryReady'
  BY <1>1, <1>2 DEF EntryReady
<1>4. CASE deferred
  BY <1>1, <1>3, <1>4 DEF TaskInv, NoOops
<1>5. CASE ~deferred
  <2>1. PromptTasklet
    BY <1>5 DEF TaskInv
  <2>2. CASE sched
    <3>1. UNCHANGED <<sched, queued, oops>>
      BY <1>1, <2>2 DEF Schedule
    <3> QED
      BY <1>1, <1>3, <2>1, <3>1 DEF TaskInv, NoOops, PromptTasklet
  <2>3. CASE ~sched
    <3>1. ~queued
      BY <2>1, <2>3 DEF PromptTasklet
    <3>2. sched' /\ queued' /\ ~oops'
      BY <1>1, <2>3, <3>1 DEF Schedule
    <3>3. ready' /\ irq'[k] = "mine"
      BY <1>1, <1>2
    <3> QED
      BY <1>3, <3>2, <3>3 DEF TaskInv, NoOops, PromptTasklet
  <2> QED
    BY <2>2, <2>3
<1> QED
  BY <1>4, <1>5

LEMMA RunKeeps ==
  ASSUME TaskInv, RunTasklet
  PROVE  TaskInv'
<1>1. queued /\ queued' = FALSE /\ UNCHANGED <<pc, irq, ready, deferred>> /\ ~oops
  BY DEF RunTasklet
<1>2. EntryReady'
  BY <1>1 DEF TaskInv, EntryReady
<1>3. CASE deferred
  BY <1>1, <1>2, <1>3 DEF TaskInv, NoOops
<1>4. CASE ~deferred
  <2>1. sched /\ ready
    BY <1>1, <1>4 DEF TaskInv, PromptTasklet
  <2>2. sched' = FALSE /\ oops' = oops
    BY <2>1 DEF RunTasklet
  <2> QED
    BY <1>1, <1>2, <2>2 DEF TaskInv, NoOops, PromptTasklet
<1> QED
  BY <1>3, <1>4

LEMMA TaskInvariant == Spec => []TaskInv
<1>1. Init => TaskInv
  BY DEF Init, CoreInit, TaskInv, NoOops, EntryReady, PromptTasklet
<1>2. TypeOK /\ LinesExact /\ TaskInv /\ [Next]_vars => TaskInv'
  <2> SUFFICES ASSUME TypeOK, LinesExact, TaskInv, [Next]_vars PROVE TaskInv'
    OBVIOUS
  <2>1. CoreTypeOK /\ deferred \in BOOLEAN
    BY DEF TypeOK
  <2>2. ~deferred /\ ~queued /\ sched => \E p \in Procs : pc[p] = "killed"
    BY DEF TaskInv, PromptTasklet
  <2>3. ASSUME NEW p \in Procs, ProcessesRun, OpenEnter(p), TaskletInit,
               UNCHANGED <<queued, oops>>
        PROVE  TaskInv'
    <3>1. EntryReady' /\ ~sched'
      BY <2>3 DEF EntryReady
    <3> QED
      BY <2>1, <2>3, <3>1, ProcessKeeps
  <2>4. ASSUME NEW p \in Procs, ProcessesRun,
               UNCHANGED <<sched, queued, ready, oops>>,
               CoreStep(p) \/ CopyStep(p) \/ ClearKey(p) \/ SelectStep(p)
        PROVE  TaskInv'
    <3>1. /\ \A q \in Procs : pc[q] = "killed" => pc'[q] = "killed"
          /\ (\E q \in Procs : pc'[q] # "out") => \E q \in Procs : pc[q] # "out"
      <4>1. CASE \/ RequestIrq(p) \/ RequestFails(p) \/ Unwind(p) \/ FreeIrq(p)
                 \/ CopyStep(p) \/ ClearKey(p)
        BY <2>1, <4>1
        DEF RequestIrq, RequestFails, Unwind, FreeIrq, CopyStep, ReadBody,
            CopyKey, CopyFault, ClearKey, Goto, CoreTypeOK
      <4>2. ASSUME NEW q \in Procs, Fork(p, q)
            PROVE  pc[p] = "user" /\ pc[q] = "out"
                   /\ pc' = [pc EXCEPT ![q] = "user"]
        BY <4>2 DEF Fork, Goto
      <4>3. CASE SelectStep(p)
        BY <2>1, <4>3, SelectFrame DEF Goto, CoreTypeOK
      <4> QED
        BY <2>1, <2>4, <4>1, <4>2, <4>3 DEF CoreStep, CoreTypeOK
    <3>2. EntryReady'
      BY <2>4, <3>1 DEF TaskInv, EntryReady
    <3> QED
      BY <2>1, <2>2, <2>4, <3>1, <3>2, ProcessKeeps
  <2>5. ASSUME NEW p \in Procs, ProcessesRun, KillStep(p) PROVE TaskInv'
    <3>1. UNCHANGED <<queued, ready, oops>>
      BY <2>1, <2>5, KillFrame
    <3>2. pc[p] # "out"
      BY <2>1, <2>5, KillFrame
    <3>3. EntryReady'
      BY <3>1, <3>2 DEF TaskInv, EntryReady
    <3>4. CASE KillGives(p)
      BY <2>1, <2>5, <3>1, <3>3, <3>4, ProcessKeeps DEF KillGives
    <3>5. CASE KillTakes(p)
      <4>1. pc'[p] = "killed"
        BY <2>1, <3>5 DEF KillTakes, Goto, CoreTypeOK
      <4> QED
        BY <2>1, <2>5, <3>1, <3>3, <4>1, ProcessKeeps
    <3>6. CASE TaskletClose(p)
      <4>1. sched' = sched
        BY <3>6 DEF TaskletClose, taskVars
      <4>2. \A q \in Procs : pc[q] = "killed" => pc'[q] = "killed"
        BY <2>1, <3>6 DEF TaskletClose, Goto, CoreTypeOK
      <4> QED
        BY <2>1, <2>2, <2>5, <3>1, <3>3, <4>1, <4>2, ProcessKeeps
    <3> QED
      BY <2>5, <3>4, <3>5, <3>6 DEF KillStep
  <2>6. ASSUME NEW k \in Keys, ProcessesRun, OtherTakes(k) \/ OtherFrees(k),
               UNCHANGED taskVars
        PROVE  TaskInv'
    <3>1. pc' = pc /\ UNCHANGED <<sched, queued, ready, oops>>
      BY <2>6 DEF OtherTakes, OtherFrees, taskVars
    <3>2. EntryReady'
      BY <3>1 DEF TaskInv, EntryReady
    <3> QED
      BY <2>1, <2>2, <2>6, <3>1, <3>2, ProcessKeeps
  <2>7. CASE UNCHANGED vars
    BY <2>7 DEF vars, TaskInv, NoOops, EntryReady, PromptTasklet
  <2> QED
    BY <2>3, <2>4, <2>5, <2>6, <2>7, InterruptKeeps, RunKeeps, Steps
    DEF taskVars
<1> QED
  BY <1>1, <1>2, TypeCorrect, LinesCorrect, PTL DEF Spec

(* As long as the softirq runs on the way out of the interrupt the kernel  *)
(* never stops on this tasklet, with any number of opens initialising it.  *)
THEOREM NoOopsCorrect == Spec => []NoOops
<1>1. TaskInv => NoOops
  BY DEF TaskInv
<1> QED
  BY <1>1, TaskInvariant, PTL

(* With every descriptor closed and the softirq prompt nothing is queued   *)
(* and the SCHED bit is clear, though release frees the lines after        *)
(* tasklet_kill.                                                           *)
THEOREM AtRestCorrect == Spec => []TaskletAtRest
<1>1. LinesExact /\ TaskInv => TaskletAtRest
  <2> SUFFICES ASSUME LinesExact, TaskInv, ~deferred,
                      \A p \in Procs : pc[p] = "out"
               PROVE  ~queued /\ ~sched
    BY DEF TaskletAtRest
  <2>1. \A p \in Procs, k \in Keys : ~Claims(p, k)
    BY DEF Claims, InFile, Outside
  <2>2. \A k \in Keys : irq[k] # "mine"
    BY <2>1 DEF LinesExact, LinesClaimed
  <2> QED
    BY <2>2 DEF TaskInv, PromptTasklet
<1> QED
  BY <1>1, LinesCorrect, TaskInvariant, PTL

---------------------------------------------------------------------------
(* Presses.                                                                *)

(* A step that leaves counters, flag, tasklet and reads as they are.       *)
LEMMA QuietScheduled ==
  ASSUME PressScheduled, UNCHANGED <<values, ev_press, queued, oops, swallowed>>,
         \A q \in Procs, k \in Keys : WillClear(q, k) => WillClear(q, k)'
  PROVE  PressScheduled'
BY DEF PressScheduled

(* A step that is no read, no interrupt and no run of the tasklet touches  *)
(* no counter and moves no process into or out of a read.                  *)
LEMMA QuietNext ==
  ASSUME CoreTypeOK,
         \/ \E p \in Procs : \/ OpenEnter(p) \/ CoreStep(p) \/ KillStep(p)
                             \/ SelectStep(p)
         \/ \E k \in Keys : OtherTakes(k) \/ OtherFrees(k)
         \/ UNCHANGED vars
  PROVE  /\ UNCHANGED <<values, ev_press, want, buf, presses, delivered, late>>
         /\ \A q \in Procs : pc'[q] = "copy" => pc[q] = "copy"
         /\ \A q \in Procs, k \in Keys :
              /\ InWindow(q, k)' <=> InWindow(q, k)
              /\ WillClear(q, k)' <=> WillClear(q, k)
<1>1. ASSUME NEW p \in Procs, KillStep(p) \/ SelectStep(p)
      PROVE  /\ UNCHANGED <<values, ev_press, want, buf, presses, delivered,
                            late>>
             /\ pc[p] \notin {"copy", "clear"} /\ pc'[p] \notin {"copy", "clear"}
             /\ \A q \in Procs \ {p} : pc'[q] = pc[q] /\ idx'[q] = idx[q]
  <2>1. CASE KillStep(p)
    BY <2>1, KillFrame
  <2>2. CASE SelectStep(p)
    <3>1. PICK l \in {"user", "poll", "check", "sleep"} : Goto(p, l)
      BY <2>2, SelectFrame
    <3> QED
      BY <2>2, <3>1, SelectFrame DEF Goto, CoreTypeOK
  <2> QED
    BY <1>1, <2>1, <2>2
<1>2. ASSUME NEW p \in Procs, KillStep(p) \/ SelectStep(p)
      PROVE  /\ \A q \in Procs : pc'[q] = "copy" => pc[q] = "copy"
             /\ \A q \in Procs, k \in Keys :
                  /\ InWindow(q, k)' <=> InWindow(q, k)
                  /\ WillClear(q, k)' <=> WillClear(q, k)
  <2>1. \A q \in Procs : pc'[q] = "copy" => pc[q] = "copy"
    BY <1>1, <1>2
  <2> QED
    BY <1>1, <1>2, <2>1, OutsideRead
<1>3. ASSUME \/ \E k \in Keys : OtherTakes(k) \/ OtherFrees(k)
             \/ UNCHANGED vars
      PROVE  UNCHANGED <<pc, idx, values, ev_press, want, buf,
                         presses, delivered, late>>
  BY <1>3 DEF OtherTakes, OtherFrees, vars, history
<1> QED
  BY <1>1, <1>2, <1>3, QuietSteps, InPlace DEF CoreStep

(* A press that nobody is collecting has its report on the way: the flag,  *)
(* the queued tasklet, or the one step of tasklet_kill that swallows it,   *)
(* for any number of readers, opens and closes of the device.              *)
THEOREM ScheduledCorrect == Spec => []PressScheduled
<1>1. Init => PressScheduled
  BY DEF Init, CoreInit, NoCounts, PressScheduled
<1>2. TypeOK /\ PressScheduled /\ [Next]_vars => PressScheduled'
  <2> SUFFICES ASSUME CoreTypeOK, PressScheduled, [Next]_vars
               PROVE  PressScheduled'
    BY DEF TypeOK
  <2>1. ASSUME \/ \E p \in Procs : \/ OpenEnter(p) \/ CoreStep(p) \/ KillStep(p)
                                   \/ SelectStep(p)
               \/ \E k \in Keys : OtherTakes(k) \/ OtherFrees(k)
               \/ UNCHANGED vars,
               UNCHANGED <<queued, oops, swallowed>>
        PROVE  PressScheduled'
    BY <2>1, QuietNext, QuietScheduled
  <2>2. ASSUME NEW p \in Procs, KillStep(p)
        PROVE  UNCHANGED <<queued, oops, swallowed>>
    BY <2>2, KillFrame
  <2>3. ASSUME NEW p \in Procs, NEW n \in ReadSizes, ReadBody(p, n)
        PROVE  PressScheduled'
    BY <2>3, ReadCovers DEF PressScheduled
  <2>4. ASSUME NEW p \in Procs, CopyKey(p) \/ CopyFault(p), UNCHANGED taskVars
        PROVE  PressScheduled'
    BY <2>4, CopyKeeps, QuietScheduled DEF taskVars
  <2>5. ASSUME NEW p \in Procs, ClearKey(p), UNCHANGED <<queued, oops>>,
               swallowed' = swallowed \ {idx[p]}
        PROVE  PressScheduled'
    BY <2>5, ClearKeeps DEF PressScheduled
  <2>6. ASSUME NEW k \in Keys, Interrupt(k) PROVE PressScheduled'
    <3>1. /\ \A j \in Keys : values'[j] > 0 => j = k \/ values[j] > 0
          /\ ev_press' = ev_press /\ ~oops
          /\ \A q \in Procs, j \in Keys : WillClear(q, j)' <=> WillClear(q, j)
      BY <2>6 DEF Interrupt, CountPress, CoreTypeOK, WillClear
    <3>2. \/ queued'
          \/ swallowed' = swallowed \cup {k} /\ queued' = queued
      BY <2>6 DEF Interrupt, Schedule
    <3> QED
      BY <3>1, <3>2 DEF PressScheduled
  <2>7. ASSUME RunTasklet PROVE PressScheduled'
    BY <2>7 DEF RunTasklet, PressScheduled
  <2> QED
    BY <2>1, <2>2, <2>3, <2>4, <2>5, <2>6, <2>7, Steps
    DEF CopyStep, taskVars, vars
<1> QED
  BY <1>1, <1>2, TypeCorrect, PTL DEF Spec

(* No process sleeps in select beside a raised flag without a wake-up on   *)
(* its way: the tasklet raises the flag and wakes the queue in one go.     *)
THEOREM NoLostWakeupCorrect == Spec => [](QueueExact /\ NoLostWakeup)
<1> DEFINE Inv == QueueExact /\ NoLostWakeup
<1>1. Init => Inv
  BY DEF Init, CoreInit, SelectInit, QueueExact, NoLostWakeup
<1>2. TypeOK /\ Inv /\ [Next]_vars => Inv'
  <2> SUFFICES ASSUME CoreTypeOK, QueueExact, NoLostWakeup, [Next]_vars
               PROVE  QueueExact' /\ NoLostWakeup'
    BY DEF TypeOK
  <2>1. ASSUME NEW p \in Procs, UNCHANGED waitVars, ev_press' \in {0, ev_press},
               pc[p] \notin {"check", "sleep"}, pc'[p] \notin {"check", "sleep"},
               \A q \in Procs \ {p} : pc'[q] = pc[q]
        PROVE  QueueExact' /\ NoLostWakeup'
    BY <2>1 DEF QueueExact, NoLostWakeup, waitVars
  <2>2. ASSUME UNCHANGED <<pc, ev_press, waitq, triggered>>
        PROVE  QueueExact' /\ NoLostWakeup'
    BY <2>2 DEF QueueExact, NoLostWakeup
  <2>3. ASSUME NEW p \in Procs, UNCHANGED waitVars,
               \/ OpenEnter(p) \/ RequestIrq(p) \/ RequestFails(p)
               \/ Unwind(p) \/ FreeIrq(p) \/ CopyStep(p) \/ ClearKey(p)
        PROVE  QueueExact' /\ NoLostWakeup'
    <3>1. /\ pc[p] \notin {"check", "sleep"} /\ pc'[p] \notin {"check", "sleep"}
          /\ ev_press' \in {0, ev_press}
          /\ \A q \in Procs \ {p} : pc'[q] = pc[q]
      BY <2>3 DEF OpenEnter, RequestIrq, RequestFails, Unwind, FreeIrq,
         CopyStep, ReadBody, CopyKey, CopyFault, ClearKey, Goto, CoreTypeOK
    <3> QED
      BY <2>1, <2>3, <3>1
  <2>4. ASSUME NEW p \in Procs, NEW q \in Procs, Fork(p, q), UNCHANGED waitVars
        PROVE  QueueExact' /\ NoLostWakeup'
    <3>1. /\ pc[q] \notin {"check", "sleep"} /\ pc'[q] \notin {"check", "sleep"}
          /\ ev_press' = ev_press
          /\ \A r \in Procs \ {q} : pc'[r] = pc[r]
      BY <2>4 DEF Fork, Goto, CoreTypeOK
    <3> QED
      BY <2>1, <2>4, <3>1
  <2>5. ASSUME NEW p \in Procs, KillStep(p) PROVE QueueExact' /\ NoLostWakeup'
    <3>1. /\ pc[p] \notin {"check", "sleep"} /\ pc'[p] \notin {"check", "sleep"}
          /\ ev_press' = ev_press /\ UNCHANGED waitVars
          /\ \A q \in Procs \ {p} : pc'[q] = pc[q]
      BY <2>5, KillFrame DEF waitVars
    <3> QED
      BY <2>1, <3>1
  <2>6. ASSUME NEW p \in Procs, SelectStep(p)
        PROVE  QueueExact' /\ NoLostWakeup'
    <3>1. CASE SelectEnter(p)
      BY <3>1 DEF SelectEnter, Goto, CoreTypeOK, QueueExact, NoLostWakeup,
                  waitVars
    <3>2. CASE PollRegister(p)
      BY <3>2 DEF PollRegister, Goto, CoreTypeOK, QueueExact, NoLostWakeup
    <3>3. CASE PollReady(p) \/ SelectInterrupted(p)
      BY <3>3 DEF PollReady, SelectInterrupted, LeaveSelect, Goto, CoreTypeOK,
                  QueueExact, NoLostWakeup
    <3>4. CASE PollNotReady(p)
      BY <3>4 DEF PollNotReady, Goto, CoreTypeOK, QueueExact, NoLostWakeup,
                  waitVars
    <3>5. CASE SelectWake(p)
      BY <3>5 DEF SelectWake, Goto, CoreTypeOK, QueueExact, NoLostWakeup
    <3> QED
      BY <2>6, <3>1, <3>2, <3>3, <3>4, <3>5 DEF SelectStep
  <2>7. ASSUME RunTasklet PROVE QueueExact' /\ NoLostWakeup'
    BY <2>7 DEF RunTasklet, QueueExact, NoLostWakeup
  <2>8. ASSUME \/ \E k \in Keys : Interrupt(k)
               \/ \E k \in Keys : (OtherTakes(k) \/ OtherFrees(k)) /\ UNCHANGED waitVars
               \/ UNCHANGED vars
        PROVE  QueueExact' /\ NoLostWakeup'
    BY <2>2, <2>8
    DEF Interrupt, CountPress, OtherTakes, OtherFrees, waitVars, vars
  <2> QED
    BY <2>3, <2>4, <2>5, <2>6, <2>7, <2>8, Steps DEF CoreStep
<1> QED
  BY <1>1, <1>2, TypeCorrect, PTL DEF Spec

---------------------------------------------------------------------------
(* The accounts of the presses, as in pan_irq.                             *)

(* Without sharing the device has at most one holder, also while           *)
(* tasklet_kill waits.                                                     *)
THEOREM SingleCorrect == Spec => []SingleHolder
<1>1. Init => SingleHolder
  BY DEF Init, CoreInit, SingleHolder, InFile, Outside
<1>2. TypeOK /\ LinesExact /\ SingleHolder /\ [Next]_vars => SingleHolder'
  <2> SUFFICES ASSUME CoreTypeOK, LinesExact, SingleHolder, ~Sharing, [Next]_vars
               PROVE  SingleHolder'
    BY DEF TypeOK, SingleHolder
  <2>1. ASSUME NEW p \in Procs,
               OpenEnter(p) \/ (CoreStep(p) /\ ~RequestIrq(p))
        PROVE  SingleHolder'
    <3>1. \A q \in Procs : InFile(q)' => InFile(q)
      BY <2>1 DEF CoreStep, OpenEnter, RequestFails, Unwind, FreeIrq, Fork,
                  Goto, CoreTypeOK, InFile, Outside
    <3> QED
      BY <3>1, SingleKept
  <2>2. ASSUME NEW p \in Procs, CopyStep(p) \/ ClearKey(p) PROVE SingleHolder'
    <3>1. \A q \in Procs : InFile(q)' => InFile(q)
      BY <2>2 DEF CopyStep, ReadBody, CopyKey, CopyFault, ClearKey, Goto,
                  CoreTypeOK, InFile, Outside
    <3> QED
      BY <3>1, SingleKept
  <2>3. ASSUME NEW p \in Procs, KillStep(p) \/ SelectStep(p) PROVE SingleHolder'
    <3>1. InFile(p) /\ \A q \in Procs \ {p} : pc'[q] = pc[q]
      BY <2>3, KillFrame, SelectFrame DEF Goto, CoreTypeOK, InFile, Outside
    <3>2. \A q \in Procs : InFile(q)' => InFile(q)
      BY <3>1 DEF InFile, Outside
    <3> QED
      BY <3>2, SingleKept
  <2>4. ASSUME pc' = pc PROVE SingleHolder'
    BY <2>4 DEF SingleHolder, InFile, Outside
  <2>5. ASSUME NEW k \in Keys, Interrupt(k) \/ OtherTakes(k) \/ OtherFrees(k)
        PROVE  pc' = pc
    BY <2>5 DEF Interrupt, CountPress, OtherTakes, OtherFrees
  <2>6. RunTasklet \/ UNCHANGED vars => pc' = pc
    BY DEF RunTasklet, vars
  <2> QED
    BY <2>1, <2>2, <2>3, <2>4, <2>5, <2>6, RequestSingle, Steps
<1> QED
  BY <1>1, <1>2, TypeCorrect, LinesCorrect, PTL DEF Spec

(* No counter, read or account is touched by the tasklet itself.           *)
LEMMA RunQuiet ==
  ASSUME RunTasklet
  PROVE  /\ UNCHANGED <<values, want, buf, presses, delivered, late, pc>>
         /\ \A q \in Procs, k \in Keys : InWindow(q, k)' <=> InWindow(q, k)
<1>1. UNCHANGED <<values, want, buf, presses, delivered, late, pc, idx>>
  BY DEF RunTasklet, history
<1> QED
  BY <1>1, InPlace

(* A copy never exceeds its counter, and no press is reported twice.       *)
Account == ~Sharing => BufBounded /\ NoPhantomPress

LEMMA AccountInvariant == Spec => []Account
<1>1. Init => Account
  BY InitAccount DEF Init, Account
<1>2. TypeOK /\ SingleHolder /\ Account /\ [Next]_vars => Account'
  <2> SUFFICES ASSUME CoreTypeOK, SingleHolder, ~Sharing,
                      BufBounded, NoPhantomPress, [Next]_vars
               PROVE  BufBounded' /\ NoPhantomPress'
    BY DEF TypeOK, Account
  <2>1. ASSUME \/ \E p \in Procs : \/ OpenEnter(p) \/ CoreStep(p) \/ KillStep(p)
                                   \/ SelectStep(p)
               \/ \E k \in Keys : OtherTakes(k) \/ OtherFrees(k)
               \/ UNCHANGED vars
        PROVE  BufBounded' /\ NoPhantomPress'
    BY <2>1, QuietNext, QuietAccount
  <2>2. ASSUME NEW p \in Procs, CopyStep(p) \/ ClearKey(p)
        PROVE  BufBounded' /\ NoPhantomPress'
    BY <2>2, ReadAccount, CopyAccount, FaultAccount, ClearAccount DEF CopyStep
  <2>3. ASSUME NEW k \in Keys, Interrupt(k)
        PROVE  BufBounded' /\ NoPhantomPress'
    BY <2>3, PressAccount DEF Interrupt
  <2>4. ASSUME RunTasklet PROVE BufBounded' /\ NoPhantomPress'
    BY <2>4, RunQuiet, QuietAccount
  <2> QED
    BY <2>1, <2>2, <2>3, <2>4, Steps
<1> QED
  BY <1>1, <1>2, TypeCorrect, SingleCorrect, PTL DEF Spec

(* What a read has copied and not cleared covers every press but the late  *)
(* ones, when reads ask for all counters and none faults.                  *)
LossAccount == FullReads => LossOnlyInWindow /\ WindowAccount

LEMMA LossInvariant == Spec => []LossAccount
<1>1. Init => LossAccount
  BY InitAccount DEF Init, LossAccount
<1>2. TypeOK /\ SingleHolder /\ Account /\ LossAccount /\ [Next]_vars
        => LossAccount'
  <2> SUFFICES ASSUME CoreTypeOK, SingleHolder, FullReads, BufBounded,
                      LossOnlyInWindow, WindowAccount, [Next]_vars
               PROVE  LossOnlyInWindow' /\ WindowAccount'
    BY DEF TypeOK, Account, LossAccount, FullReads
  <2>1. ASSUME \/ \E p \in Procs : \/ OpenEnter(p) \/ CoreStep(p) \/ KillStep(p)
                                   \/ SelectStep(p)
               \/ \E k \in Keys : OtherTakes(k) \/ OtherFrees(k)
               \/ UNCHANGED vars
        PROVE  LossOnlyInWindow' /\ WindowAccount'
    <3>1. \A q \in Procs : pc'[q] = "copy" => want'[q] = NKeys
      BY <2>1, QuietNext, KeysFact DEF WindowAccount
    <3> QED
      BY <2>1, <3>1, QuietNext, QuietAccount
  <2>2. ASSUME NEW p \in Procs, CopyStep(p) \/ ClearKey(p)
        PROVE  LossOnlyInWindow' /\ WindowAccount'
    BY <2>2, ReadAccount, CopyAccount, FaultAccount, ClearAccount
    DEF CopyStep, FullReads
  <2>3. ASSUME NEW k \in Keys, Interrupt(k)
        PROVE  LossOnlyInWindow' /\ WindowAccount'
    BY <2>3, PressAccount DEF Interrupt
  <2>4. ASSUME RunTasklet PROVE LossOnlyInWindow' /\ WindowAccount'
    <3>1. \A q \in Procs : pc'[q] = "copy" => want'[q] = NKeys
      BY <2>4, RunQuiet, KeysFact DEF WindowAccount
    <3> QED
      BY <2>4, <3>1, RunQuiet, QuietAccount
  <2> QED
    BY <2>1, <2>2, <2>3, <2>4, Steps
<1> QED
  BY <1>1, <1>2, TypeCorrect, SingleCorrect, AccountInvariant, PTL DEF Spec

(* Without sharing no press is reported twice, and when every read asks    *)
(* for all the counters and none faults, a press is lost only between a    *)
(* read's copy of its key and the memset that follows.                     *)
THEOREM PressesCorrect ==
  Spec => [](/\ ~Sharing => NoPhantomPress
             /\ FullReads => LossOnlyInWindow)
<1>1. Account /\ LossAccount => /\ ~Sharing => NoPhantomPress
                                /\ FullReads => LossOnlyInWindow
  BY DEF Account, LossAccount
<1> QED
  BY <1>1, AccountInvariant, LossInvariant, PTL

---------------------------------------------------------------------------
(* The ledger of a key driver, read off pan_tasklet's counters.            *)
Ledger == INSTANCE KeyLedger
            WITH pressed <- presses, pending <- values, reported <- delivered

(* Without sharing pan_tasklet implements the ledger as pan_irq does: a    *)
(* step of the tasklet or of tasklet_kill is a stutter of it, and a memset *)
(* of one counter is a collection that reports at most what was pending.   *)
THEOREM LedgerCorrect ==
  ASSUME ~Sharing PROVE Spec => Ledger!Spec
<1>1. Init => Ledger!Init
  BY DEF Init, CoreInit, NoCounts, Ledger!Init
<1>2. TypeOK /\ Account /\ [Next]_vars => [Ledger!Next]_(Ledger!ledger)
  <2> SUFFICES ASSUME CoreTypeOK, BufBounded, [Next]_vars
               PROVE  [Ledger!Next]_(Ledger!ledger)
    BY DEF TypeOK, Account
  <2>1. ASSUME UNCHANGED <<presses, values, delivered>>
        PROVE  [Ledger!Next]_(Ledger!ledger)
    BY <2>1 DEF Ledger!ledger
  <2>2. ASSUME \/ \E p \in Procs : \/ OpenEnter(p) \/ CoreStep(p) \/ KillStep(p)
                                   \/ SelectStep(p)
               \/ \E k \in Keys : OtherTakes(k) \/ OtherFrees(k)
               \/ UNCHANGED vars
        PROVE  [Ledger!Next]_(Ledger!ledger)
    BY <2>1, <2>2, QuietNext
  <2>3. ASSUME NEW p \in Procs, CopyStep(p)
        PROVE  [Ledger!Next]_(Ledger!ledger)
    BY <2>1, <2>3 DEF CopyStep, ReadBody, CopyKey, CopyFault, history
  <2>4. ASSUME NEW p \in Procs, ClearKey(p)
        PROVE  [Ledger!Next]_(Ledger!ledger)
    <3>1. idx[p] \in Keys
      BY <2>4 DEF ClearKey, CoreTypeOK, IndexOK
    <3>2. buf[p][idx[p]] \in 0..values[idx[p]]
      BY <3>1 DEF CoreTypeOK, BufBounded
    <3>3. Ledger!Collect(idx[p])
      BY <2>4, <3>2 DEF ClearKey, Ledger!Collect
    <3> QED
      BY <3>1, <3>3 DEF Ledger!Next
  <2>5. ASSUME NEW k \in Keys, Interrupt(k)
        PROVE  [Ledger!Next]_(Ledger!ledger)
    <3>1. Ledger!Press(k)
      BY <2>5 DEF Interrupt, CountPress, Ledger!Press
    <3> QED
      BY <3>1 DEF Ledger!Next
  <2>6. ASSUME RunTasklet PROVE [Ledger!Next]_(Ledger!ledger)
    BY <2>1, <2>6, RunQuiet
  <2> QED
    BY <2>2, <2>3, <2>4, <2>5, <2>6, Steps
<1> QED
  BY <1>1, <1>2, TypeCorrect, AccountInvariant, PTL DEF Spec, Ledger!Spec
=============================================================================
