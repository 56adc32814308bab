-------------------------- MODULE PanTimeKeyProofs --------------------------
(***************************************************************************)
(* The debouncing, the flag and the wake-ups of pan_time_key, for any      *)
(* number of keys and processes, whether or not they share the file.       *)
(***************************************************************************)
EXTENDS PanTimeKey, TLAPS

(* How the count of a key reflects its last three samples.                 *)
CountsSamples ==
  \A k \in Keys :
    /\ pressed[k] = 0 <=> ~recent[k][1]
    /\ pressed[k] = 1 <=> recent[k][1] /\ ~recent[k][2]
    /\ pressed[k] = 2 <=> recent[k][1] /\ recent[k][2] /\ ~recent[k][3]
    /\ key_values[k] = 1 <=> pressed[k] = 3

(* A process past poll_wait is queued.                                     *)
Queued == \A p \in Procs : pc[p] \in {"check", "sleep"} => p \in waitq

KeyInv == TypeOK /\ CountsSamples /\ PressedSignalled /\ Queued /\ NoLostWakeup

LEMMA TimerTypeInit == TimerInit => TimerTypeOK
BY DEF TimerInit, TimerTypeOK

(* The steps of the file keep its types, also beside a second open.        *)
LEMMA TimerTypeStep ==
  ASSUME TimerTypeOK, NEW p \in Procs, NEW q \in Procs,
         TimerOpen(p) \/ TimerFork(p, q) \/ TimerClose(p)
  PROVE  TimerTypeOK'
<1>1. CASE TimerOpen(p)
  BY <1>1 DEF TimerTypeOK, TimerOpen
<1>2. CASE TimerFork(p, q)
  BY <1>2 DEF TimerTypeOK, TimerFork
<1>3. CASE TimerClose(p)
  BY <1>3 DEF TimerTypeOK, TimerClose, Deleted
<1> QED  BY <1>1, <1>2, <1>3

LEMMA KeyInit == Init => KeyInv
<1> SUFFICES ASSUME Init PROVE KeyInv
  OBVIOUS
<1>1. TypeOK
  <2>1. TimerTypeOK
    BY TimerTypeInit DEF Init
  <2>2. /\ pressed \in [Keys -> 0..3] /\ key_values \in [Keys -> {0, 1}]
        /\ held \subseteq Keys /\ ev_press \in {0, 1}
    BY DEF Init
  <2>5. lowered \in BOOLEAN
    BY DEF Init
  <2>3. pc \in [Procs -> {"user", "poll", "check", "sleep", "copy"}]
        /\ waitq \subseteq Procs /\ triggered \subseteq waitq
    BY DEF Init
  <2>4. recent \in [Keys -> [1..3 -> BOOLEAN]]
    BY DEF Init
  <2> QED  BY <2>1, <2>2, <2>3, <2>4, <2>5 DEF TypeOK
<1>2. \A k \in Keys : /\ pressed[k] = 0 /\ key_values[k] = 0
                       /\ recent[k][1] = FALSE
  BY DEF Init
<1>3. CountsSamples
  BY <1>2 DEF CountsSamples
<1>4. PressedSignalled
  BY <1>2 DEF PressedSignalled
<1>5. Queued /\ NoLostWakeup
  BY DEF Init, Queued, NoLostWakeup
<1> QED  BY <1>1, <1>3, <1>4, <1>5 DEF KeyInv

(* A scan: the counts follow the samples, and the flag the counts.         *)
LEMMA ScanStep == ASSUME KeyInv, Scan PROVE KeyInv'
<1> DEFINE up == \E k \in Keys : Signals(k)
<1>1. /\ pressed' = [k \in Keys |-> IF k \in held THEN Count(k) ELSE 0]
      /\ key_values' = [k \in Keys |-> Value(k)]
      /\ recent' = [k \in Keys |-> [i \in 1..3 |-> IF i = 1 THEN k \in held
                                                      ELSE recent[k][i - 1]]]
      /\ UNCHANGED <<timerVars, held, pc, waitq>> /\ lowered' = FALSE
  BY DEF Scan, TimerGoesOff
<1>2. /\ ev_press' = (IF up THEN 1 ELSE ev_press)
      /\ triggered' = (IF up THEN triggered \cup waitq ELSE triggered)
  BY DEF Scan, Woken
<1>3. /\ pressed \in [Keys -> 0..3] /\ key_values \in [Keys -> {0, 1}]
      /\ recent \in [Keys -> [1..3 -> BOOLEAN]]
  BY DEF KeyInv, TypeOK
<1>4. \A k \in Keys : Count(k) = IF k \in held
                                   THEN (IF pressed[k] >= 2 THEN 3 ELSE pressed[k] + 1)
                                   ELSE pressed[k]
  BY <1>3 DEF Count, Counted
<1>5. \A k \in Keys : Count(k) \in 0..3 /\ Value(k) \in {0, 1}
  BY <1>3, <1>4 DEF Value
<1>6. TypeOK'
  <2>1. /\ \A k \in Keys : (IF k \in held THEN Count(k) ELSE 0) \in 0..3
        /\ \A k \in Keys : Value(k) \in {0, 1}
    BY <1>5
  <2> pressed' \in [Keys -> 0..3]
    BY <1>1, <2>1, Zenon
  <2> key_values' \in [Keys -> {0, 1}]
    BY <1>1, <2>1, Zenon
  <2>2. recent' \in [Keys -> [1..3 -> BOOLEAN]]
    BY <1>1, <1>3
  <2>3. TimerTypeOK'
    BY <1>1 DEF KeyInv, TypeOK, timerVars, TimerTypeOK
  <2>4. ev_press' \in {0, 1} /\ triggered' \subseteq waitq'
    BY <1>1, <1>2 DEF KeyInv, TypeOK
  <2> QED  BY <1>1, <2>1, <2>2, <2>3, <2>4 DEF KeyInv, TypeOK
<1>7. CountsSamples'
  <2> SUFFICES ASSUME NEW k \in Keys
               PROVE  /\ pressed'[k] = 0 <=> ~recent'[k][1]
                      /\ pressed'[k] = 1 <=> recent'[k][1] /\ ~recent'[k][2]
                      /\ pressed'[k] = 2 <=> recent'[k][1] /\ recent'[k][2] /\ ~recent'[k][3]
                      /\ key_values'[k] = 1 <=> pressed'[k] = 3
    BY DEF CountsSamples
  <2>1. /\ pressed'[k] = IF k \in held THEN Count(k) ELSE 0
        /\ key_values'[k] = Value(k)
        /\ recent'[k] = [i \in 1..3 |-> IF i = 1 THEN k \in held ELSE recent[k][i - 1]]
    BY <1>1
  <2>5. /\ recent'[k][1] = (k \in held)
        /\ recent'[k][2] = recent[k][1]
        /\ recent'[k][3] = recent[k][2]
    BY <2>1
  <2>2. /\ pressed[k] \in 0..3 /\ key_values[k] \in {0, 1}
        /\ pressed[k] = 0 <=> ~recent[k][1]
        /\ pressed[k] = 1 <=> recent[k][1] /\ ~recent[k][2]
        /\ pressed[k] = 2 <=> recent[k][1] /\ recent[k][2] /\ ~recent[k][3]
        /\ key_values[k] = 1 <=> pressed[k] = 3
    BY <1>3 DEF KeyInv, CountsSamples
  <2>3. CASE k \in held
    <3>1. recent'[k][1] = TRUE
      BY <2>3, <2>5
    <3>2. pressed'[k] = IF pressed[k] >= 2 THEN 3 ELSE pressed[k] + 1
      BY <1>4, <2>1, <2>3
    <3>3. key_values'[k] = IF pressed'[k] = 3 THEN 1 ELSE key_values[k]
      BY <2>1, <2>3 DEF Value
    <3>4. /\ pressed'[k] \in 1..3
          /\ pressed'[k] = 1 <=> pressed[k] = 0
          /\ pressed'[k] = 2 <=> pressed[k] = 1
          /\ pressed'[k] = 3 <=> pressed[k] = 2 \/ pressed[k] = 3
      BY <2>2, <3>2
    <3>5. key_values'[k] = 1 <=> pressed'[k] = 3
      BY <2>2, <3>3, <3>4
    <3>6. pressed'[k] # 0
      BY <3>4
    <3>7. pressed[k] = 2 \/ pressed[k] = 3 <=> recent[k][1] /\ recent[k][2]
      BY <2>2
    <3> QED  BY <2>2, <2>5, <3>1, <3>4, <3>5, <3>6, <3>7
  <2>4. CASE k \notin held
    <3>1. ~recent'[k][1]
      BY <2>4, <2>5
    <3>2. pressed'[k] = 0
      BY <2>1, <2>4
    <3>3. key_values'[k] = 0
      BY <1>4, <2>1, <2>2, <2>4 DEF Value
    <3> QED  BY <3>1, <3>2, <3>3
  <2> QED  BY <2>3, <2>4
<1>8. PressedSignalled'
  <2> SUFFICES ASSUME NEW k \in Keys, key_values'[k] = 1 PROVE ev_press' = 1
    BY DEF PressedSignalled
  <2>1. Value(k) = 1
    BY <1>1
  <2>2. Count(k) = 3
    BY <1>3, <1>4, <2>1 DEF Value, KeyInv, CountsSamples
  <2> QED  BY <1>2, <2>2 DEF Signals
<1>9. Queued' /\ NoLostWakeup'
  BY <1>1, <1>2 DEF KeyInv, Queued, NoLostWakeup
<1> QED  BY <1>6, <1>7, <1>8, <1>9 DEF KeyInv

(* What leaves the keys alone leaves all that is said of them.             *)
LEMMA KeysKept ==
  ASSUME KeyInv, UNCHANGED <<pressed, key_values, recent>>,
         UNCHANGED <<ev_press, lowered>> \/ lowered' = TRUE
  PROVE  CountsSamples' /\ PressedSignalled'
BY DEF KeyInv, CountsSamples, PressedSignalled

LEMMA FileStep ==
  ASSUME KeyInv, NEW p \in Procs, NEW q \in Procs, Open(p) \/ Close(p) \/ Fork(p, q)
  PROVE  KeyInv'
<1>1. /\ TimerOpen(p) \/ TimerFork(p, q) \/ TimerClose(p)
      /\ UNCHANGED <<held, pressed, key_values, ev_press, recent, lowered,
                     pc, waitq, triggered>>
  BY DEF Open, Close, Fork, keyVars, waitVars
<1>2. TimerTypeOK'
  BY <1>1, TimerTypeStep DEF KeyInv, TypeOK
<1>3. TypeOK'
  BY <1>1, <1>2 DEF KeyInv, TypeOK
<1>4. CountsSamples' /\ PressedSignalled'
  BY <1>1, KeysKept
<1>5. Queued' /\ NoLostWakeup'
  BY <1>1 DEF KeyInv, Queued, NoLostWakeup
<1> QED  BY <1>3, <1>4, <1>5 DEF KeyInv

LEMMA CallStep ==
  ASSUME KeyInv, NEW p \in Procs,
         \/ ReadBegins(p) \/ ReadEnds(p) \/ SelectEnter(p) \/ PollRegister(p)
         \/ PollCheck(p) \/ SelectWake(p) \/ SelectInterrupted(p)
  PROVE  KeyInv'
<1>1. /\ UNCHANGED <<timerVars, held, pressed, key_values, recent>>
      /\ UNCHANGED <<ev_press, lowered>> \/ (lowered' = TRUE /\ ev_press' = 0)
  BY DEF ReadBegins, ReadEnds, SelectEnter, PollRegister, PollCheck, SelectWake,
         SelectInterrupted, LeaveSelect, keyVars
<1>2. CountsSamples' /\ PressedSignalled'
  BY <1>1, KeysKept
<1>3. TimerTypeOK'
  BY <1>1 DEF KeyInv, TypeOK, timerVars, TimerTypeOK
<1>4. pc \in [Procs -> {"user", "poll", "check", "sleep", "copy"}]
      /\ waitq \subseteq Procs /\ triggered \subseteq waitq
  BY DEF KeyInv, TypeOK
<1>5. CASE ReadBegins(p)
  <2>1. ev_press' = 0 /\ lowered' = TRUE /\ pc' = [pc EXCEPT ![p] = "copy"]
        /\ UNCHANGED <<waitq, triggered>>
    BY <1>5 DEF ReadBegins, Goto
  <2>2. TypeOK'
    BY <1>1, <1>3, <1>4, <2>1 DEF KeyInv, TypeOK
  <2>3. Queued' /\ NoLostWakeup'
    BY <1>4, <2>1 DEF KeyInv, Queued, NoLostWakeup
  <2> QED  BY <1>2, <2>2, <2>3 DEF KeyInv
<1>6. CASE ReadEnds(p) \/ SelectEnter(p)
  <2>1. UNCHANGED <<ev_press, lowered, waitq, triggered>>
        /\ \E label \in {"user", "poll"} : pc' = [pc EXCEPT ![p] = label]
    BY <1>6 DEF ReadEnds, SelectEnter, Goto, keyVars
  <2>2. TypeOK'
    BY <1>1, <1>3, <1>4, <2>1 DEF KeyInv, TypeOK
  <2>3. Queued' /\ NoLostWakeup'
    BY <1>4, <2>1 DEF KeyInv, Queued, NoLostWakeup
  <2> QED  BY <1>2, <2>2, <2>3 DEF KeyInv
<1>7. CASE PollRegister(p)
  <2>1. /\ UNCHANGED <<ev_press, lowered, triggered>> /\ waitq' = waitq \cup {p}
        /\ pc' = [pc EXCEPT ![p] = "check"]
    BY <1>7 DEF PollRegister, PollWait, Goto, keyVars
  <2>2. TypeOK'
    BY <1>1, <1>3, <1>4, <2>1 DEF KeyInv, TypeOK
  <2>3. Queued' /\ NoLostWakeup'
    BY <1>4, <2>1 DEF KeyInv, Queued, NoLostWakeup
  <2> QED  BY <1>2, <2>2, <2>3 DEF KeyInv
<1>8. CASE LeaveSelect(p)
  <2>1. /\ UNCHANGED <<ev_press, lowered>>
        /\ waitq' = waitq \ {p} /\ triggered' = triggered \ {p}
        /\ pc' = [pc EXCEPT ![p] = "user"]
    BY <1>8 DEF LeaveSelect, Goto, keyVars
  <2>2. TypeOK'
    BY <1>1, <1>3, <1>4, <2>1 DEF KeyInv, TypeOK
  <2>3. Queued' /\ NoLostWakeup'
    BY <1>4, <2>1 DEF KeyInv, Queued, NoLostWakeup
  <2> QED  BY <1>2, <2>2, <2>3 DEF KeyInv
<1>9. CASE PollCheck(p) /\ ~LeaveSelect(p)
  <2>1. /\ ev_press = 0 /\ pc[p] = "check" /\ pc' = [pc EXCEPT ![p] = "sleep"]
        /\ UNCHANGED <<ev_press, lowered, waitq, triggered>>
    BY <1>9 DEF PollCheck, Goto, keyVars
  <2>2. TypeOK'
    BY <1>1, <1>3, <1>4, <2>1 DEF KeyInv, TypeOK
  <2>3. Queued' /\ NoLostWakeup'
    BY <1>4, <2>1 DEF KeyInv, Queued, NoLostWakeup
  <2> QED  BY <1>2, <2>2, <2>3 DEF KeyInv
<1>10. CASE SelectWake(p)
  <2>1. /\ pc[p] = "sleep" /\ pc' = [pc EXCEPT ![p] = "check"]
        /\ UNCHANGED <<ev_press, lowered, waitq>> /\ triggered' = triggered \ {p}
    BY <1>10 DEF SelectWake, Goto, keyVars
  <2>2. TypeOK'
    BY <1>1, <1>3, <1>4, <2>1 DEF KeyInv, TypeOK
  <2>3. Queued' /\ NoLostWakeup'
    BY <1>4, <2>1 DEF KeyInv, Queued, NoLostWakeup
  <2> QED  BY <1>2, <2>2, <2>3 DEF KeyInv
<1> QED  BY <1>5, <1>6, <1>7, <1>8, <1>9, <1>10 DEF SelectInterrupted

LEMMA KeyMovesStep ==
  ASSUME KeyInv, NEW k \in Keys, KeyMoves(k)
  PROVE  KeyInv'
<1>1. /\ held' \subseteq Keys
      /\ UNCHANGED <<linked, pending, tangled, file, pressed, key_values, ev_press,
                     recent, lowered, pc, waitq, triggered>>
  BY DEF KeyMoves, timerVars, keyVars, waitVars, KeyInv, TypeOK
<1>2. TypeOK'
  BY <1>1 DEF KeyInv, TypeOK, TimerTypeOK
<1>3. CountsSamples' /\ PressedSignalled'
  BY <1>1, KeysKept
<1>4. Queued' /\ NoLostWakeup'
  BY <1>1 DEF KeyInv, Queued, NoLostWakeup
<1> QED  BY <1>2, <1>3, <1>4 DEF KeyInv

LEMMA KeyNext == KeyInv /\ [Next]_vars => KeyInv'
<1> SUFFICES ASSUME KeyInv, [Next]_vars PROVE KeyInv'
  OBVIOUS
<1>1. CASE UNCHANGED vars
  BY <1>1 DEF vars, KeyInv, TypeOK, TimerTypeOK, CountsSamples, PressedSignalled,
              Queued, NoLostWakeup
<1>2. ASSUME NEW p \in Procs, Process(p) PROVE KeyInv'
  BY <1>2, FileStep, CallStep DEF Process
<1> QED  BY <1>1, <1>2, ScanStep, KeyMovesStep DEF Next

LEMMA KeyInvariant == Spec => []KeyInv
BY KeyInit, KeyNext, PTL DEF Spec

---------------------------------------------------------------------------
(* Types; no count passes 3.                                               *)
THEOREM KeyTypes == Spec => []TypeOK
<1>1. KeyInv => TypeOK
  BY DEF KeyInv
<1> QED  BY <1>1, KeyInvariant, PTL

(* A key is reported exactly after three samples in a row found it down.   *)
THEOREM DebouncedCorrect == Spec => []Debounced
<1>1. KeyInv => Debounced
  <2> SUFFICES ASSUME KeyInv, NEW k \in Keys
               PROVE  key_values[k] = 1 <=> recent[k][1] /\ recent[k][2] /\ recent[k][3]
    BY DEF Debounced
  <2>1. pressed[k] \in 0..3
    BY DEF KeyInv, TypeOK
  <2> QED  BY <2>1 DEF KeyInv, CountsSamples
<1> QED  BY <1>1, KeyInvariant, PTL

(* A pressed key has the flag up, but for a read since the last scan.      *)
THEOREM SignalledCorrect == Spec => []PressedSignalled
<1>1. KeyInv => PressedSignalled
  BY DEF KeyInv
<1> QED  BY <1>1, KeyInvariant, PTL

(* No process sleeps over a raised flag without a wake-up on its way.      *)
THEOREM KeyWakeupCorrect == Spec => []NoLostWakeup
<1>1. KeyInv => NoLostWakeup
  BY DEF KeyInv
<1> QED  BY <1>1, KeyInvariant, PTL

---------------------------------------------------------------------------
(* The wheel.                                                              *)
WheelInv == TimerTypeOK /\ NoTangle /\ OneFile /\ WaitsWhileOpen

(* An open finds nothing waiting; a fork adds a holder to the file that    *)
(* waits; the last close deletes the timer and the others leave it.        *)
LEMMA WheelStep ==
  ASSUME WheelInv, OneAtATime, NEW p \in Procs, NEW q \in Procs,
         TimerOpen(p) \/ TimerFork(p, q) \/ TimerClose(p)
  PROVE  WheelInv'
<1>1. TimerTypeOK'
  BY TimerTypeStep DEF WheelInv
<1>2. CASE TimerOpen(p)
  <2>1. /\ \A r \in Procs : ~HasOpen(r)
        /\ tangled' = linked /\ linked' = TRUE /\ pending' = TRUE
        /\ file' = [file EXCEPT ![p] = p]
    BY <1>2 DEF TimerOpen
  <2>2. linked = FALSE
    BY <2>1 DEF WheelInv, WaitsWhileOpen, TimerTypeOK
  <2>3. \A r \in Procs : HasOpen(r)' <=> r = p
    BY <2>1, TimerAssumption DEF WheelInv, TimerTypeOK, HasOpen
  <2>4. NoTangle' /\ OneFile' /\ WaitsWhileOpen'
    BY <2>1, <2>2, <2>3 DEF NoTangle, OneFile, WaitsWhileOpen
  <2> QED  BY <1>1, <2>4 DEF WheelInv
<1>3. CASE TimerFork(p, q)
  <2>1. /\ HasOpen(p) /\ UNCHANGED <<linked, pending, tangled>>
        /\ \A r \in Procs : file'[r] = IF r = q THEN file[p] ELSE file[r]
    BY <1>3 DEF TimerFork, WheelInv, TimerTypeOK
  <2>2. \A r \in Procs : HasOpen(r)' <=> r = q \/ HasOpen(r)
    BY <2>1 DEF HasOpen
  <2>3. NoTangle' /\ OneFile' /\ WaitsWhileOpen'
    BY <2>1, <2>2 DEF WheelInv, NoTangle, OneFile, WaitsWhileOpen
  <2> QED  BY <1>1, <2>3 DEF WheelInv
<1>4. CASE TimerClose(p)
  <2>1. /\ HasOpen(p) /\ tangled' = tangled
        /\ \A r \in Procs : /\ HasOpen(r)' <=> r # p /\ HasOpen(r)
                            /\ r # p => file'[r] = file[r]
    <3>1. file' = [file EXCEPT ![p] = "none"] /\ tangled' = tangled /\ HasOpen(p)
      BY <1>4 DEF TimerClose
    <3> QED  BY <3>1 DEF WheelInv, TimerTypeOK, HasOpen
  <2>2. NoTangle' /\ OneFile'
    BY <2>1 DEF WheelInv, NoTangle, OneFile
  <2>3. CASE \E r \in Procs \ {p} : file[r] = file[p]
    <3>1. UNCHANGED <<linked, pending>> /\ \E r \in Procs : HasOpen(r)'
      BY <1>4, <2>1, <2>3 DEF TimerClose, HasOpen
    <3> QED  BY <1>1, <2>1, <2>2, <3>1 DEF WheelInv, WaitsWhileOpen
  <2>4. CASE ~\E r \in Procs \ {p} : file[r] = file[p]
    <3>1. linked' = (linked /\ ~pending) /\ pending' = FALSE
      BY <1>4, <2>4 DEF TimerClose, Deleted
    <3>2. linked' = FALSE
      BY <3>1 DEF WheelInv, WaitsWhileOpen, TimerTypeOK
    <3>3. \A r \in Procs : ~HasOpen(r)'
      BY <2>1, <2>4 DEF WheelInv, OneFile
    <3> QED  BY <1>1, <2>2, <3>1, <3>2, <3>3 DEF WheelInv, WaitsWhileOpen
  <2> QED  BY <2>3, <2>4
<1> QED  BY <1>2, <1>3, <1>4

(* The scans' timer is in the wheel once while the device is open, and not *)
(* at all afterwards.                                                      *)
THEOREM KeyWheelCorrect == ASSUME OneAtATime PROVE Spec => [](NoTangle /\ TimerQuiet)
<1>1. Init => WheelInv
  <2> SUFFICES ASSUME Init PROVE WheelInv
    OBVIOUS
  <2>1. /\ linked = FALSE /\ pending = FALSE /\ tangled = FALSE
        /\ \A p \in Procs : ~HasOpen(p)
    BY DEF Init, TimerInit, HasOpen
  <2>2. TimerTypeOK
    BY TimerTypeInit DEF Init
  <2> QED  BY <2>1, <2>2 DEF WheelInv, NoTangle, OneFile, WaitsWhileOpen
<1>2. WheelInv /\ [Next]_vars => WheelInv'
  <2> SUFFICES ASSUME WheelInv, [Next]_vars PROVE WheelInv'
    OBVIOUS
  <2>1. ASSUME NEW p \in Procs, Process(p), ~UNCHANGED timerVars PROVE WheelInv'
    <3>1. TimerOpen(p) \/ TimerClose(p) \/ \E q \in Procs : TimerFork(p, q)
      BY <2>1 DEF Process, Open, Close, Fork, ReadBegins, ReadEnds, SelectEnter,
           PollRegister, PollCheck, SelectWake, SelectInterrupted, LeaveSelect
    <3> QED  BY <3>1, WheelStep
  <2>2. Scan \/ (\E k \in Keys : KeyMoves(k)) \/ UNCHANGED vars => UNCHANGED timerVars
    BY DEF Scan, TimerGoesOff, KeyMoves, vars, timerVars
  <2>3. UNCHANGED timerVars => WheelInv'
    BY DEF WheelInv, timerVars, TimerTypeOK, NoTangle, OneFile, WaitsWhileOpen, HasOpen
  <2> QED  BY <2>1, <2>2, <2>3 DEF Next
<1>3. WheelInv => NoTangle /\ TimerQuiet
  BY DEF WheelInv, WaitsWhileOpen, TimerQuiet, TimerTypeOK
<1> QED  BY <1>1, <1>2, <1>3, PTL DEF Spec
=============================================================================
