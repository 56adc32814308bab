---------------------------- MODULE PanTimeProofs ----------------------------
(***************************************************************************)
(* pan_time's counter and timer, while the device is opened by one process *)
(* at a time, for every HZ, every lateness and any number of processes.    *)
(***************************************************************************)
EXTENDS PanTime, TLAPS

---------------------------------------------------------------------------
(* The timer alone: what open, fork, close and the handler do to the wheel *)
(* and to the open file.                                                   *)
WheelInv == TimerTypeOK /\ NoTangle /\ OneFile /\ WaitsWhileOpen

LEMMA WheelInit == TimerInit => WheelInv
<1> SUFFICES ASSUME TimerInit PROVE WheelInv
  OBVIOUS
<1>1. linked = FALSE /\ pending = FALSE /\ tangled = FALSE
      /\ file = [p \in Procs |-> "none"]
  BY DEF TimerInit
<1>2. \A p \in Procs : ~HasOpen(p)
  BY <1>1 DEF HasOpen
<1>3. TimerTypeOK
  BY <1>1 DEF TimerTypeOK
<1>4. NoTangle /\ OneFile
  BY <1>1, <1>2 DEF NoTangle, OneFile
<1>5. WaitsWhileOpen
  BY <1>1, <1>2 DEF WaitsWhileOpen
<1> QED  BY <1>3, <1>4, <1>5 DEF WheelInv

LEMMA WheelStutter == WheelInv /\ UNCHANGED timerVars => WheelInv'
BY DEF WheelInv, timerVars, TimerTypeOK, NoTangle, OneFile, WaitsWhileOpen, HasOpen

LEMMA WheelGoesOff == WheelInv /\ TimerGoesOff => WheelInv'
BY WheelStutter DEF TimerGoesOff

(* An open finds nothing waiting, and leaves one descriptor.               *)
LEMMA WheelOpen ==
  ASSUME WheelInv, OneAtATime, NEW p \in Procs, TimerOpen(p)
  PROVE  WheelInv' /\ \A q \in Procs : HasOpen(q)' <=> q = p
<1>1. /\ \A q \in Procs : ~HasOpen(q)
      /\ tangled' = linked /\ linked' = TRUE /\ pending' = TRUE
      /\ file' = [file EXCEPT ![p] = p]
  BY DEF TimerOpen
<1>2. linked = FALSE
  BY <1>1 DEF WheelInv, WaitsWhileOpen, TimerTypeOK
<1>3. \A q \in Procs : HasOpen(q)' <=> q = p
  BY <1>1, TimerAssumption DEF WheelInv, TimerTypeOK, HasOpen
<1>4. TimerTypeOK' /\ NoTangle'
  BY <1>1, <1>2 DEF WheelInv, TimerTypeOK, NoTangle
<1>5. OneFile'
  BY <1>3 DEF OneFile
<1>6. WaitsWhileOpen'
  BY <1>1, <1>3 DEF WaitsWhileOpen
<1> QED  BY <1>3, <1>4, <1>5, <1>6 DEF WheelInv

LEMMA WheelFork ==
  ASSUME WheelInv, NEW p \in Procs, NEW q \in Procs, TimerFork(p, q)
  PROVE  WheelInv' /\ \A r \in Procs : HasOpen(r)' <=> r = q \/ HasOpen(r)
<1>1. /\ HasOpen(p) /\ file' = [file EXCEPT ![q] = file[p]]
      /\ UNCHANGED <<linked, pending, tangled>>
  BY DEF TimerFork
<1>2. \A r \in Procs : file'[r] = IF r = q THEN file[p] ELSE file[r]
  BY <1>1 DEF WheelInv, TimerTypeOK
<1>3. \A r \in Procs : HasOpen(r)' <=> r = q \/ HasOpen(r)
  BY <1>1, <1>2 DEF HasOpen
<1>4. TimerTypeOK' /\ NoTangle'
  BY <1>1 DEF WheelInv, TimerTypeOK, NoTangle
<1>5. OneFile' /\ WaitsWhileOpen'
  BY <1>1, <1>2, <1>3 DEF WheelInv, OneFile, WaitsWhileOpen
<1> QED  BY <1>3, <1>4, <1>5 DEF WheelInv

(* The last close deletes the timer, the others leave it.                  *)
LEMMA WheelClose ==
  ASSUME WheelInv, NEW p \in Procs, TimerClose(p)
  PROVE  WheelInv' /\ \A q \in Procs : HasOpen(q)' <=> q # p /\ HasOpen(q)
<1>1. HasOpen(p) /\ file' = [file EXCEPT ![p] = "none"] /\ UNCHANGED tangled
  BY DEF TimerClose
<1>2. \A q \in Procs : /\ HasOpen(q)' <=> q # p /\ HasOpen(q)
                       /\ q # p => file'[q] = file[q]
  BY <1>1 DEF WheelInv, TimerTypeOK, HasOpen
<1>3. OneFile' /\ NoTangle'
  BY <1>1, <1>2 DEF WheelInv, OneFile, NoTangle
<1>4. CASE \E q \in Procs \ {p} : file[q] = file[p]
  <2>1. UNCHANGED <<linked, pending>> /\ \E q \in Procs : HasOpen(q)'
    BY <1>1, <1>2, <1>4 DEF TimerClose, HasOpen
  <2>2. TimerTypeOK' /\ WaitsWhileOpen'
    BY <1>1, <2>1 DEF WheelInv, TimerTypeOK, WaitsWhileOpen
  <2> QED  BY <1>2, <1>3, <2>2 DEF WheelInv
<1>5. CASE ~\E q \in Procs \ {p} : file[q] = file[p]
  <2>1. linked' = (linked /\ ~pending) /\ pending' = FALSE
    BY <1>5 DEF TimerClose, Deleted
  <2>2. linked' = FALSE
    BY <2>1 DEF WheelInv, WaitsWhileOpen, TimerTypeOK
  <2>3. \A q \in Procs : ~HasOpen(q)'
    BY <1>1, <1>2, <1>5 DEF WheelInv, OneFile
  <2>4. TimerTypeOK' /\ WaitsWhileOpen'
    BY <1>1, <2>1, <2>2, <2>3 DEF WheelInv, TimerTypeOK, WaitsWhileOpen
  <2> QED  BY <1>2, <1>3, <2>4 DEF WheelInv
<1> QED  BY <1>4, <1>5

LEMMA WheelQuiet == WheelInv => NoTangle /\ TimerQuiet
BY DEF WheelInv, WaitsWhileOpen, TimerQuiet, TimerTypeOK

---------------------------------------------------------------------------
(* The clock and the counter.                                              *)

(* A waiting timer is due within a second and late by MaxLate at most; all *)
(* descriptors are of a file opened at one time.                           *)
DueSoon ==
  /\ pending => jiffies <= expires + MaxLate /\ expires <= jiffies + HZ
  /\ \A p, q \in Procs : HasOpen(p) /\ HasOpen(q) => since[p] = since[q]

(* Where the next expiry lies, counted from the open.                      *)
ExpiryBounds ==
  \A p \in Procs : HasOpen(p) =>
    /\ since[p] + (counter + 1) * HZ <= expires
    /\ expires <= since[p] + counter * (HZ + MaxLate) + HZ

TimeInv == TypeOK /\ WheelInv /\ DueSoon /\ ExpiryBounds

(* One more second is one more summand.                                    *)
LEMMA OneMore ==
  ASSUME NEW n \in Int, NEW s \in Int
  PROVE  (n + 1) * s = n * s + s
OBVIOUS

LEMMA TimeInitInv == Init => TimeInv
<1> SUFFICES ASSUME Init PROVE TimeInv
  OBVIOUS
<1>1. WheelInv /\ TimerTypeOK
  BY WheelInit DEF Init, WheelInv
<1>2. pending = FALSE /\ \A p \in Procs : ~HasOpen(p)
  BY DEF Init, TimerInit, HasOpen
<1>3. TypeOK
  BY <1>1 DEF Init, TypeOK
<1>4. DueSoon /\ ExpiryBounds
  BY <1>2 DEF DueSoon, ExpiryBounds
<1> QED  BY <1>1, <1>3, <1>4 DEF TimeInv

LEMMA TimeNat ==
  TimeInv => /\ jiffies \in Nat /\ expires \in Nat /\ counter \in Nat
             /\ HZ \in Nat /\ MaxLate \in Nat /\ since \in [Procs -> Nat]
BY TimeAssumption DEF TimeInv, TypeOK

LEMMA OpenStep ==
  ASSUME TimeInv, OneAtATime, NEW p \in Procs, Open(p)
  PROVE  TimeInv'
<1>1. WheelInv' /\ TimerTypeOK' /\ \A q \in Procs : HasOpen(q)' <=> q = p
  BY WheelOpen DEF TimeInv, Open, WheelInv
<1>2. /\ expires' = jiffies + HZ /\ counter' = 0 /\ jiffies' = jiffies
      /\ since' = [since EXCEPT ![p] = jiffies]
  BY DEF Open
<1>3. TypeOK' /\ since'[p] = jiffies
  BY <1>1, <1>2, TimeNat DEF TypeOK
<1>4. DueSoon'
  BY <1>1, <1>2, TimeNat DEF DueSoon
<1>5. ExpiryBounds'
  BY <1>1, <1>2, <1>3, TimeNat DEF ExpiryBounds
<1> QED  BY <1>1, <1>3, <1>4, <1>5 DEF TimeInv

LEMMA ForkStep ==
  ASSUME TimeInv, NEW p \in Procs, NEW q \in Procs, Fork(p, q)
  PROVE  TimeInv'
<1>1. WheelInv' /\ TimerTypeOK' /\ \A r \in Procs : HasOpen(r)' <=> r = q \/ HasOpen(r)
  BY WheelFork DEF TimeInv, Fork, WheelInv
<1>2. /\ HasOpen(p) /\ since' = [since EXCEPT ![q] = since[p]]
      /\ UNCHANGED <<pending, jiffies, expires, counter>>
  BY DEF Fork, TimerFork
<1>3. TypeOK' /\ \A r \in Procs : since'[r] = IF r = q THEN since[p] ELSE since[r]
  BY <1>1, <1>2, TimeNat DEF TypeOK
<1>4. DueSoon' /\ ExpiryBounds'
  BY <1>1, <1>2, <1>3 DEF TimeInv, DueSoon, ExpiryBounds
<1> QED  BY <1>1, <1>3, <1>4 DEF TimeInv

LEMMA CloseStep ==
  ASSUME TimeInv, NEW p \in Procs, Close(p)
  PROVE  TimeInv'
<1>1. WheelInv' /\ TimerTypeOK' /\ \A q \in Procs : HasOpen(q)' <=> q # p /\ HasOpen(q)
  BY WheelClose DEF TimeInv, Close, WheelInv
<1>2. UNCHANGED <<jiffies, expires, counter, since>>
  BY DEF Close
<1>3. TypeOK'
  BY <1>1, <1>2, TimeNat DEF TypeOK
<1>4. pending' => pending
  BY <1>1 DEF WheelInv, WaitsWhileOpen, TimeInv
<1>5. DueSoon' /\ ExpiryBounds'
  BY <1>1, <1>2, <1>4 DEF TimeInv, DueSoon, ExpiryBounds
<1> QED  BY <1>1, <1>3, <1>5 DEF TimeInv

LEMMA TimerRunsStep ==
  ASSUME TimeInv, TimerRuns
  PROVE  TimeInv'
<1>1. /\ pending /\ jiffies >= expires
      /\ expires' = jiffies + HZ /\ counter' = counter + 1
      /\ UNCHANGED <<pending, jiffies, file, since>>
  BY DEF TimerRuns, TimerGoesOff, timerVars, NextExpiry, Counted
<1>2. WheelInv' /\ TimerTypeOK' /\ \A p \in Procs : HasOpen(p)' <=> HasOpen(p)
  BY <1>1, WheelGoesOff DEF TimeInv, TimerRuns, WheelInv, HasOpen
<1>3. TypeOK'
  BY <1>1, <1>2, TimeNat DEF TypeOK
<1>4. DueSoon'
  BY <1>1, <1>2, TimeNat DEF TimeInv, DueSoon
<1>5. ExpiryBounds'
  <2> SUFFICES ASSUME NEW p \in Procs, HasOpen(p)
               PROVE  /\ since[p] + (counter + 2) * HZ <= jiffies + HZ
                      /\ jiffies + HZ <= since[p] + (counter + 1) * (HZ + MaxLate) + HZ
    BY <1>1, <1>2, TimeNat DEF ExpiryBounds
  <2>1. since[p] \in Nat
    BY TimeNat
  <2>2. /\ since[p] + (counter + 1) * HZ <= expires
        /\ expires <= since[p] + counter * (HZ + MaxLate) + HZ
    BY DEF TimeInv, ExpiryBounds
  <2>3. jiffies <= expires + MaxLate
    BY <1>1 DEF TimeInv, DueSoon
  <2>4. (counter + 1) * (HZ + MaxLate) = counter * (HZ + MaxLate) + (HZ + MaxLate)
    BY TimeNat, OneMore
  <2>5. ((counter + 1) + 1) * HZ = (counter + 1) * HZ + HZ
    BY TimeNat, OneMore
  <2>6. (counter + 2) * HZ = (counter + 1) * HZ + HZ
    BY TimeNat, <2>5
  <2> DEFINE a == (counter + 1) * HZ
             b == counter * (HZ + MaxLate)
  <2>7. a \in Int /\ b \in Int
    BY TimeNat
  <2> HIDE DEF a, b
  <2>8. since[p] + a <= expires /\ expires <= since[p] + b + HZ
    BY <2>2 DEF a, b
  <2>9. since[p] + (a + HZ) <= jiffies + HZ
    BY <1>1, TimeNat, <2>1, <2>7, <2>8
  <2>10. jiffies + HZ <= since[p] + (b + (HZ + MaxLate)) + HZ
    BY <1>1, TimeNat, <2>1, <2>3, <2>7, <2>8
  <2> QED  BY <2>4, <2>6, <2>9, <2>10 DEF a, b
<1> QED  BY <1>2, <1>3, <1>4, <1>5 DEF TimeInv

LEMMA TickStep ==
  ASSUME TimeInv, Tick
  PROVE  TimeInv'
<1>1. /\ jiffies' = jiffies + 1 /\ (pending => jiffies < expires + MaxLate)
      /\ UNCHANGED <<pending, file, expires, counter, since>>
  BY DEF Tick, timerVars
<1>2. WheelInv' /\ TimerTypeOK' /\ \A p \in Procs : HasOpen(p)' <=> HasOpen(p)
  BY <1>1, WheelStutter DEF TimeInv, Tick, WheelInv, HasOpen
<1>3. TypeOK'
  BY <1>1, <1>2, TimeNat DEF TypeOK
<1>4. DueSoon' /\ ExpiryBounds'
  BY <1>1, <1>2, TimeNat DEF TimeInv, DueSoon, ExpiryBounds
<1> QED  BY <1>2, <1>3, <1>4 DEF TimeInv

LEMMA TimeNextInv == OneAtATime /\ TimeInv /\ [Next]_vars => TimeInv'
<1> SUFFICES ASSUME OneAtATime, TimeInv, [Next]_vars PROVE TimeInv'
  OBVIOUS
<1>1. CASE UNCHANGED vars
  <2>1. WheelInv' /\ TimerTypeOK'
    BY <1>1, WheelStutter DEF vars, timerVars, TimeInv, WheelInv
  <2>2. TypeOK' /\ DueSoon' /\ ExpiryBounds'
    BY <1>1, <2>1 DEF vars, TimeInv, TypeOK, DueSoon, ExpiryBounds, HasOpen
  <2> QED  BY <2>1, <2>2 DEF TimeInv
<1> QED  BY <1>1, OpenStep, ForkStep, CloseStep, TimerRunsStep, TickStep DEF Next

LEMMA SecondsFollow == TimeInv => SecondsSinceOpen
<1> SUFFICES ASSUME TimeInv, NEW p \in Procs, HasOpen(p)
             PROVE  /\ counter * HZ <= jiffies - since[p]
                    /\ jiffies - since[p] <= (counter + 1) * (HZ + MaxLate)
  BY DEF SecondsSinceOpen
<1>1. /\ jiffies \in Nat /\ expires \in Nat /\ counter \in Nat /\ since[p] \in Nat
      /\ HZ \in Nat /\ MaxLate \in Nat
  BY TimeNat
<1>2. /\ since[p] + (counter + 1) * HZ <= expires
      /\ expires <= since[p] + counter * (HZ + MaxLate) + HZ
      /\ jiffies <= expires + MaxLate /\ expires <= jiffies + HZ
  BY DEF TimeInv, ExpiryBounds, DueSoon, WheelInv, WaitsWhileOpen
<1>3. /\ (counter + 1) * HZ = counter * HZ + HZ
      /\ (counter + 1) * (HZ + MaxLate) = counter * (HZ + MaxLate) + (HZ + MaxLate)
  BY <1>1, OneMore
<1> DEFINE a == counter * HZ
           b == counter * (HZ + MaxLate)
<1>4. a \in Int /\ b \in Int
  BY <1>1
<1>5. since[p] + (a + HZ) <= expires /\ expires <= since[p] + b + HZ
  BY <1>2, <1>3
<1> HIDE DEF a, b
<1>6. a <= jiffies - since[p] /\ jiffies - since[p] <= b + (HZ + MaxLate)
  BY <1>1, <1>2, <1>4, <1>5
<1> QED  BY <1>3, <1>6 DEF a, b

LEMMA TimeInvariant == ASSUME OneAtATime PROVE Spec => []TimeInv
BY TimeInitInv, TimeNextInv, PTL DEF Spec

---------------------------------------------------------------------------
(* Types of the timer and of the counter.                                  *)
THEOREM TimeTypes == ASSUME OneAtATime PROVE Spec => []TypeOK
<1>1. TimeInv => TypeOK
  BY DEF TimeInv
<1> QED  BY <1>1, TimeInvariant, PTL

(* The counter is the seconds since the open, but for accumulated lateness.*)
THEOREM SecondsCorrect == ASSUME OneAtATime PROVE Spec => []SecondsSinceOpen
BY SecondsFollow, TimeInvariant, PTL

(* The wheel is never tangled, and nothing waits in it after the last      *)
(* close.                                                                  *)
THEOREM WheelCorrect == ASSUME OneAtATime PROVE Spec => [](NoTangle /\ TimerQuiet)
<1>1. TimeInv => NoTangle /\ TimerQuiet
  BY WheelQuiet DEF TimeInv
<1> QED  BY <1>1, TimeInvariant, PTL
==============================================================================
