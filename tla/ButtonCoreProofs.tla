-------------------------- MODULE ButtonCoreProofs --------------------------
(***************************************************************************)
(* What every step of ButtonCore preserves, for any number of processes    *)
(* and keys.  The drivers' proof modules cite these lemmas for the steps   *)
(* they share and add the steps of their own.                              *)
(***************************************************************************)
EXTENDS ButtonCore, TLAPS

(* Keys as an interval, in the forms the proofs need.                      *)
LEMMA KeysFact ==
  /\ NKeys \in Nat /\ NKeys \in Keys /\ 1 \in Keys /\ 0 \in 0..NKeys
  /\ \A k \in Keys : /\ k \in Nat /\ k >= 1 /\ k <= NKeys
                     /\ k \in 0..NKeys /\ k - 1 \in 0..NKeys
                     /\ k # NKeys => k + 1 \in Keys /\ k + 1 \in 0..NKeys
  /\ \A i \in 0..NKeys : /\ i \in Nat /\ i <= NKeys
                         /\ i # 0 => i \in Keys /\ i - 1 \in 0..NKeys
BY CoreAssumption DEF Keys

(* One step of a loop over the keys.                                       *)
LEMMA KeyOrder ==
  ASSUME NEW i \in Keys, NEW k \in Keys
  PROVE  /\ k < i + 1 <=> k < i \/ k = i
         /\ k <= i - 1 <=> k <= i /\ k # i
         /\ k >= i + 1 <=> k >= i /\ k # i
         /\ k <= k /\ k >= k
<1>1. i \in Int /\ k \in Int
  BY KeysFact
<1>2. k < i + 1 <=> k < i \/ k = i
  BY <1>1
<1>3. k <= i - 1 <=> k <= i /\ k # i
  BY <1>1
<1>4. k >= i + 1 <=> k >= i /\ k # i
  BY <1>1
<1> QED
  BY <1>1, <1>2, <1>3, <1>4

---------------------------------------------------------------------------
(* Types.                                                                  *)

USE DEF Labels, Requestable, LastRequested, NextToFree, ReleaseDone,
        ReadStart, Cleared

LEMMA InitTypes == CoreInit => CoreTypeOK
BY KeysFact DEF CoreInit, CoreTypeOK, IndexOK, Lines, NoCounts

LEMMA OpenTypes ==
  ASSUME CoreTypeOK, NEW p \in Procs,
         OpenEnter(p) \/ RequestIrq(p) \/ RequestFails(p) \/ Unwind(p)
  PROVE  CoreTypeOK'
<1> USE KeysFact DEF Goto, SetIdx
<1>1. CASE OpenEnter(p)
  BY <1>1 DEF OpenEnter, CoreTypeOK, IndexOK, history
<1>2. CASE RequestIrq(p)
  <2>1. idx[p] \in Keys
    BY <1>2 DEF RequestIrq, CoreTypeOK, IndexOK
  <2> QED
    BY <1>2, <2>1 DEF RequestIrq, CoreTypeOK, IndexOK, Lines, history
<1>3. CASE RequestFails(p)
  <2>1. idx[p] \in Keys
    BY <1>3 DEF RequestFails, CoreTypeOK, IndexOK
  <2> QED
    BY <1>3, <2>1 DEF RequestFails, CoreTypeOK, IndexOK, history
<1>4. CASE Unwind(p)
  <2>1. CASE idx[p] = 0
    BY <1>4, <2>1 DEF Unwind, CoreTypeOK, IndexOK, history
  <2>2. CASE idx[p] # 0
    <3>1. irq' \in [Keys -> Lines]
      BY <1>4, <2>2 DEF Unwind, CoreTypeOK, Lines
    <3>2. pc' = pc /\ idx' \in [Procs -> 0..NKeys]
      BY <1>4, <2>2 DEF Unwind, CoreTypeOK
    <3>3. \A q \in Procs \ {p} : idx'[q] = idx[q]
      BY <1>4, <2>2 DEF Unwind, CoreTypeOK
    <3>4. IndexOK'
      BY <1>4, <3>2, <3>3 DEF Unwind, CoreTypeOK, IndexOK
    <3> QED
      BY <1>4, <2>2, <3>1, <3>2, <3>4 DEF Unwind, CoreTypeOK, history
  <2> QED
    BY <2>1, <2>2
<1> QED
  BY <1>1, <1>2, <1>3, <1>4

LEMMA FileTypes ==
  ASSUME CoreTypeOK, NEW p \in Procs,
         Close(p) \/ FreeIrq(p) \/ \E q \in Procs : Fork(p, q)
  PROVE  CoreTypeOK'
<1> USE KeysFact DEF Goto, SetIdx
<1>1. CASE Close(p)
  BY <1>1 DEF Close, CoreTypeOK, IndexOK, history
<1>2. CASE FreeIrq(p)
  <2>1. idx[p] \in Keys
    BY <1>2 DEF FreeIrq, CoreTypeOK, IndexOK
  <2>2. irq' \in [Keys -> Lines]
    BY <1>2, <2>1 DEF FreeIrq, CoreTypeOK, Lines
  <2>3. idx' \in [Procs -> 0..NKeys] /\ IndexOK'
    BY <1>2, <2>1 DEF FreeIrq, CoreTypeOK, IndexOK, history
  <2> QED
    BY <1>2, <2>2, <2>3 DEF FreeIrq, CoreTypeOK, history
<1>3. ASSUME NEW q \in Procs, Fork(p, q) PROVE CoreTypeOK'
  BY <1>3 DEF Fork, CoreTypeOK, IndexOK, history
<1> QED
  BY <1>1, <1>2, <1>3

LEMMA OtherTypes ==
  ASSUME CoreTypeOK, NEW k \in Keys, OtherTakes(k) \/ OtherFrees(k)
  PROVE  CoreTypeOK'
BY DEF OtherTakes, OtherFrees, CoreTypeOK, IndexOK, Lines, history

LEMMA ReadTypes ==
  ASSUME CoreTypeOK, NEW p \in Procs, NEW n \in ReadSizes, ReadBody(p, n)
  PROVE  CoreTypeOK'
<1>1. n \in 0..NKeys /\ n \in Nat /\ (n # 0 => 1 <= n)
  BY CoreAssumption
<1> QED
  BY <1>1, KeysFact
  DEF ReadBody, Goto, SetIdx, CoreTypeOK, IndexOK, history

LEMMA CopyTypes ==
  ASSUME CoreTypeOK, NEW p \in Procs, CopyKey(p) \/ CopyFault(p)
  PROVE  CoreTypeOK'
<1> USE KeysFact DEF Goto, SetIdx
<1>1. CASE CopyKey(p)
  <2>1. idx[p] \in Keys /\ want[p] \in 0..NKeys /\ idx[p] <= want[p]
    BY <1>1 DEF CopyKey, CoreTypeOK, IndexOK
  <2>2. idx[p] # want[p] => idx[p] + 1 \in Keys /\ idx[p] + 1 <= want[p]
    BY <2>1 DEF Keys
  <2>3. buf' \in [Procs -> [Keys -> Nat]]
    BY <1>1, <2>1 DEF CopyKey, CoreTypeOK
  <2>4. cpu' \in Procs \cup {Idle} /\ pc' \in [Procs -> Labels]
    BY <1>1 DEF CopyKey, CoreTypeOK
  <2>5. idx' \in [Procs -> 0..NKeys]
    BY <1>1, <2>1, <2>2 DEF CopyKey, CoreTypeOK
  <2>6. IndexOK'
    BY <1>1, <2>1, <2>2 DEF CopyKey, CoreTypeOK, IndexOK
  <2> QED
    BY <1>1, <2>3, <2>4, <2>5, <2>6 DEF CopyKey, CoreTypeOK, history
<1>2. CASE CopyFault(p)
  BY <1>2 DEF CopyFault, CoreTypeOK, IndexOK, NoCounts, history
<1> QED
  BY <1>1, <1>2

LEMMA ClearTypes ==
  ASSUME CoreTypeOK, NEW p \in Procs, ClearKey(p)
  PROVE  CoreTypeOK'
<1> USE KeysFact DEF Goto, SetIdx, ClearKey
<1>1. idx[p] \in Keys
  BY DEF CoreTypeOK, IndexOK
<1>2. values' \in [Keys -> Nat] /\ delivered' \in [Keys -> Nat]
  BY <1>1 DEF CoreTypeOK
<1>3. buf' \in [Procs -> [Keys -> Nat]]
  BY <1>1 DEF CoreTypeOK
<1>4. /\ cpu' \in Procs \cup {Idle} /\ pc' \in [Procs -> Labels]
      /\ idx' \in [Procs -> 0..NKeys] /\ want' \in [Procs -> 0..NKeys]
  BY <1>1 DEF CoreTypeOK
<1>5. IndexOK'
  BY <1>1 DEF CoreTypeOK, IndexOK
<1> QED
  BY <1>2, <1>3, <1>4, <1>5 DEF CoreTypeOK

(* The counting half of an interrupt handler, whatever it does to the flag. *)
LEMMA PressTypes ==
  ASSUME CoreTypeOK, NEW k \in Keys, CountPress(k), ev_press' \in {0, 1}
  PROVE  CoreTypeOK'
<1>1. values' \in [Keys -> Nat] /\ presses' \in [Keys -> Nat]
  BY DEF CountPress, CoreTypeOK
<1>2. late' \in [Keys -> Nat]
  BY DEF CountPress, CoreTypeOK
<1>3. IndexOK'
  BY DEF CountPress, CoreTypeOK, IndexOK
<1> QED
  BY <1>1, <1>2, <1>3 DEF CountPress, CoreTypeOK

---------------------------------------------------------------------------
(* Interrupt lines.                                                        *)

LEMMA InitLines == CoreInit => LinesExact
BY DEF CoreInit, LinesExact, LinesClaimed, ClaimsExclusive, Claims, InFile,
       Outside

(* A process that stays where it is keeps its claims.                      *)
LEMMA SameClaims ==
  ASSUME NEW q \in Procs, pc'[q] = pc[q], idx'[q] = idx[q]
  PROVE  /\ InFile(q)' <=> InFile(q)
         /\ \A k \in Keys : Claims(q, k)' <=> Claims(q, k)
BY DEF Claims, InFile, Outside

(* Steps that leave the lines alone and move no claim.                     *)
LEMMA MoveLines ==
  ASSUME LinesExact, irq' = irq,
         \A q \in Procs : /\ InFile(q)' <=> InFile(q)
                          /\ \A k \in Keys : Claims(q, k)' <=> Claims(q, k)
  PROVE  LinesExact'
BY DEF LinesExact, LinesClaimed, ClaimsExclusive

(* A process outside the file that ends up sharing no line disturbs nobody. *)
LEMMA ExclusiveStep ==
  ASSUME ClaimsExclusive, NEW p \in Procs,
         \A q \in Procs \ {p} :
           /\ InFile(q)' <=> InFile(q)
           /\ \A k \in Keys : Claims(q, k)' <=> Claims(q, k),
         \A q \in Procs \ {p}, k \in Keys : ~(Claims(p, k)' /\ Claims(q, k))
  PROVE  ClaimsExclusive'
<1> SUFFICES ASSUME NEW q \in Procs, NEW r \in Procs, NEW k \in Keys,
                    q # r, Claims(q, k)', Claims(r, k)'
             PROVE  InFile(q)' /\ InFile(r)'
  BY DEF ClaimsExclusive
<1>1. q # p /\ r # p
  OBVIOUS
<1>2. Claims(q, k) /\ Claims(r, k)
  BY <1>1
<1>3. InFile(q) /\ InFile(r)
  BY <1>2 DEF ClaimsExclusive
<1> QED
  BY <1>1, <1>3

LEMMA RequestLines ==
  ASSUME CoreTypeOK, LinesExact, NEW p \in Procs, RequestIrq(p)
  PROVE  LinesExact'
<1>1. idx[p] \in Keys /\ pc[p] = "open" /\ irq[idx[p]] = "free"
  BY DEF RequestIrq, CoreTypeOK, IndexOK
<1>2. \A q \in Procs \ {p} : pc'[q] = pc[q] /\ idx'[q] = idx[q]
  BY DEF RequestIrq, Goto, SetIdx, CoreTypeOK
<1>3. \A q \in Procs \ {p} :
        /\ InFile(q)' <=> InFile(q)
        /\ \A k \in Keys : Claims(q, k)' <=> Claims(q, k)
  BY <1>2, SameClaims
<1>4. \A k \in Keys : Claims(p, k)' <=> Claims(p, k) \/ k = idx[p]
  <2>1. \A k \in Keys : Claims(p, k) <=> k < idx[p]
    BY <1>1 DEF Claims, InFile, Outside
  <2>2. CASE idx[p] = NKeys
    <3>1. pc'[p] = "user"
      BY <2>2 DEF RequestIrq, Goto, CoreTypeOK
    <3>2. \A k \in Keys : Claims(p, k)'
      BY <3>1 DEF Claims, InFile, Outside
    <3>3. \A k \in Keys : k < idx[p] \/ k = idx[p]
      BY <2>2, KeysFact
    <3> QED
      BY <2>1, <3>2, <3>3
  <2>3. CASE idx[p] # NKeys
    <3>1. pc'[p] = "open" /\ idx'[p] = idx[p] + 1
      BY <2>3 DEF RequestIrq, Goto, SetIdx, CoreTypeOK
    <3>2. \A k \in Keys : Claims(p, k)' <=> k < idx[p] + 1
      BY <3>1 DEF Claims, InFile, Outside
    <3>3. \A k \in Keys : k < idx[p] + 1 <=> k < idx[p] \/ k = idx[p]
      BY <1>1, KeyOrder
    <3> QED
      BY <2>1, <3>2, <3>3
  <2> QED
    BY <2>2, <2>3
<1>5. \A k \in Keys : irq'[k] = "mine" <=> irq[k] = "mine" \/ k = idx[p]
  BY <1>1 DEF RequestIrq, CoreTypeOK
<1>6. LinesClaimed'
  <2> SUFFICES ASSUME NEW k \in Keys
               PROVE  irq'[k] = "mine" <=> \E q \in Procs : Claims(q, k)'
    BY DEF LinesClaimed
  <2>1. irq[k] = "mine" <=> \E q \in Procs : Claims(q, k)
    BY DEF LinesExact, LinesClaimed
  <2> QED
    BY <1>3, <1>4, <1>5, <2>1
<1>7. \A q \in Procs : ~Claims(q, idx[p])
  BY <1>1 DEF LinesExact, LinesClaimed
<1>8. \A q \in Procs \ {p}, k \in Keys : ~(Claims(p, k) /\ Claims(q, k))
  BY <1>1 DEF LinesExact, ClaimsExclusive, InFile, Outside
<1>9. ClaimsExclusive'
  <2>1. \A q \in Procs \ {p}, k \in Keys : ~(Claims(p, k)' /\ Claims(q, k))
    BY <1>4, <1>7, <1>8
  <2> QED
    BY <1>3, <2>1, ExclusiveStep DEF LinesExact
<1> QED
  BY <1>6, <1>9 DEF LinesExact

(* Calls that give lines back: the failing open, and release.              *)
LEMMA FreeLines ==
  ASSUME CoreTypeOK, LinesExact, NEW p \in Procs, Unwind(p) \/ FreeIrq(p)
  PROVE  LinesExact'
<1>1. CASE Unwind(p) /\ idx[p] = 0
  <2>1. \A q \in Procs \ {p} :
          /\ InFile(q)' <=> InFile(q)
          /\ \A k \in Keys : Claims(q, k)' <=> Claims(q, k)
    BY <1>1, SameClaims DEF Unwind, Goto, CoreTypeOK
  <2>2. \A k \in Keys : ~Claims(p, k)' /\ ~Claims(p, k)
    BY <1>1, KeysFact DEF Unwind, Goto, CoreTypeOK, Claims, InFile, Outside
  <2>3. InFile(p)' <=> InFile(p)
    BY <1>1 DEF Unwind, Goto, CoreTypeOK, InFile, Outside
  <2>4. irq' = irq
    BY <1>1 DEF Unwind
  <2> QED
    BY <2>1, <2>2, <2>3, <2>4, MoveLines
<1>2. ASSUME \/ Unwind(p) /\ idx[p] # 0
             \/ FreeIrq(p)
      PROVE  LinesExact'
  <2>1. idx[p] \in Keys
    BY <1>2, KeysFact DEF Unwind, FreeIrq, CoreTypeOK, IndexOK
  <2>2. irq' = [irq EXCEPT ![idx[p]] = "free"]
    BY <1>2 DEF Unwind, FreeIrq
  <2>3. \A q \in Procs \ {p} : pc'[q] = pc[q] /\ idx'[q] = idx[q]
    BY <1>2 DEF Unwind, FreeIrq, Goto, SetIdx, CoreTypeOK
  <2>4. \A q \in Procs \ {p} :
          /\ InFile(q)' <=> InFile(q)
          /\ \A k \in Keys : Claims(q, k)' <=> Claims(q, k)
    BY <2>3, SameClaims
  <2>5. \A k \in Keys : Claims(p, k)' <=> Claims(p, k) /\ k # idx[p]
    <3>1. CASE Unwind(p) /\ idx[p] # 0
      <4>1. /\ pc[p] = "unwind" /\ pc'[p] = "unwind"
            /\ idx'[p] = idx[p] - 1
        BY <3>1 DEF Unwind, SetIdx, CoreTypeOK
      <4>2. \A k \in Keys : /\ Claims(p, k) <=> k <= idx[p]
                            /\ Claims(p, k)' <=> k <= idx[p] - 1
        BY <4>1 DEF Claims, InFile, Outside
      <4>3. \A k \in Keys : k <= idx[p] - 1 <=> k <= idx[p] /\ k # idx[p]
        BY <2>1, KeyOrder
      <4> QED
        BY <4>2, <4>3
    <3>2. CASE FreeIrq(p) /\ idx[p] = NKeys
      <4>1. pc[p] = "release" /\ pc'[p] = "out"
        BY <3>2 DEF FreeIrq, Goto, CoreTypeOK
      <4>2. \A k \in Keys : ~Claims(p, k)' /\ (Claims(p, k) <=> k >= idx[p])
        BY <4>1 DEF Claims, InFile, Outside
      <4>3. \A k \in Keys : k >= idx[p] <=> k = idx[p]
        BY <3>2, KeysFact
      <4> QED
        BY <4>2, <4>3
    <3>3. CASE FreeIrq(p) /\ idx[p] # NKeys
      <4>1. /\ pc[p] = "release" /\ pc'[p] = "release"
            /\ idx'[p] = idx[p] + 1
        BY <3>3 DEF FreeIrq, Goto, SetIdx, CoreTypeOK
      <4>2. \A k \in Keys : /\ Claims(p, k) <=> k >= idx[p]
                            /\ Claims(p, k)' <=> k >= idx[p] + 1
        BY <4>1 DEF Claims, InFile, Outside
      <4>3. \A k \in Keys : k >= idx[p] + 1 <=> k >= idx[p] /\ k # idx[p]
        BY <2>1, KeyOrder
      <4> QED
        BY <4>2, <4>3
    <3> QED
      BY <1>2, <3>1, <3>2, <3>3
  <2>6. Claims(p, idx[p]) /\ ~InFile(p)
    <3>1. \/ pc[p] = "unwind"
          \/ pc[p] = "release"
      BY <1>2 DEF Unwind, FreeIrq
    <3> QED
      BY <2>1, <3>1, KeyOrder DEF Claims, InFile, Outside
  <2>7. \A q \in Procs \ {p} : ~Claims(q, idx[p])
    BY <2>1, <2>6 DEF LinesExact, ClaimsExclusive
  <2>8. \A k \in Keys : irq'[k] = "mine" <=> irq[k] = "mine" /\ k # idx[p]
    BY <2>1, <2>2 DEF CoreTypeOK
  <2>9. LinesClaimed'
    <3> SUFFICES ASSUME NEW k \in Keys
                 PROVE  irq'[k] = "mine" <=> \E q \in Procs : Claims(q, k)'
      BY DEF LinesClaimed
    <3>1. irq[k] = "mine" <=> \E q \in Procs : Claims(q, k)
      BY DEF LinesExact, LinesClaimed
    <3> QED
      BY <2>4, <2>5, <2>7, <2>8, <3>1
  <2>10. \A q \in Procs \ {p}, k \in Keys : ~(Claims(p, k) /\ Claims(q, k))
    BY <2>6 DEF LinesExact, ClaimsExclusive
  <2>11. ClaimsExclusive'
    <3>1. \A q \in Procs \ {p}, k \in Keys : ~(Claims(p, k)' /\ Claims(q, k))
      BY <2>5, <2>10
    <3> QED
      BY <2>4, <3>1, ExclusiveStep DEF LinesExact
  <2> QED
    BY <2>9, <2>11 DEF LinesExact
<1> QED
  BY <1>1, <1>2

LEMMA EnterLines ==
  ASSUME CoreTypeOK, LinesExact, NEW p \in Procs,
         OpenEnter(p) \/ RequestFails(p)
  PROVE  LinesExact'
<1> USE DEF OpenEnter, RequestFails, Goto, SetIdx, CoreTypeOK
<1>1. \A q \in Procs \ {p} :
        /\ InFile(q)' <=> InFile(q)
        /\ \A k \in Keys : Claims(q, k)' <=> Claims(q, k)
  BY SameClaims
<1>2. pc[p] = "open" => idx[p] \in Keys
  BY DEF IndexOK
<1>3. /\ InFile(p)' <=> InFile(p)
      /\ \A k \in Keys : Claims(p, k)' <=> Claims(p, k)
  BY <1>2, KeysFact DEF Claims, InFile, Outside
<1> QED
  BY <1>1, <1>3, MoveLines

LEMMA CloseLines ==
  ASSUME CoreTypeOK, LinesExact, NEW p \in Procs, Close(p)
  PROVE  LinesExact'
<1> USE DEF Close, Goto, SetIdx, CoreTypeOK
<1>1. \A q \in Procs \ {p} :
        /\ InFile(q)' <=> InFile(q)
        /\ \A k \in Keys : Claims(q, k)' <=> Claims(q, k)
  BY SameClaims
<1>2. \A k \in Keys : Claims(p, k)
  BY DEF Claims, InFile, Outside
<1>3. \A k \in Keys : irq'[k] = "mine"
  BY <1>2 DEF LinesExact, LinesClaimed
<1>4. CASE \E q \in Procs \ {p} : InFile(q)
  <2>1. \A k \in Keys : ~Claims(p, k)'
    BY <1>4 DEF Claims, InFile, Outside
  <2>2. \E q \in Procs \ {p} : \A k \in Keys : Claims(q, k)
    BY <1>4 DEF Claims
  <2>3. LinesClaimed'
    BY <1>1, <1>3, <2>2 DEF LinesClaimed
  <2>4. ClaimsExclusive'
    BY <1>1, <2>1, ExclusiveStep DEF LinesExact
  <2> QED
    BY <2>3, <2>4 DEF LinesExact
<1>5. CASE ~\E q \in Procs \ {p} : InFile(q)
  <2>1. \A k \in Keys : Claims(p, k)'
    BY <1>5, KeysFact DEF Claims, InFile, Outside
  <2>2. \A q \in Procs \ {p}, k \in Keys : ~Claims(q, k)
    BY <1>2, <1>5 DEF LinesExact, ClaimsExclusive
  <2>3. LinesClaimed'
    BY <1>3, <2>1 DEF LinesClaimed
  <2>4. ClaimsExclusive'
    BY <1>1, <2>2, ExclusiveStep DEF LinesExact
  <2> QED
    BY <2>3, <2>4 DEF LinesExact
<1> QED
  BY <1>4, <1>5

LEMMA ForkLines ==
  ASSUME CoreTypeOK, LinesExact, NEW p \in Procs, NEW q \in Procs, Fork(p, q)
  PROVE  LinesExact'
<1> USE DEF Fork, Goto, CoreTypeOK
<1>1. \A r \in Procs \ {q} :
        /\ InFile(r)' <=> InFile(r)
        /\ \A k \in Keys : Claims(r, k)' <=> Claims(r, k)
  BY SameClaims
<1>2. InFile(q)' /\ \A k \in Keys : Claims(q, k)'
  BY DEF Claims, InFile, Outside
<1>3. p # q /\ InFile(p) /\ \A k \in Keys : Claims(p, k)
  BY DEF Claims, InFile, Outside
<1> QED
  BY <1>1, <1>2, <1>3 DEF LinesExact, LinesClaimed, ClaimsExclusive

LEMMA OtherLines ==
  ASSUME CoreTypeOK, LinesExact, NEW k \in Keys, OtherTakes(k) \/ OtherFrees(k)
  PROVE  LinesExact'
<1>1. \A q \in Procs :
        /\ InFile(q)' <=> InFile(q)
        /\ \A j \in Keys : Claims(q, j)' <=> Claims(q, j)
  BY SameClaims DEF OtherTakes, OtherFrees
<1>2. \A j \in Keys : irq'[j] = "mine" <=> irq[j] = "mine"
  BY DEF OtherTakes, OtherFrees, CoreTypeOK
<1> QED
  BY <1>1, <1>2 DEF LinesExact, LinesClaimed, ClaimsExclusive

(* Steps by which a process moves inside the open file: its reads and its  *)
(* waits.                                                                  *)
LEMMA InsideLines ==
  ASSUME CoreTypeOK, LinesExact, NEW p \in Procs, irq' = irq,
         InFile(p), InFile(p)',
         \A q \in Procs \ {p} : pc'[q] = pc[q] /\ idx'[q] = idx[q]
  PROVE  LinesExact'
<1>1. \A q \in Procs \ {p} :
        /\ InFile(q)' <=> InFile(q)
        /\ \A k \in Keys : Claims(q, k)' <=> Claims(q, k)
  BY SameClaims
<1>2. \A k \in Keys : Claims(p, k) /\ Claims(p, k)'
  BY DEF Claims
<1> QED
  BY <1>1, <1>2, MoveLines

---------------------------------------------------------------------------
(* One holder of the device.                                               *)

LEMMA SingleKept ==
  ASSUME SingleHolder, \A q \in Procs : InFile(q)' => InFile(q)
  PROVE  SingleHolder'
BY DEF SingleHolder

LEMMA RequestSingle ==
  ASSUME CoreTypeOK, LinesExact, SingleHolder, NEW p \in Procs, RequestIrq(p)
  PROVE  SingleHolder'
<1>1. idx[p] \in Keys /\ irq[idx[p]] # "mine"
  BY DEF RequestIrq, CoreTypeOK, IndexOK
<1>2. \A q \in Procs : ~InFile(q)
  BY <1>1 DEF LinesExact, LinesClaimed, Claims
<1>3. \A q \in Procs \ {p} : ~InFile(q)'
  BY <1>2 DEF RequestIrq, Goto, CoreTypeOK, InFile, Outside
<1> QED
  BY <1>3 DEF SingleHolder

---------------------------------------------------------------------------
(* Press accounts.                                                         *)

LEMMA InitAccount ==
  CoreInit => /\ BufBounded /\ NoPhantomPress
              /\ LossOnlyInWindow /\ WindowAccount
BY DEF CoreInit, BufBounded, NoPhantomPress, LossOnlyInWindow, WindowAccount,
       InWindow, NoCounts

(* Steps that touch no counter and move no process into or out of a window. *)
LEMMA QuietAccount ==
  ASSUME UNCHANGED <<values, buf, presses, delivered, late>>,
         \A q \in Procs, k \in Keys : InWindow(q, k)' <=> InWindow(q, k)
  PROVE  /\ BufBounded => BufBounded'
         /\ NoPhantomPress => NoPhantomPress'
         /\ LossOnlyInWindow => LossOnlyInWindow'
         /\ /\ WindowAccount
            /\ \A q \in Procs : pc'[q] = "copy" => want'[q] = NKeys
            => WindowAccount'
BY DEF BufBounded, NoPhantomPress, LossOnlyInWindow, WindowAccount

LEMMA ReadAccount ==
  ASSUME CoreTypeOK, BufBounded, NEW p \in Procs, NEW n \in ReadSizes,
         pc[p] \notin {"copy", "clear"}, ReadBody(p, n)
  PROVE  /\ BufBounded'
         /\ NoPhantomPress => NoPhantomPress'
         /\ LossOnlyInWindow => LossOnlyInWindow'
         /\ FullReads /\ WindowAccount => WindowAccount'
<1>1. UNCHANGED <<values, buf, presses, delivered, late>>
  BY DEF ReadBody, history
<1>2. \A q \in Procs \ {p}, k \in Keys : InWindow(q, k)' <=> InWindow(q, k)
  BY DEF ReadBody, Goto, SetIdx, CoreTypeOK, InWindow
<1>3. \A k \in Keys : ~InWindow(p, k)
  BY DEF InWindow
<1>4. \A k \in Keys : buf[p][k] = 0
  BY <1>3 DEF BufBounded
<1>5. BufBounded'
  BY <1>1, <1>2, <1>4 DEF BufBounded
<1>6. ASSUME FullReads, WindowAccount PROVE WindowAccount'
  <2>1. n = NKeys /\ n # 0
    BY <1>6, CoreAssumption DEF FullReads
  <2>2. pc'[p] = "copy" /\ idx'[p] = 1 /\ want'[p] = NKeys
    BY <2>1 DEF ReadBody, Goto, SetIdx, CoreTypeOK
  <2>3. \A k \in Keys : ~InWindow(p, k)'
    BY <2>2, KeysFact DEF InWindow
  <2>4. \A q \in Procs : pc'[q] = "copy" => want'[q] = NKeys
    BY <1>6, <2>2, KeysFact
    DEF ReadBody, Goto, CoreTypeOK, WindowAccount
  <2> QED
    BY <1>1, <1>2, <1>3, <1>6, <2>3, <2>4, QuietAccount
<1> QED
  BY <1>1, <1>5, <1>6 DEF NoPhantomPress, LossOnlyInWindow

LEMMA CopyAccount ==
  ASSUME CoreTypeOK, BufBounded, NEW p \in Procs, CopyKey(p)
  PROVE  /\ BufBounded'
         /\ NoPhantomPress => NoPhantomPress'
         /\ LossOnlyInWindow => LossOnlyInWindow'
         /\ LossOnlyInWindow /\ WindowAccount => WindowAccount'
<1>1. UNCHANGED <<values, want, presses, delivered, late>>
  BY DEF CopyKey, history
<1>2. idx[p] \in Keys /\ pc[p] = "copy" /\ want[p] \in 0..NKeys
  BY DEF CopyKey, CoreTypeOK, IndexOK
<1>3. \A q \in Procs \ {p} : /\ buf'[q] = buf[q]
                             /\ pc'[q] = pc[q] /\ idx'[q] = idx[q]
  BY DEF CopyKey, Goto, SetIdx, CoreTypeOK
<1>4. \A q \in Procs \ {p}, k \in Keys : InWindow(q, k)' <=> InWindow(q, k)
  BY <1>3 DEF InWindow
<1>5. \A k \in Keys :
        buf'[p][k] = IF k = idx[p] THEN values[k] ELSE buf[p][k]
  BY <1>2 DEF CopyKey, CoreTypeOK
<1>6. \A k \in Keys : InWindow(p, k) <=> k < idx[p]
  BY <1>2 DEF InWindow
<1>7. \A k \in Keys : InWindow(p, k) \/ k = idx[p] => InWindow(p, k)'
  <2>1. CASE idx[p] = want[p]
    <3>1. pc'[p] = "clear" /\ idx'[p] = 1
      BY <2>1 DEF CopyKey, Goto, SetIdx, CoreTypeOK
    <3> QED
      BY <3>1, KeysFact DEF InWindow
  <2>2. CASE idx[p] # want[p]
    <3>1. pc'[p] = "copy" /\ idx'[p] = idx[p] + 1
      BY <2>2 DEF CopyKey, Goto, SetIdx, CoreTypeOK
    <3> QED
      BY <1>2, <1>6, <3>1, KeyOrder DEF InWindow
  <2> QED
    BY <2>1, <2>2
<1>8. BufBounded'
  <2> SUFFICES ASSUME NEW q \in Procs, NEW k \in Keys
               PROVE  /\ buf'[q][k] <= values[k]
                      /\ ~InWindow(q, k)' => buf'[q][k] = 0
    BY <1>1 DEF BufBounded
  <2>1. values[k] \in Nat
    BY DEF CoreTypeOK
  <2> QED
    BY <1>3, <1>4, <1>5, <1>7, <2>1 DEF BufBounded
<1>9. ASSUME LossOnlyInWindow, WindowAccount PROVE WindowAccount'
  <2>1. want[p] = NKeys
    BY <1>2, <1>9, KeysFact DEF WindowAccount
  <2>2. \A k \in Keys :
          InWindow(p, k)' => presses[k] <= delivered[k] + buf'[p][k] + late[k]
    <3> SUFFICES ASSUME NEW k \in Keys, InWindow(p, k)'
                 PROVE  presses[k] <= delivered[k] + buf'[p][k] + late[k]
      OBVIOUS
    <3>1. CASE k = idx[p]
      BY <1>5, <1>9, <3>1 DEF LossOnlyInWindow
    <3>2. CASE k # idx[p]
      <4>1. InWindow(p, k)
        <5>1. CASE idx[p] = want[p]
          BY <1>6, <2>1, <3>2, <5>1, KeysFact
        <5>2. CASE idx[p] # want[p]
          <6>1. pc'[p] = "copy" /\ idx'[p] = idx[p] + 1
            BY <5>2 DEF CopyKey, Goto, SetIdx, CoreTypeOK
          <6> QED
            BY <1>2, <1>6, <3>2, <6>1, KeyOrder DEF InWindow
        <5> QED
          BY <5>1, <5>2
      <4> QED
        BY <1>5, <1>9, <3>2, <4>1 DEF WindowAccount
    <3> QED
      BY <3>1, <3>2
  <2>3. \A q \in Procs : pc'[q] = "copy" => want'[q] = NKeys
    BY <1>1, <1>3, <1>9, <2>1, KeysFact DEF WindowAccount
  <2> QED
    BY <1>1, <1>3, <1>4, <1>9, <2>2, <2>3 DEF WindowAccount
<1> QED
  BY <1>1, <1>8, <1>9 DEF NoPhantomPress, LossOnlyInWindow

LEMMA FaultAccount ==
  ASSUME CoreTypeOK, BufBounded, NEW p \in Procs, CopyFault(p)
  PROVE  /\ BufBounded'
         /\ NoPhantomPress => NoPhantomPress'
         /\ LossOnlyInWindow => LossOnlyInWindow'
         /\ FullReads => WindowAccount'
<1>1. UNCHANGED <<values, presses, delivered, late>>
  BY DEF CopyFault, history
<1>2. \A q \in Procs \ {p} : /\ buf'[q] = buf[q]
                             /\ pc'[q] = pc[q] /\ idx'[q] = idx[q]
  BY DEF CopyFault, Goto, SetIdx, CoreTypeOK
<1>3. \A q \in Procs \ {p}, k \in Keys : InWindow(q, k)' <=> InWindow(q, k)
  BY <1>2 DEF InWindow
<1>4. \A k \in Keys : buf'[p][k] = 0 /\ 0 <= values[k]
  BY DEF CopyFault, NoCounts, CoreTypeOK
<1>5. BufBounded'
  BY <1>1, <1>2, <1>3, <1>4 DEF BufBounded
<1> QED
  BY <1>1, <1>5 DEF NoPhantomPress, LossOnlyInWindow, CopyFault, FullReads

(* The one step that empties a counter: with a single holder nobody else   *)
(* has a copy of it.                                                       *)
LEMMA ClearAccount ==
  ASSUME CoreTypeOK, ~Sharing, SingleHolder, BufBounded,
         NEW p \in Procs, ClearKey(p)
  PROVE  /\ BufBounded'
         /\ NoPhantomPress => NoPhantomPress'
         /\ LossOnlyInWindow /\ WindowAccount =>
              LossOnlyInWindow' /\ WindowAccount'
<1> DEFINE i == idx[p]
<1>1. i \in Keys /\ pc[p] = "clear"
  BY DEF ClearKey, CoreTypeOK, IndexOK
<1>2. /\ \A k \in Keys : values'[k] = IF k = i THEN 0 ELSE values[k]
      /\ \A k \in Keys : delivered'[k] = IF k = i THEN delivered[k] + buf[p][k]
                                                ELSE delivered[k]
      /\ \A k \in Keys : buf'[p][k] = IF k = i THEN 0 ELSE buf[p][k]
  BY <1>1 DEF ClearKey, CoreTypeOK
<1>3. UNCHANGED <<presses, late>>
  BY DEF ClearKey
<1>4. \A q \in Procs \ {p} : /\ buf'[q] = buf[q]
                             /\ pc'[q] = pc[q] /\ idx'[q] = idx[q]
  BY DEF ClearKey, Goto, SetIdx, CoreTypeOK
<1>5. \A q \in Procs \ {p}, k \in Keys : ~InWindow(q, k) /\ ~InWindow(q, k)'
  <2>1. InFile(p)
    BY <1>1 DEF InFile, Outside
  <2>2. \A q \in Procs \ {p} : ~InFile(q)
    BY <2>1 DEF SingleHolder
  <2>3. \A q \in Procs \ {p} : pc[q] \notin {"copy", "clear"}
    BY <2>2 DEF InFile, Outside
  <2> QED
    BY <1>4, <2>3 DEF InWindow
<1>6. \A k \in Keys : InWindow(p, k)' <=> InWindow(p, k) /\ k # i
  <2>1. \A k \in Keys : InWindow(p, k) <=> k >= i
    BY <1>1 DEF InWindow
  <2>2. CASE i = NKeys
    <3>1. pc'[p] = "user"
      BY <2>2 DEF ClearKey, Goto, CoreTypeOK
    <3>2. \A k \in Keys : k >= i <=> k = i
      BY <2>2, KeysFact
    <3> QED
      BY <2>1, <3>1, <3>2 DEF InWindow
  <2>3. CASE i # NKeys
    <3>1. pc'[p] = "clear" /\ idx'[p] = i + 1
      BY <2>3 DEF ClearKey, Goto, SetIdx, CoreTypeOK
    <3>2. \A k \in Keys : InWindow(p, k)' <=> k >= i + 1
      BY <3>1 DEF InWindow
    <3> QED
      BY <1>1, <2>1, <3>2, KeyOrder
  <2> QED
    BY <2>2, <2>3
<1>7. BufBounded'
  <2> SUFFICES ASSUME NEW q \in Procs, NEW k \in Keys
               PROVE  /\ buf'[q][k] <= values'[k]
                      /\ ~InWindow(q, k)' => buf'[q][k] = 0
    BY DEF BufBounded
  <2>1. values'[k] \in Nat
    BY <1>2 DEF CoreTypeOK
  <2>2. CASE q = p
    BY <1>2, <1>6, <2>1, <2>2 DEF BufBounded
  <2>3. CASE q # p
    <3>1. buf'[q][k] = 0
      BY <1>4, <1>5, <2>3 DEF BufBounded
    <3> QED
      BY <2>1, <3>1
  <2> QED
    BY <2>2, <2>3
<1>8. ASSUME NoPhantomPress PROVE NoPhantomPress'
  <2> SUFFICES ASSUME NEW k \in Keys
               PROVE  delivered'[k] + values'[k] <= presses[k]
    BY <1>3 DEF NoPhantomPress
  <2>1. /\ values[k] \in Nat /\ delivered[k] \in Nat
        /\ presses[k] \in Nat /\ buf[p][k] \in Nat
    BY DEF CoreTypeOK
  <2>2. /\ delivered[k] + values[k] <= presses[k]
        /\ buf[p][k] <= values[k]
    BY <1>8 DEF NoPhantomPress, BufBounded
  <2> QED
    BY <1>2, <2>1, <2>2
<1>9. ASSUME LossOnlyInWindow, WindowAccount
      PROVE  LossOnlyInWindow' /\ WindowAccount'
  <2>1. LossOnlyInWindow'
    <3> SUFFICES ASSUME NEW k \in Keys
                 PROVE  presses[k] <= delivered'[k] + values'[k] + late[k]
      BY <1>3 DEF LossOnlyInWindow
    <3>1. CASE k = i
      <4>1. InWindow(p, k)
        BY <1>1, <3>1, KeyOrder DEF InWindow
      <4>2. presses[k] <= delivered[k] + buf[p][k] + late[k]
        BY <1>9, <4>1 DEF WindowAccount
      <4>3. delivered[k] \in Nat /\ buf[p][k] \in Nat /\ late[k] \in Nat
        BY DEF CoreTypeOK
      <4> QED
        BY <1>2, <3>1, <4>2, <4>3
    <3>2. CASE k # i
      BY <1>2, <1>9, <3>2 DEF LossOnlyInWindow
    <3> QED
      BY <3>1, <3>2
  <2>2. \A q \in Procs : pc'[q] = "copy" => want'[q] = NKeys
    <3>1. pc'[p] # "copy"
      BY DEF ClearKey, Goto, CoreTypeOK
    <3>2. \A q \in Procs \ {p} : want'[q] = want[q]
      BY DEF ClearKey, CoreTypeOK
    <3> QED
      BY <1>4, <1>9, <3>1, <3>2, KeysFact DEF WindowAccount
  <2>3. \A q \in Procs, k \in Keys :
          InWindow(q, k)' =>
            presses'[k] <= delivered'[k] + buf'[q][k] + late'[k]
    <3> SUFFICES ASSUME NEW k \in Keys, InWindow(p, k)'
                 PROVE  presses[k] <= delivered'[k] + buf'[p][k] + late[k]
      BY <1>3, <1>5
    <3>1. InWindow(p, k) /\ k # i
      BY <1>6
    <3> QED
      BY <1>2, <1>9, <3>1 DEF WindowAccount
  <2> QED
    BY <2>1, <2>2, <2>3 DEF WindowAccount
<1> QED
  BY <1>7, <1>8, <1>9

LEMMA PressAccount ==
  ASSUME CoreTypeOK, NEW k \in Keys, CountPress(k)
  PROVE  /\ BufBounded => BufBounded'
         /\ NoPhantomPress => NoPhantomPress'
         /\ LossOnlyInWindow => LossOnlyInWindow'
         /\ WindowAccount => WindowAccount'
<1>1. UNCHANGED <<pc, idx, want, buf, delivered>>
  BY DEF CountPress
<1>2. \A q \in Procs, j \in Keys : InWindow(q, j)' <=> InWindow(q, j)
  BY <1>1 DEF InWindow
<1>3. \A j \in Keys :
        /\ values'[j] = IF j = k THEN values[j] + 1 ELSE values[j]
        /\ presses'[j] = IF j = k THEN presses[j] + 1 ELSE presses[j]
  BY DEF CountPress, CoreTypeOK
<1>4. \A j \in Keys :
        late'[j] = IF j = k /\ \E q \in Procs : InWindow(q, j)
                     THEN late[j] + 1 ELSE late[j]
  BY DEF CountPress, CoreTypeOK
<1>5. /\ \A j \in Keys : /\ values[j] \in Nat /\ presses[j] \in Nat
                         /\ delivered[j] \in Nat /\ late[j] \in Nat
      /\ \A q \in Procs, j \in Keys : buf[q][j] \in Nat
  BY DEF CoreTypeOK
<1>6. ASSUME BufBounded PROVE BufBounded'
  <2> SUFFICES ASSUME NEW q \in Procs, NEW j \in Keys
               PROVE  /\ buf[q][j] <= values'[j]
                      /\ ~InWindow(q, j) => buf[q][j] = 0
    BY <1>1, <1>2 DEF BufBounded
  <2>1. values[j] <= values'[j]
    BY <1>3, <1>5
  <2> QED
    BY <1>3, <1>5, <1>6, <2>1 DEF BufBounded
<1>7. ASSUME NoPhantomPress PROVE NoPhantomPress'
  BY <1>1, <1>3, <1>5, <1>7 DEF NoPhantomPress
<1>8. ASSUME LossOnlyInWindow PROVE LossOnlyInWindow'
  <2> SUFFICES ASSUME NEW j \in Keys
               PROVE  presses'[j] <= delivered[j] + values'[j] + late'[j]
    BY <1>1 DEF LossOnlyInWindow
  <2>1. late'[j] \in Nat /\ late[j] <= late'[j]
    BY <1>4, <1>5
  <2>2. presses[j] <= delivered[j] + values[j] + late[j]
    BY <1>8 DEF LossOnlyInWindow
  <2> QED
    BY <1>3, <1>5, <2>1, <2>2
<1>9. ASSUME WindowAccount PROVE WindowAccount'
  <2> SUFFICES ASSUME NEW q \in Procs, NEW j \in Keys, InWindow(q, j)
               PROVE  presses'[j] <= delivered[j] + buf[q][j] + late'[j]
    BY <1>1, <1>2, <1>9 DEF WindowAccount
  <2>1. presses[j] <= delivered[j] + buf[q][j] + late[j]
    BY <1>9 DEF WindowAccount
  <2>2. late'[j] = IF j = k THEN late[j] + 1 ELSE late[j]
    BY <1>4
  <2> QED
    BY <1>3, <1>5, <2>1, <2>2
<1> QED
  BY <1>6, <1>7, <1>8, <1>9

---------------------------------------------------------------------------
(* Pending presses and the flag.                                           *)

LEMMA InitPending == CoreInit => PendingSignalled
BY DEF CoreInit, PendingSignalled, NoCounts

LEMMA QuietPending ==
  ASSUME PendingSignalled, UNCHANGED <<values, ev_press>>,
         \A q \in Procs, k \in Keys : WillClear(q, k) => WillClear(q, k)'
  PROVE  PendingSignalled'
BY DEF PendingSignalled

(* A read that begins will clear every counter.                            *)
LEMMA ReadCovers ==
  ASSUME CoreTypeOK, NEW p \in Procs, NEW n \in ReadSizes, ReadBody(p, n)
  PROVE  \A k \in Keys : WillClear(p, k)'
<1>1. pc'[p] \in {"copy", "clear"} /\ idx'[p] = 1
  BY DEF ReadBody, Goto, SetIdx, CoreTypeOK
<1> QED
  BY <1>1, KeysFact DEF WillClear

(* The copy loop, and a fault in it, keep what reads will clear.           *)
LEMMA CopyKeeps ==
  ASSUME CoreTypeOK, NEW p \in Procs, CopyKey(p) \/ CopyFault(p)
  PROVE  /\ UNCHANGED <<values, ev_press>>
         /\ \A q \in Procs, k \in Keys : WillClear(q, k) => WillClear(q, k)'
<1>1. UNCHANGED <<values, ev_press>>
  BY DEF CopyKey, CopyFault
<1>2. \A q \in Procs \ {p} : pc'[q] = pc[q] /\ idx'[q] = idx[q]
  BY DEF CopyKey, CopyFault, Goto, SetIdx, CoreTypeOK
<1>3. \/ pc'[p] = "copy"
      \/ pc'[p] = "clear" /\ idx'[p] = 1
  <2>1. CASE CopyKey(p) /\ idx[p] = want[p]
    <3>1. pc'[p] = "clear" /\ idx'[p] = 1
      BY <2>1 DEF CopyKey, Goto, SetIdx, CoreTypeOK
    <3> QED
      BY <3>1
  <2>2. CASE CopyKey(p) /\ idx[p] # want[p]
    <3>1. pc'[p] = "copy"
      BY <2>2 DEF CopyKey, Goto, CoreTypeOK
    <3> QED
      BY <3>1
  <2>3. CASE CopyFault(p)
    BY <2>3 DEF CopyFault, Goto, SetIdx, CoreTypeOK
  <2> QED
    BY <2>1, <2>2, <2>3
<1>4. \A k \in Keys : WillClear(p, k)'
  BY <1>3, KeysFact DEF WillClear
<1>5. \A q \in Procs \ {p}, k \in Keys : WillClear(q, k)' <=> WillClear(q, k)
  BY <1>2 DEF WillClear
<1> QED
  BY <1>1, <1>4, <1>5

(* A step of the memset clears its key and keeps what is left to clear.    *)
LEMMA ClearKeeps ==
  ASSUME CoreTypeOK, NEW p \in Procs, ClearKey(p)
  PROVE  /\ idx[p] \in Keys /\ ev_press' = ev_press
         /\ \A k \in Keys : values'[k] > 0 => k # idx[p] /\ values[k] > 0
         /\ \A q \in Procs, k \in Keys :
              WillClear(q, k) /\ k # idx[p] => WillClear(q, k)'
<1>1. idx[p] \in Keys /\ pc[p] = "clear" /\ ev_press' = ev_press
  BY DEF ClearKey, CoreTypeOK, IndexOK
<1>2. \A k \in Keys : values'[k] = IF k = idx[p] THEN 0 ELSE values[k]
  BY <1>1 DEF ClearKey, CoreTypeOK
<1>3. \A q \in Procs \ {p} : pc'[q] = pc[q] /\ idx'[q] = idx[q]
  BY DEF ClearKey, Goto, SetIdx, CoreTypeOK
<1>4. \A q \in Procs \ {p}, k \in Keys : WillClear(q, k)' <=> WillClear(q, k)
  BY <1>3 DEF WillClear
<1>5. \A k \in Keys : WillClear(p, k) /\ k # idx[p] => WillClear(p, k)'
  <2>1. CASE idx[p] = NKeys
    BY <1>1, <2>1, KeysFact DEF WillClear
  <2>2. CASE idx[p] # NKeys
    <3>1. pc'[p] = "clear" /\ idx'[p] = idx[p] + 1
      BY <2>2 DEF ClearKey, Goto, SetIdx, CoreTypeOK
    <3> QED
      BY <1>1, <3>1, KeyOrder DEF WillClear
  <2> QED
    BY <2>1, <2>2
<1> QED
  BY <1>1, <1>2, <1>4, <1>5

LEMMA ReadPending ==
  ASSUME CoreTypeOK, NEW p \in Procs, NEW n \in ReadSizes, ReadBody(p, n)
  PROVE  PendingSignalled'
BY ReadCovers DEF PendingSignalled

LEMMA CopyPending ==
  ASSUME CoreTypeOK, PendingSignalled, NEW p \in Procs,
         CopyKey(p) \/ CopyFault(p)
  PROVE  PendingSignalled'
BY CopyKeeps, QuietPending

LEMMA ClearPending ==
  ASSUME CoreTypeOK, PendingSignalled, NEW p \in Procs, ClearKey(p)
  PROVE  PendingSignalled'
BY ClearKeeps DEF PendingSignalled

---------------------------------------------------------------------------
(* The steps outside read: they touch neither counters nor the flag, and   *)
(* their process is in no read before or after.                            *)

LEMMA OutsideRead ==
  ASSUME NEW p \in Procs,
         pc[p] \notin {"copy", "clear"}, pc'[p] \notin {"copy", "clear"},
         \A q \in Procs \ {p} : pc'[q] = pc[q] /\ idx'[q] = idx[q]
  PROVE  \A q \in Procs, k \in Keys :
           /\ InWindow(q, k)' <=> InWindow(q, k)
           /\ WillClear(q, k)' <=> WillClear(q, k)
<1>1. \A k \in Keys : /\ ~InWindow(p, k) /\ ~InWindow(p, k)'
                      /\ ~WillClear(p, k) /\ ~WillClear(p, k)'
  BY DEF InWindow, WillClear
<1>2. \A q \in Procs \ {p}, k \in Keys :
        /\ InWindow(q, k)' <=> InWindow(q, k)
        /\ WillClear(q, k)' <=> WillClear(q, k)
  BY DEF InWindow, WillClear
<1> QED
  BY <1>1, <1>2

LEMMA QuietSteps ==
  ASSUME CoreTypeOK, NEW p \in Procs,
         \/ OpenEnter(p) \/ RequestIrq(p) \/ RequestFails(p) \/ Unwind(p)
         \/ Close(p) \/ FreeIrq(p) \/ \E q \in Procs : Fork(p, q)
  PROVE  /\ UNCHANGED <<values, ev_press, want, buf, presses, delivered, late>>
         /\ \A q \in Procs : pc'[q] = "copy" => pc[q] = "copy"
         /\ \A q \in Procs, k \in Keys :
              /\ InWindow(q, k)' <=> InWindow(q, k)
              /\ WillClear(q, k)' <=> WillClear(q, k)
<1>1. UNCHANGED <<values, ev_press, want, buf, presses, delivered, late>>
  BY DEF OpenEnter, RequestIrq, RequestFails, Unwind, Close, FreeIrq, Fork,
         history
<1>2. CASE \/ OpenEnter(p) \/ RequestIrq(p) \/ RequestFails(p)
           \/ Unwind(p) \/ Close(p) \/ FreeIrq(p)
  <2>1. /\ pc[p] \notin {"copy", "clear"} /\ pc'[p] \notin {"copy", "clear"}
        /\ \A q \in Procs \ {p} : pc'[q] = pc[q] /\ idx'[q] = idx[q]
    BY <1>2 DEF OpenEnter, RequestIrq, RequestFails, Unwind, Close, FreeIrq,
                Goto, SetIdx, CoreTypeOK
  <2>2. \A q \in Procs : pc'[q] = "copy" => pc[q] = "copy"
    BY <2>1
  <2> QED
    BY <1>1, <2>1, <2>2, OutsideRead
<1>3. ASSUME NEW q \in Procs, Fork(p, q)
      PROVE  /\ \A r \in Procs : pc'[r] = "copy" => pc[r] = "copy"
             /\ \A r \in Procs, k \in Keys :
                  /\ InWindow(r, k)' <=> InWindow(r, k)
                  /\ WillClear(r, k)' <=> WillClear(r, k)
  <2>1. /\ pc[q] \notin {"copy", "clear"} /\ pc'[q] \notin {"copy", "clear"}
        /\ \A r \in Procs \ {q} : pc'[r] = pc[r] /\ idx'[r] = idx[r]
    BY <1>3 DEF Fork, Goto, CoreTypeOK
  <2>2. \A r \in Procs : pc'[r] = "copy" => pc[r] = "copy"
    BY <2>1
  <2> QED
    BY <2>1, <2>2, OutsideRead
<1> QED
  BY <1>1, <1>2, <1>3

(* A step that leaves every process in place, such as another driver's.    *)
LEMMA InPlace ==
  ASSUME UNCHANGED <<pc, idx>>
  PROVE  \A q \in Procs, k \in Keys :
           /\ InWindow(q, k)' <=> InWindow(q, k)
           /\ WillClear(q, k)' <=> WillClear(q, k)
BY DEF InWindow, WillClear
============================================================================
