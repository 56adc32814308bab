----------------------------- MODULE MemProofs -----------------------------
(***************************************************************************)
(* globalmem and pan_fcntl keep to their memory, for every size, word      *)
(* width, number of threads and files: theorems about MemDevice's Spec,    *)
(* and about PanFcntl's, whose steps are MemDevice's or leave it alone.    *)
(* At the end the other two drivers that pass data from one process to     *)
(* another: pan_poll's number and flag, for any number of processes and    *)
(* both variants, and the unprotected buffer of nosemaphore, for any size  *)
(* and any writers.                                                        *)
(***************************************************************************)
EXTENDS PanFcntl, PanPoll, NoSemaphore, TLAPS

(* A 32-bit index is the offset's low bits: below Word, and the offset     *)
(* itself when that is small.                                              *)
LEMMA TruncatedRange ==
  ASSUME NEW a \in Nat
  PROVE  Truncated(a) \in 0..(Word - 1)
BY MemAssumption DEF Truncated

LEMMA TruncatedSmall ==
  ASSUME NEW a \in Nat, a < Word
  PROVE  Truncated(a) = a
BY MemAssumption DEF Truncated

(* What the driver leaves of a count fits behind the start.                *)
LEMMA CutFits ==
  ASSUME NEW start \in Nat, start < Size, NEW n \in Nat
  PROVE  Cut(start, n) \in 0..Size /\ start + Cut(start, n) <= Size
BY MemAssumption DEF Cut

---------------------------------------------------------------------------
(* The inductive invariant: the types, the bounds, that a call's file is   *)
(* open, and that a position that will be stored back was inside.          *)
MemInv == MemTypeOK /\ InBounds /\ CallsOpen /\ OwnInside

LEMMA MemInitInv == MemInit => MemInv
BY MemAssumption
   DEF MemInit, MemInv, MemTypeOK, InBounds, CallsOpen, OwnInside, InCall

(* A thread in a call has a record of a call.                              *)
LEMMA CallRecord ==
  ASSUME MemTypeOK, NEW p \in Procs, InCall(p)
  PROVE  /\ call[p] \in Calls
         /\ call[p].op \in {"read", "write"} /\ call[p].file \in Files
         /\ call[p].own \in BOOLEAN /\ call[p].at \in Nat
         /\ call[p].len \in 1..Size /\ call[p].done \in Bytes
<1>1. call[p] \in Calls
  BY DEF MemTypeOK, InCall
<1> QED  BY <1>1 DEF Calls

(* What a call is about to touch is inside the memory.                     *)
LEMMA IndexInside ==
  ASSUME MemInv, NEW p \in Procs, InCall(p)
  PROVE  Index(p) \in Bytes
<1>1. call[p].at \in Nat /\ call[p].len \in 1..Size /\ call[p].done \in Bytes
  BY CallRecord DEF MemInv
<1>2. Truncated(call[p].at) \in 0..(Word - 1)
  BY <1>1, TruncatedRange
<1>3. Truncated(call[p].at) + call[p].len <= Size /\ call[p].done < call[p].len
  BY DEF MemInv, InBounds
<1> QED  BY <1>1, <1>2, <1>3, MemAssumption DEF Index, Bytes

(* What a call stores back into its file is inside the memory.             *)
LEMMA MovedInside ==
  ASSUME MemInv, NEW p \in Procs, InCall(p), call[p].own,
         NEW moved \in {0, call[p].len}
  PROVE  call[p].at + moved \in 0..Size
<1>1. call[p].at \in Nat /\ call[p].len \in 1..Size
  BY CallRecord DEF MemInv
<1>2. call[p].at < Size
  BY DEF MemInv, OwnInside
<1>3. Truncated(call[p].at) = call[p].at
  BY <1>1, <1>2, TruncatedSmall, MemAssumption
<1>4. call[p].at + call[p].len <= Size
  BY <1>3 DEF MemInv, InBounds
<1> QED  BY <1>1, <1>2, <1>4, MemAssumption

(* A call that returns leaves positions inside and the other calls alone.  *)
LEMMA ReturnKeeps ==
  ASSUME MemInv, NEW p \in Procs, InCall(p),
         NEW moved \in {0, call[p].len}, Return(p, moved)
  PROVE  /\ pos' \in [Files -> 0..Size]
         /\ call' \in [Procs -> Calls \cup {NoCall}]
         /\ call' = [call EXCEPT ![p] = NoCall]
<1>1. pos' \in [Files -> 0..Size]
  <2>1. CASE call[p].own
    <3>1. pos' = [pos EXCEPT ![call[p].file] = call[p].at + moved]
      BY <2>1 DEF Return
    <3>2. call[p].at + moved \in 0..Size
      BY <2>1, MovedInside
    <3> QED  BY <3>1, <3>2 DEF MemInv, MemTypeOK
  <2>2. CASE ~call[p].own
    BY <2>2 DEF Return, MemInv, MemTypeOK
  <2> QED  BY <2>1, <2>2
<1> QED  BY <1>1 DEF Return, MemInv, MemTypeOK

(* Once its types are kept and every call in it is one that was there      *)
(* before, on a file still open, the invariant is kept.                    *)
LEMMA CallsKept ==
  ASSUME MemInv, MemTypeOK',
         \A p \in Procs : InCall(p)' =>
           /\ InCall(p)
           /\ call'[p].file = call[p].file /\ call[p].file \in open'
           /\ call'[p].own = call[p].own /\ call'[p].at = call[p].at
           /\ call'[p].len = call[p].len
           /\ call'[p].done < call[p].len
  PROVE  MemInv'
BY DEF MemInv, InBounds, CallsOpen, OwnInside, Truncated

---------------------------------------------------------------------------
(* One lemma per kind of step.                                             *)

LEMMA FileStep ==
  ASSUME MemInv, NEW f \in Files,
         \/ Open(f) \/ Release(f) \/ MemClear(f)
         \/ \E offset \in Offsets : Seek(f, offset)
  PROVE  MemInv'
<1>1. CASE Open(f)
  <2>1. MemTypeOK'
    BY <1>1, MemAssumption DEF Open, MemInv, MemTypeOK, Calls, Bytes
  <2> QED  BY <1>1, <2>1, CallsKept DEF Open, MemInv, InBounds, CallsOpen, InCall
<1>2. CASE Release(f)
  <2>1. MemTypeOK'
    BY <1>2 DEF Release, MemInv, MemTypeOK, Calls, Bytes
  <2> QED  BY <1>2, <2>1, CallsKept DEF Release, MemInv, InBounds, CallsOpen, InCall
<1>3. CASE MemClear(f)
  <2>1. MemTypeOK'
    BY <1>3 DEF MemClear, MemInv, MemTypeOK, Calls, Bytes
  <2> QED  BY <1>3, <2>1, CallsKept DEF MemClear, MemInv, InBounds, CallsOpen, InCall
<1>4. CASE \E offset \in Offsets : Seek(f, offset)
  <2>1. PICK offset \in Offsets : Seek(f, offset)
    BY <1>4
  <2>2. SeekSetTo(offset) \cup SeekCurTo(f, offset) \subseteq 0..Size
    BY DEF SeekSetTo, SeekCurTo
  <2>3. MemTypeOK'
    BY <2>1, <2>2 DEF Seek, MemInv, MemTypeOK, Calls, Bytes
  <2> QED  BY <2>1, <2>3, CallsKept DEF Seek, MemInv, InBounds, CallsOpen, InCall
<1> QED  BY <1>1, <1>2, <1>3, <1>4

LEMMA EnterStep ==
  ASSUME MemInv, NEW p \in Procs, NEW op \in {"read", "write"}, EnterAt(p, op)
  PROVE  MemInv'
<1>1. PICK f \in Files, from \in Nat, own \in BOOLEAN, n \in Counts :
        Enter(p, op, f, from, own, n) /\ (own => from <= Size)
  <2>1. \A f \in Files : pos[f] \in 0..Size
    BY DEF MemInv, MemTypeOK
  <2>2. \A offset \in Offsets : offset >= 0 => offset \in Nat
    BY MemAssumption
  <2>3. PICK f \in Files, n \in Counts :
          \/ Enter(p, op, f, pos[f], TRUE, n)
          \/ \E offset \in Offsets : offset >= 0 /\ Enter(p, op, f, offset, FALSE, n)
    BY DEF EnterAt
  <2>4. CASE Enter(p, op, f, pos[f], TRUE, n)
    <3>1. pos[f] \in Nat /\ pos[f] <= Size
      BY <2>1, MemAssumption
    <3> QED  BY <2>4, <3>1
  <2>5. CASE \E offset \in Offsets : offset >= 0 /\ Enter(p, op, f, offset, FALSE, n)
    <3>1. PICK offset \in Offsets : offset >= 0 /\ Enter(p, op, f, offset, FALSE, n)
      BY <2>5
    <3> QED  BY <2>2, <3>1
  <2> QED  BY <2>3, <2>4, <2>5
<1> DEFINE start == Truncated(from)
           len == Cut(start, n)
           new == [op |-> op, file |-> f, own |-> own,
                   at |-> from, len |-> len, done |-> 0]
<1>2. start \in Nat /\ start < Size /\ n \in Nat /\ len > 0 /\ f \in open
  BY <1>1, TruncatedRange, MemAssumption DEF Enter
<1>3. len \in 1..Size /\ start + len <= Size
  BY <1>2, CutFits, MemAssumption
<1>4. call' = [call EXCEPT ![p] = new] /\ UNCHANGED <<open, pos, mem>>
  BY <1>1 DEF Enter
<1> HIDE DEF start, len
<1>5. new \in Calls
  BY <1>3, MemAssumption DEF Calls, Bytes
<1>6. MemTypeOK'
  BY <1>4, <1>5 DEF MemInv, MemTypeOK, Bytes
<1>7. own => from < Size
  <2> SUFFICES ASSUME own PROVE from < Size
    OBVIOUS
  <2>1. from < Word
    BY <1>1, MemAssumption
  <2> QED  BY <1>2, <2>1, TruncatedSmall DEF start
<1>8. InBounds' /\ CallsOpen' /\ OwnInside'
  <2>1. \A q \in Procs : call'[q] = IF q = p THEN new ELSE call[q]
    BY <1>4 DEF MemInv, MemTypeOK
  <2>2. Truncated(new.at) + new.len <= Size /\ new.done < new.len
        /\ new.file \in open /\ (new.own => new.at < Size)
    BY <1>2, <1>3, <1>7 DEF start
  <2> HIDE DEF new
  <2> QED
    BY <1>4, <2>1, <2>2
       DEF MemInv, InBounds, CallsOpen, OwnInside, InCall, Truncated
<1> QED  BY <1>6, <1>8 DEF MemInv

LEMMA CopyOnKeeps ==
  ASSUME MemInv, NEW p \in Procs, InCall(p), CopyOn(p), open' = open,
         mem' \in [Bytes -> Procs \cup {"zero"}]
  PROVE  MemInv'
<1>1. CASE Last(p)
  <2>1. Return(p, call[p].len)
    BY <1>1 DEF CopyOn
  <2>2. /\ pos' \in [Files -> 0..Size]
        /\ call' \in [Procs -> Calls \cup {NoCall}]
        /\ call' = [call EXCEPT ![p] = NoCall]
    BY <2>1, ReturnKeeps
  <2>3. MemTypeOK'
    BY <2>2 DEF MemInv, MemTypeOK, Calls, Bytes
  <2> QED  BY <2>2, <2>3, CallsKept DEF MemInv, MemTypeOK, InBounds, CallsOpen, InCall
<1>2. CASE ~Last(p)
  <2>1. call' = [call EXCEPT ![p].done = @ + 1] /\ pos' = pos
    BY <1>2 DEF CopyOn
  <2>2. call[p] \in Calls /\ call[p].len \in 1..Size /\ call[p].done \in Bytes
    BY CallRecord DEF MemInv
  <2>3. call[p].done < call[p].len /\ call[p].done + 1 # call[p].len
    BY <1>2 DEF Last, MemInv, InBounds
  <2>4. call[p].done + 1 \in Bytes /\ call[p].done + 1 < call[p].len
    BY <2>2, <2>3, MemAssumption DEF Bytes
  <2>5. /\ call'[p] = [call[p] EXCEPT !.done = @ + 1]
        /\ \A q \in Procs : q # p => call'[q] = call[q]
    BY <2>1 DEF MemInv, MemTypeOK
  <2>6. call'[p] \in Calls
    BY <2>2, <2>4, <2>5 DEF Calls
  <2>7. MemTypeOK'
    <3>1. call' \in [Procs -> Calls \cup {NoCall}]
      BY <2>1, <2>5, <2>6 DEF MemInv, MemTypeOK
    <3> QED  BY <2>1, <3>1 DEF MemInv, MemTypeOK, Calls, Bytes
  <2>8. /\ call'[p].file = call[p].file /\ call'[p].own = call[p].own
        /\ call'[p].at = call[p].at /\ call'[p].len = call[p].len
        /\ call'[p].done < call[p].len
    BY <2>2, <2>4, <2>5 DEF Calls
  <2> QED  BY <2>5, <2>7, <2>8, CallsKept DEF MemInv, InBounds, CallsOpen, InCall
<1> QED  BY <1>1, <1>2

LEMMA ByteStep ==
  ASSUME MemInv, NEW p \in Procs, ReadByte(p) \/ WriteByte(p)
  PROVE  MemInv'
<1>1. InCall(p) /\ CopyOn(p) /\ open' = open
  BY DEF ReadByte, WriteByte
<1>2. mem' \in [Bytes -> Procs \cup {"zero"}]
  BY IndexInside, <1>1 DEF ReadByte, WriteByte, MemInv, MemTypeOK
<1> QED  BY <1>1, <1>2, CopyOnKeeps

LEMMA FaultStep ==
  ASSUME MemInv, NEW p \in Procs, ReadFault(p) \/ WriteFault(p)
  PROVE  MemInv'
<1>1. InCall(p) /\ Return(p, 0) /\ open' = open
  BY DEF ReadFault, WriteFault
<1>2. mem' \in [Bytes -> Procs \cup {"zero"}]
  BY DEF ReadFault, WriteFault, MemInv, MemTypeOK
<1>3. /\ pos' \in [Files -> 0..Size]
      /\ call' \in [Procs -> Calls \cup {NoCall}]
      /\ call' = [call EXCEPT ![p] = NoCall]
  BY <1>1, ReturnKeeps
<1>4. MemTypeOK'
  BY <1>1, <1>2, <1>3 DEF MemInv, MemTypeOK, Calls, Bytes
<1> QED
  BY <1>1, <1>3, <1>4, CallsKept DEF MemInv, MemTypeOK, InBounds, CallsOpen, InCall

LEMMA StutterStep == MemInv /\ UNCHANGED memVars => MemInv'
BY DEF memVars, MemInv, MemTypeOK, InBounds, CallsOpen, OwnInside, InCall,
       Calls, Bytes, Truncated

LEMMA MemNextInv == MemInv /\ [MemNext]_memVars => MemInv'
<1> SUFFICES ASSUME MemInv, [MemNext]_memVars PROVE MemInv'
  OBVIOUS
<1> QED  BY FileStep, EnterStep, ByteStep, FaultStep, StutterStep DEF MemNext

LEMMA MemInvariant == MemSpec => []MemInv
BY MemInitInv, MemNextInv, PTL DEF MemSpec

---------------------------------------------------------------------------
(* The queue hidden, a step of pan_fcntl is one of the actions of MemDevice*)
(* that Next names, or none, so the invariants of MemDevice carry over.    *)
LEMMA FcntlIsMemDevice == Spec => MemSpec
<1>1. Init => MemInit
  BY DEF Init
<1>2. [Next]_vars => [MemNext]_memVars
  BY DEF Next, vars, MemNext, memVars, SetAsync, ClearAsync, FcntlRelease,
         WriteOn, WriteFails, EmptyWrite
<1> QED  BY <1>1, <1>2, PTL DEF Spec, MemSpec

(* Positions and copies of both drivers stay inside the memory.            *)
THEOREM FcntlInBounds == Spec => []InBounds
<1>1. MemInv => InBounds
  BY DEF MemInv
<1> QED  BY <1>1, FcntlIsMemDevice, MemInvariant, PTL

(* The types of the memory and of the notification queue.                  *)
THEOREM FcntlTypes == Spec => []TypeOK
<1>1. Init => async \subseteq Files /\ stale \subseteq Files
  BY DEF Init
<1>2. async \subseteq Files /\ stale \subseteq Files /\ [Next]_vars
        => (async \subseteq Files /\ stale \subseteq Files)'
  BY DEF Next, vars, SetAsync, ClearAsync, FcntlRelease, OffQueue, WriteOn,
         WriteFails, EmptyWrite, Behind
<1>3. MemInv /\ async \subseteq Files /\ stale \subseteq Files => TypeOK
  BY DEF MemInv, TypeOK
<1> QED  BY <1>1, <1>2, <1>3, FcntlIsMemDevice, MemInvariant, PTL DEF Spec

(* A file leaves async_queue before it is gone.                            *)
THEOREM QueueCorrect == Spec => []QueueOpen
<1>1. Init => QueueOpen
  BY DEF Init, QueueOpen
<1>2. QueueOpen /\ [Next]_vars => QueueOpen'
  <2> SUFFICES ASSUME QueueOpen, [Next]_vars PROVE QueueOpen'
    OBVIOUS
  <2>1. ASSUME NEW f \in Files,
               SetAsync(f) \/ ClearAsync(f) \/ FcntlRelease(f)
        PROVE  QueueOpen'
    BY <2>1 DEF SetAsync, ClearAsync, FcntlRelease, Release, OffQueue, QueueOpen
  <2>2. ASSUME NEW f \in Files, async' = async,
               Open(f) \/ MemClear(f) \/ \E offset \in Offsets : Seek(f, offset)
        PROVE  QueueOpen'
    BY <2>2 DEF Open, MemClear, Seek, QueueOpen
  <2>3. ASSUME NEW p \in Procs, WriteOn(p) \/ WriteFails(p) \/ EmptyWrite(p)
        PROVE  QueueOpen'
    BY <2>3 DEF WriteOn, WriteByte, WriteFails, WriteFault, EmptyWrite, QueueOpen
  <2>4. ASSUME NEW p \in Procs, async' = async,
               EnterAt(p, "read") \/ EnterAt(p, "write") \/ ReadByte(p) \/ ReadFault(p)
        PROVE  QueueOpen'
    BY <2>4 DEF EnterAt, Enter, ReadByte, ReadFault, QueueOpen
  <2>5. CASE UNCHANGED vars
    BY <2>5 DEF vars, QueueOpen
  <2> QED  BY <2>1, <2>2, <2>3, <2>4, <2>5 DEF Next
<1> QED  BY <1>1, <1>2, PTL DEF Spec

(* Every change by a write is followed by the SIGIO of a write.            *)
WriteCall(p) == InCall(p) /\ call[p].op = "write"

LEMMA AnnouncedStep == MemInv /\ Announced /\ [Next]_vars => Announced'
<1> SUFFICES ASSUME MemInv, Announced, [Next]_vars, stale' # {}
             PROVE  \E q \in Procs : WriteCall(q)'
  BY DEF Announced, WriteCall
<1>1. ASSUME call' = call, stale' \subseteq stale
      PROVE  \E q \in Procs : WriteCall(q)'
  BY <1>1 DEF Announced, WriteCall, InCall
<1>2. ASSUME NEW f \in Files, \/ SetAsync(f) \/ ClearAsync(f) \/ FcntlRelease(f)
                              \/ /\ Open(f) \/ MemClear(f)
                                    \/ \E offset \in Offsets : Seek(f, offset)
                                 /\ UNCHANGED <<async, stale>>
      PROVE  \E q \in Procs : WriteCall(q)'
  <2>1. call' = call /\ stale' \subseteq stale
    BY <1>2 DEF SetAsync, ClearAsync, FcntlRelease, Release, Open, MemClear, Seek
  <2> QED  BY <1>1, <2>1
<1>3. ASSUME NEW p \in Procs, WriteOn(p)
      PROVE  WriteCall(p)'
  <2>1. ~Last(p) /\ CopyOn(p) /\ InCall(p) /\ call[p].op = "write"
    BY <1>3 DEF WriteOn, WriteByte
  <2>2. call' = [call EXCEPT ![p].done = @ + 1]
    BY <2>1 DEF CopyOn
  <2>3. call[p] \in Calls
    BY <2>1, CallRecord DEF MemInv
  <2>4. call'[p] = [call[p] EXCEPT !.done = @ + 1]
    BY <2>2 DEF MemInv, MemTypeOK
  <2> QED  BY <2>1, <2>3, <2>4 DEF WriteCall, InCall, Calls, NoCall
<1>4. ASSUME NEW p \in Procs, WriteFails(p) \/ EmptyWrite(p)
      PROVE  FALSE
  BY <1>4 DEF WriteFails, EmptyWrite, Behind
<1>5. ASSUME NEW p \in Procs, stale' = stale,
             \/ EnterAt(p, "read") \/ EnterAt(p, "write")
             \/ ReadByte(p) \/ ReadFault(p)
      PROVE  \E q \in Procs : WriteCall(q)'
  <2>1. PICK q \in Procs : WriteCall(q)
    BY <1>5 DEF Announced, WriteCall
  <2>2. p # q /\ \E new : call' = [call EXCEPT ![p] = new]
    <3>1. CASE EnterAt(p, "read") \/ EnterAt(p, "write")
      BY <2>1, <3>1 DEF EnterAt, Enter, WriteCall
    <3>2. CASE ReadByte(p)
      <4>1. CASE Last(p)
        BY <2>1, <3>2, <4>1 DEF ReadByte, CopyOn, Return, WriteCall
      <4>2. CASE ~Last(p)
        BY <2>1, <3>2, <4>2 DEF ReadByte, CopyOn, WriteCall
      <4> QED  BY <4>1, <4>2
    <3>3. CASE ReadFault(p)
      BY <2>1, <3>3 DEF ReadFault, Return, WriteCall
    <3> QED  BY <1>5, <3>1, <3>2, <3>3
  <2>3. call'[q] = call[q]
    BY <2>2 DEF MemInv, MemTypeOK
  <2> QED  BY <2>1, <2>3 DEF WriteCall, InCall
<1>6. CASE UNCHANGED vars
  BY <1>1, <1>6 DEF vars
<1> QED  BY <1>2, <1>3, <1>4, <1>5, <1>6 DEF Next

THEOREM AnnouncedCorrect == Spec => []Announced
<1>1. Init => Announced
  BY DEF Init, Announced
<1> QED  BY <1>1, AnnouncedStep, FcntlIsMemDevice, MemInvariant, PTL DEF Spec

---------------------------------------------------------------------------
(* pan_poll.                                                               *)
LEMMA PollTypesStep == PollTypeOK /\ [PollNext]_boardVars => PollTypeOK'
<1> SUFFICES ASSUME PollTypeOK, [PollNext]_boardVars PROVE PollTypeOK'
  OBVIOUS
<1> USE DEF PollTypeOK, BeeperTypeOK, Goto, PinDriven,
            pinVars, testVars, history
<1>1. ASSUME NEW p \in Procs, ReadBegins(p) \/ ReadEnds(p)
      PROVE  PollTypeOK'
  BY <1>1 DEF ReadBegins, ReadEnds, Lowered
<1>2. ASSUME NEW p \in Procs, WriteBegins(p) \/ SelectEnter(p)
      PROVE  PollTypeOK'
  BY <1>2 DEF WriteBegins, SelectEnter
<1>3. ASSUME NEW p \in Procs, WriteEnds(p) PROVE PollTypeOK'
  <2>1. /\ writes' = writes + 1 /\ number' \in {writes + 1, 0} /\ flag' = 1
        /\ triggered' \in {triggered \cup waitq, triggered}
        /\ unread' = TRUE /\ faulted' = FALSE
        /\ pc' = [pc EXCEPT ![p] = "user"]
        /\ UNCHANGED <<output, level, down, test, answer, wakes, waitq, result>>
    BY <1>3 DEF WriteEnds, Raised, Woken
  <2>2. overtaken' \subseteq Procs
    BY <1>3 DEF WriteEnds
  <2>3. /\ writes' \in Nat /\ number' \in Nat /\ flag' \in {0, 1}
        /\ pc' \in [Procs -> {"user", "poll", "sleep", "copy", "write"}]
        /\ triggered' \subseteq waitq'
    BY <2>1
  <2> QED  BY <2>1, <2>2, <2>3
<1>4. ASSUME NEW p \in Procs, NEW queue \in {waitq, waitq \cup {p}},
             NEW last \in BOOLEAN, PollTest(p, queue, last)
      PROVE  PollTypeOK'
  BY <1>4 DEF PollTest
<1>5. CASE (TestProgram \/ KeyMoves) /\ UNCHANGED pollVars
  BY <1>5 DEF TestProgram, OpenBoth, BeepOpen, KeyIoctl,
     BeepIoctl, KeyMoves, pollVars
<1>6. CASE UNCHANGED boardVars
  BY <1>6 DEF boardVars
<1>7. ASSUME NEW p \in Procs,
             PollFirst(p) \/ SelectWake(p) \/ TimeOut(p)
      PROVE  PollTypeOK'
  BY <1>4, <1>7 DEF PollFirst, SelectWake, TimeOut, PollWait
<1> QED
  BY <1>1, <1>2, <1>3, <1>5, <1>6, <1>7 DEF PollNext, Process
(* Types of the driver, the beeper and the test program.                   *)
THEOREM PollTypes == PollSpec => []PollTypeOK
<1>1. PollInit => PollTypeOK
  <2> SUFFICES ASSUME PollInit PROVE PollTypeOK
    OBVIOUS
  <2>1. BeeperTypeOK
    BY DEF PollInit, BeeperInit, BeeperTypeOK
  <2>2. /\ pc \in [Procs -> {"user", "poll", "sleep", "copy", "write"}]
        /\ result \in [Procs -> {"none", "data"}]
    BY DEF PollInit
  <2>3. /\ wakes \in BOOLEAN /\ flag \in {0, 1} /\ number \in Nat
        /\ writes \in Nat
        /\ waitq \subseteq Procs /\ triggered \subseteq waitq
    BY DEF PollInit
  <2>4. unread \in BOOLEAN /\ overtaken \subseteq Procs /\ faulted \in BOOLEAN
    BY DEF PollInit
  <2> QED  BY <2>1, <2>2, <2>3, <2>4 DEF PollTypeOK
<1> QED  BY <1>1, PollTypesStep, PTL DEF PollSpec

(* A read that copies while the flag is up was overtaken by the write that *)
(* raised it.                                                              *)
RaisedMeanwhile == flag = 1 => \A p \in Procs : pc[p] = "copy" => p \in overtaken

(* A process on its way to sleep is queued.                                *)
SleeperQueued == \A p \in Procs : pc[p] = "sleep" => p \in waitq

FlagInv == FlagAccount /\ RaisedMeanwhile
SleepInv == SleeperQueued /\ NoLostWakeup

LEMMA FlagStep ==
  ASSUME PollTypeOK, FlagInv, [PollNext]_boardVars
  PROVE  FlagInv'
<1> USE DEF FlagInv, FlagAccount, RaisedMeanwhile, Collecting
<1>1. pc \in [Procs -> {"user", "poll", "sleep", "copy", "write"}]
      /\ flag \in {0, 1}
  BY DEF PollTypeOK
<1>2. ASSUME NEW p \in Procs, ReadBegins(p) PROVE FlagInv'
  <2>1. flag' = 0 /\ pc'[p] = "copy" /\ p \notin overtaken'
    BY <1>1, <1>2 DEF ReadBegins, Lowered, Goto
  <2> QED  BY <2>1
<1>3. ASSUME NEW p \in Procs, ReadEnds(p) PROVE FlagInv'
  <2>1. /\ pc[p] = "copy" /\ pc' = [pc EXCEPT ![p] = "user"]
        /\ flag' = flag /\ overtaken' = overtaken
    BY <1>3 DEF ReadEnds, Goto
  <2>2. /\ \A q \in Procs : pc'[q] = "copy" => pc[q] = "copy"
        /\ \A q \in Procs \ {p} : pc'[q] = pc[q]
    BY <1>1, <2>1
  <2>3. RaisedMeanwhile'
    BY <2>1, <2>2
  <2>4. CASE p \in overtaken
    <3>1. (unread' => unread) /\ faulted' = faulted
      BY <1>3, <2>4 DEF ReadEnds
    <3> QED  BY <2>1, <2>2, <2>3, <2>4, <3>1
  <2>5. CASE p \notin overtaken
    <3>1. flag' = 0
      BY <1>1, <2>1, <2>5
    <3>2. unread' = FALSE \/ faulted' = TRUE
      BY <1>3, <2>5 DEF ReadEnds
    <3> QED  BY <2>3, <3>1, <3>2
  <2> QED  BY <2>4, <2>5
<1>4. ASSUME NEW p \in Procs, WriteEnds(p) PROVE FlagInv'
  <2>1. /\ flag' = 1 /\ unread' = TRUE /\ pc' = [pc EXCEPT ![p] = "user"]
        /\ overtaken' = {q \in Procs : pc[q] = "copy"}
    BY <1>4 DEF WriteEnds, Raised, Goto
  <2>2. \A q \in Procs : pc'[q] = "copy" => pc[q] = "copy"
    BY <1>1, <2>1
  <2> QED  BY <2>1, <2>2
<1>5. ASSUME UNCHANGED <<flag, unread, overtaken, faulted>>,
             \A q \in Procs : pc'[q] = "copy" <=> pc[q] = "copy"
      PROVE  FlagInv'
  BY <1>5
<1>6. ASSUME NEW p \in Procs,
             \/ WriteBegins(p) \/ SelectEnter(p) \/ PollFirst(p)
             \/ SelectWake(p) \/ TimeOut(p)
      PROVE  FlagInv'
  <2>1. /\ UNCHANGED <<flag, unread, overtaken, faulted>>
        /\ pc[p] \in {"user", "poll", "sleep"}
        /\ \E l \in {"write", "poll", "user", "sleep"} : pc' = [pc EXCEPT ![p] = l]
    BY <1>6 DEF WriteBegins, SelectEnter, PollFirst,
       SelectWake, TimeOut, PollTest, Goto, history
  <2> QED  BY <1>1, <1>5, <2>1
<1>7. ASSUME \/ UNCHANGED pollVars
             \/ UNCHANGED boardVars
      PROVE  FlagInv'
  BY <1>7 DEF pollVars, boardVars, history
<1> QED  BY <1>2, <1>3, <1>4, <1>6, <1>7 DEF PollNext, Process

LEMMA FlagInvariant == PollSpec => []FlagInv
<1>1. PollInit => FlagInv
  BY DEF PollInit, FlagInv, FlagAccount, RaisedMeanwhile
<1> QED  BY <1>1, FlagStep, PollTypes, PTL DEF PollSpec

(* The flag accounts for the last number written, in both variants and for *)
(* any number of readers and writers: while it is down the number was      *)
(* read, is being read by a read that began after the write, or was lost   *)
(* to such a read that failed, and while it is up the number is new or was *)
(* written while a read was copying.                                       *)
THEOREM FlagCorrect == PollSpec => []FlagAccount
<1>1. FlagInv => FlagAccount
  BY DEF FlagInv
<1> QED  BY <1>1, FlagInvariant, PTL

(* No select ends without data over a number that nobody has read, is      *)
(* reading or has lost.                                                    *)
THEOREM EmptyHandedCorrect == PollSpec => EmptyHanded
<1> DEFINE Step ==
      \A p \in Procs :
        pc[p] = "sleep" /\ pc'[p] = "user" /\ result'[p] = "none" /\ unread
          => faulted \/ \E q \in Procs : Collecting(q)
<1>1. PollTypeOK /\ FlagInv /\ [PollNext]_boardVars => [Step]_boardVars
  <2> SUFFICES ASSUME PollTypeOK, FlagInv, PollNext,
                      NEW p \in Procs, pc[p] = "sleep", pc'[p] = "user",
                      result'[p] = "none", unread
               PROVE  faulted \/ \E q \in Procs : Collecting(q)
    OBVIOUS
  <2>1. /\ pc \in [Procs -> {"user", "poll", "sleep", "copy", "write"}]
        /\ flag \in {0, 1} /\ result \in [Procs -> {"none", "data"}]
    BY DEF PollTypeOK
  <2>2. PICK q \in Procs : Process(q)
    BY <2>1 DEF PollNext, pollVars
  <2>3. q = p
    BY <2>1, <2>2 DEF Process, ReadBegins, ReadEnds,
       WriteBegins, WriteEnds, SelectEnter, PollFirst,
       SelectWake, TimeOut, PollTest, Goto
  <2>4. \E queue, last : PollTest(p, queue, last)
    BY <2>2, <2>3 DEF Process, ReadBegins, ReadEnds,
       WriteBegins, WriteEnds, SelectEnter, PollFirst,
       SelectWake, TimeOut
  <2>5. flag = 1 => result'[p] = "data"
    BY <2>1, <2>4 DEF PollTest
  <2> QED  BY <2>1, <2>5 DEF FlagInv, FlagAccount
<1> QED  BY <1>1, PollTypes, FlagInvariant, PTL DEF PollSpec, EmptyHanded

LEMMA SleepStep ==
  ASSUME PollTypeOK, SleepInv, [PollNext]_boardVars
  PROVE  SleepInv'
<1> USE DEF SleepInv, SleeperQueued, NoLostWakeup
<1>1. /\ pc \in [Procs -> {"user", "poll", "sleep", "copy", "write"}]
      /\ flag \in {0, 1}
  BY DEF PollTypeOK
<1>2. ASSUME UNCHANGED <<wakes, waitq, triggered>>, flag' \in {0, flag},
             \A q \in Procs : pc'[q] = "sleep" => pc[q] = "sleep"
      PROVE  SleepInv'
  BY <1>2
<1>3. ASSUME NEW p \in Procs,
             \/ ReadBegins(p) \/ ReadEnds(p) \/ WriteBegins(p)
             \/ SelectEnter(p)
      PROVE  SleepInv'
  <2>1. /\ UNCHANGED <<wakes, waitq, triggered>> /\ flag' \in {0, flag}
        /\ \E l \in {"copy", "user", "write", "poll"} : pc' = [pc EXCEPT ![p] = l]
    BY <1>3 DEF ReadBegins, Lowered, ReadEnds, WriteBegins,
       SelectEnter, Goto, history
  <2> QED  BY <1>1, <1>2, <2>1
<1>4. ASSUME NEW p \in Procs, WriteEnds(p) PROVE SleepInv'
  <2>1. /\ UNCHANGED <<wakes, waitq>> /\ pc' = [pc EXCEPT ![p] = "user"]
        /\ wakes => triggered' = triggered \cup waitq
    BY <1>4 DEF WriteEnds, Woken, Goto
  <2>2. \A q \in Procs : pc'[q] = "sleep" => q \in waitq
    BY <1>1, <2>1
  <2> QED  BY <2>1, <2>2
<1>5. ASSUME NEW p \in Procs, NEW queue, NEW last,
             waitq \subseteq queue, p \in queue, PollTest(p, queue, last)
      PROVE  SleepInv'
  <2>1. /\ triggered' = triggered \ {p} /\ UNCHANGED <<wakes, flag>>
        /\ \/ pc' = [pc EXCEPT ![p] = "user"] /\ waitq' = queue \ {p}
           \/ flag # 1 /\ pc' = [pc EXCEPT ![p] = "sleep"] /\ waitq' = queue
    BY <1>5 DEF PollTest, Goto
  <2>2. \A q \in Procs \ {p} : pc'[q] = pc[q]
    BY <1>1, <2>1
  <2>3. pc'[p] = "sleep" => flag = 0 /\ p \in waitq'
    BY <1>1, <1>5, <2>1
  <2> QED  BY <1>5, <2>1, <2>2, <2>3
<1>6. ASSUME NEW p \in Procs,
             PollFirst(p) \/ SelectWake(p) \/ TimeOut(p)
      PROVE  SleepInv'
  BY <1>5, <1>6 DEF PollFirst, SelectWake, TimeOut, PollWait
<1>7. ASSUME UNCHANGED pollVars \/ UNCHANGED boardVars
      PROVE  SleepInv'
  BY <1>2, <1>7 DEF pollVars, boardVars
<1> QED  BY <1>3, <1>4, <1>6, <1>7 DEF PollNext, Process

(* In the variant that wakes nobody sleeps in select over a raised flag    *)
(* without a wake-up on its way: poll_wait comes before the test.          *)
THEOREM PollWakeupCorrect == PollSpec => []NoLostWakeup
<1>1. PollInit => SleepInv
  BY DEF PollInit, SleepInv, SleeperQueued, NoLostWakeup
<1>2. SleepInv => NoLostWakeup
  BY DEF SleepInv
<1> QED  BY <1>1, <1>2, SleepStep, PollTypes, PTL DEF PollSpec

---------------------------------------------------------------------------
(* nosemaphore.                                                            *)
USE NoSemAssumption

(* The byte a line ends with.                                              *)
EndOf(s) == s[Len(s)]

ByteValues == Procs \cup {Zero}

(* A write copies a positive count that fits; while it copies it has       *)
(* printed nothing.                                                        *)
BufferTypes ==
  /\ buff \in [1..WriteSize -> ByteValues]
  /\ at \in [Procs -> 0..WriteSize] /\ count \in [Procs -> 0..WriteSize]
  /\ line \in [Procs -> Seq(ByteValues)]
  /\ others \in [Procs -> SUBSET ByteValues]
  /\ \A p \in Procs : Writing(p) => at[p] <= count[p] /\ line[p] = <<>>

(* The bytes a write has copied so far are its own, or of others since.    *)
CopiedSoFar ==
  \A p \in Procs : Writing(p) =>
    \A i \in 1..WriteSize : i < at[p] => buff[i] \in {p} \cup others[p]

BufferInv == BufferTypes /\ CopiedSoFar /\ LineSigned

(* The line of a write that prints its own n bytes of the buffer b.        *)
LEMMA PrintedLine ==
  ASSUME NEW n \in Nat, NEW S, NEW b, \A i \in 1..n : b[i] \in S
  PROVE  /\ [i \in 1..n |-> b[i]] \in Seq(S)
         /\ Len([i \in 1..n |-> b[i]]) = n
         /\ n # 0 => EndOf([i \in 1..n |-> b[i]]) = b[n]
<1> DEFINE s == [i \in 1..n |-> b[i]]
<1>1. s \in [1..n -> S]
  OBVIOUS
<1>2. s \in Seq(S)
  BY <1>1
<1>3. DOMAIN s = 1..n /\ DOMAIN s = 1..Len(s) /\ Len(s) \in Nat
  BY <1>2
<1>4. Len(s) = n
  BY <1>3
<1>5. n # 0 => EndOf(s) = b[n]
  BY <1>4 DEF EndOf
<1> QED  BY <1>2, <1>4, <1>5

LEMMA BufferInit ==
  ASSUME WriteInit
  PROVE  BufferInv
<1>1. /\ buff = [i \in 1..WriteSize |-> Zero]
      /\ at = [p \in Procs |-> 0] /\ count = [p \in Procs |-> 0]
      /\ line = [p \in Procs |-> <<>>] /\ others = [p \in Procs |-> {}]
  BY DEF WriteInit
<1>2. \A p \in Procs : ~Writing(p) /\ line[p] = <<>>
  BY <1>1 DEF Writing
<1>3. buff \in [1..WriteSize -> ByteValues]
  BY <1>1 DEF ByteValues
<1>4. at \in [Procs -> 0..WriteSize] /\ count \in [Procs -> 0..WriteSize]
  BY <1>1, SMT
<1>5. <<>> \in Seq(ByteValues)
  OBVIOUS
<1>6. line \in [Procs -> Seq(ByteValues)] /\ others \in [Procs -> SUBSET ByteValues]
  BY <1>1, <1>5
<1>7. BufferTypes
  BY <1>2, <1>3, <1>4, <1>6 DEF BufferTypes
<1>8. DOMAIN <<>> = {}
  OBVIOUS
<1> QED  BY <1>2, <1>7, <1>8 DEF BufferInv, CopiedSoFar, LineSigned

(* A write that begins has printed nothing and copied nothing.             *)
LEMMA BufferEnter ==
  ASSUME BufferInv, NEW p \in Procs, WriteEnter(p)
  PROVE  BufferInv'
<1>1. PICK n \in Sizes \ {0}, o \in Positions :
        o < WriteSize /\ count' = [count EXCEPT ![p] = Count(n, o)]
  BY DEF WriteEnter
<1>2. /\ at' = [at EXCEPT ![p] = 1] /\ others' = [others EXCEPT ![p] = {}]
      /\ line' = [line EXCEPT ![p] = <<>>] /\ buff' = buff
  BY DEF WriteEnter
<1>3. Count(n, o) \in 1..WriteSize
  BY <1>1 DEF Count
<1>4. \A q \in Procs :
        /\ at'[q] = IF q = p THEN 1 ELSE at[q]
        /\ count'[q] = IF q = p THEN Count(n, o) ELSE count[q]
        /\ line'[q] = IF q = p THEN <<>> ELSE line[q]
        /\ others'[q] = IF q = p THEN {} ELSE others[q]
  BY <1>1, <1>2 DEF BufferInv, BufferTypes
<1>5. BufferTypes'
  <2>1. at' \in [Procs -> 0..WriteSize] /\ count' \in [Procs -> 0..WriteSize]
    BY <1>1, <1>2, <1>3 DEF BufferInv, BufferTypes
  <2>2. line' \in [Procs -> Seq(ByteValues)]
        /\ others' \in [Procs -> SUBSET ByteValues]
    BY <1>2 DEF BufferInv, BufferTypes
  <2>3. ASSUME NEW q \in Procs, Writing(q)'
        PROVE  at'[q] <= count'[q] /\ line'[q] = <<>>
    BY <1>3, <1>4, <2>3 DEF BufferInv, BufferTypes, Writing
  <2> QED  BY <1>2, <2>1, <2>2, <2>3 DEF BufferInv, BufferTypes
<1>6. CopiedSoFar'
  <2> SUFFICES ASSUME NEW q \in Procs, Writing(q)', NEW i \in 1..WriteSize,
                      i < at'[q]
               PROVE  buff'[i] \in {q} \cup others'[q]
    BY DEF CopiedSoFar
  <2>1. q # p
    BY <1>4
  <2> QED  BY <1>2, <1>4, <2>1 DEF BufferInv, CopiedSoFar, Writing
<1>7. LineSigned'
  <2> SUFFICES ASSUME NEW q \in Procs
               PROVE  /\ \A i \in DOMAIN line'[q] : line'[q][i] \in {q} \cup others'[q]
                      /\ line'[q] # <<>> => EndOf(line'[q]) \in {q, Zero}
    BY DEF LineSigned, EndOf
  <2>1. CASE q = p
    BY <1>4, <2>1
  <2>2. CASE q # p
    BY <1>4, <2>2 DEF BufferInv, LineSigned, EndOf
  <2> QED  BY <2>1, <2>2
<1> QED  BY <1>5, <1>6, <1>7 DEF BufferInv

(* A store by p into the bytes from lo on, its own number or Zero for a    *)
(* fault: whoever else is writing notes it.                                *)
LEMMA OthersKeep ==
  ASSUME BufferInv, NEW p \in Procs, NEW v \in {p, Zero}, NEW q \in Procs, q # p,
         \A i \in 1..WriteSize : buff'[i] \in {v, buff[i]},
         at'[q] = at[q], count'[q] = count[q], line'[q] = line[q],
         others'[q] = IF Writing(q) THEN others[q] \cup {v} ELSE others[q]
  PROVE  /\ Writing(q)' => at'[q] <= count'[q] /\ line'[q] = <<>>
         /\ Writing(q)' => \A i \in 1..WriteSize :
                                    i < at'[q] => buff'[i] \in {q} \cup others'[q]
         /\ \A i \in DOMAIN line'[q] : line'[q][i] \in {q} \cup others'[q]
         /\ line'[q] # <<>> => EndOf(line'[q]) \in {q, Zero}
<1>1. Writing(q)' <=> Writing(q)
  BY DEF Writing
<1>2. Writing(q) => at[q] <= count[q] /\ line[q] = <<>>
  BY DEF BufferInv, BufferTypes
<1>3. ASSUME Writing(q), NEW i \in 1..WriteSize, i < at[q]
      PROVE  buff'[i] \in {q} \cup others'[q]
  <2>1. buff[i] \in {q} \cup others[q]
    BY <1>3 DEF BufferInv, CopiedSoFar
  <2> QED  BY <1>3, <2>1
<1>4. /\ \A i \in DOMAIN line[q] : line[q][i] \in {q} \cup others[q]
      /\ line[q] # <<>> => EndOf(line[q]) \in {q, Zero}
  BY DEF BufferInv, LineSigned, EndOf
<1> QED  BY <1>1, <1>2, <1>3, <1>4

(* The writer itself, in the step that prints.                             *)
LEMMA PrinterKeeps ==
  ASSUME BufferInv, NEW p \in Procs, Writing(p),
         at'[p] = 0, line'[p] = [i \in 1..count[p] |-> buff'[i]],
         \A i \in 1..count[p] : buff'[i] \in {p} \cup others'[p],
         buff'[count[p]] \in {p, Zero},
         others'[p] \subseteq ByteValues
  PROVE  /\ line'[p] \in Seq(ByteValues) /\ ~Writing(p)'
         /\ \A i \in DOMAIN line'[p] : line'[p][i] \in {p} \cup others'[p]
         /\ EndOf(line'[p]) \in {p, Zero}
<1>1. count[p] \in Nat /\ count[p] # 0
  BY DEF BufferInv, BufferTypes, Writing
<1>2. \A i \in 1..count[p] : buff'[i] \in ByteValues
  BY DEF ByteValues
<1>3. /\ line'[p] \in Seq(ByteValues)
      /\ EndOf(line'[p]) = buff'[count[p]]
  BY <1>1, <1>2, PrintedLine
<1> QED  BY <1>3 DEF Writing

(* A store by p, whatever its value v, keeps the invariant if p itself     *)
(* keeps its part: it either still copies or prints.                       *)
LEMMA StoreKeeps ==
  ASSUME BufferInv, NEW p \in Procs, NEW v \in {p, Zero},
         buff' \in [1..WriteSize -> ByteValues],
         \A i \in 1..WriteSize : buff'[i] \in {v, buff[i]},
         count' = count,
         \E a \in 0..WriteSize : at' = [at EXCEPT ![p] = a],
         \E l \in Seq(ByteValues) : line' = [line EXCEPT ![p] = l],
         others' \in [Procs -> SUBSET ByteValues],
         \A q \in Procs \ {p} :
           others'[q] = IF Writing(q) THEN others[q] \cup {v} ELSE others[q],
         Writing(p)' =>
           /\ at'[p] <= count'[p] /\ line'[p] = <<>>
           /\ \A i \in 1..WriteSize : i < at'[p] => buff'[i] \in {p} \cup others'[p],
         \A i \in DOMAIN line'[p] : line'[p][i] \in {p} \cup others'[p],
         line'[p] # <<>> => EndOf(line'[p]) \in {p, Zero}
  PROVE  BufferInv'
<1>1. /\ at' \in [Procs -> 0..WriteSize] /\ line' \in [Procs -> Seq(ByteValues)]
      /\ count' \in [Procs -> 0..WriteSize]
      /\ \A q \in Procs \ {p} : at'[q] = at[q] /\ line'[q] = line[q]
  BY DEF BufferInv, BufferTypes
<1>2. ASSUME NEW q \in Procs
      PROVE  /\ Writing(q)' => at'[q] <= count'[q] /\ line'[q] = <<>>
             /\ Writing(q)' => \A i \in 1..WriteSize :
                                        i < at'[q] => buff'[i] \in {q} \cup others'[q]
             /\ \A i \in DOMAIN line'[q] : line'[q][i] \in {q} \cup others'[q]
             /\ line'[q] # <<>> => EndOf(line'[q]) \in {q, Zero}
  <2>1. CASE q = p
    BY <2>1
  <2>2. CASE q # p
    <3>1. /\ at'[q] = at[q] /\ count'[q] = count[q] /\ line'[q] = line[q]
          /\ others'[q] = IF Writing(q) THEN others[q] \cup {v} ELSE others[q]
      BY <1>1, <2>2
    <3> QED  BY <2>2, <3>1, OthersKeep
  <2> QED  BY <2>1, <2>2
<1>3. BufferTypes'
  BY <1>1, <1>2 DEF BufferTypes
<1>4. CopiedSoFar'
  BY <1>2 DEF CopiedSoFar
<1>5. LineSigned'
  BY <1>2 DEF LineSigned, EndOf
<1> QED  BY <1>3, <1>4, <1>5 DEF BufferInv

(* One more byte copied: the last one is the writer's own when it prints.  *)
LEMMA BufferCopy ==
  ASSUME BufferInv, NEW p \in Procs, CopyByte(p)
  PROVE  BufferInv'
<1>1. /\ Writing(p) /\ count' = count
      /\ buff' = [buff EXCEPT ![at[p]] = p]
      /\ others' = [q \in Procs |-> IF q # p /\ Writing(q)
                                    THEN others[q] \cup {p} ELSE others[q]]
  BY DEF CopyByte
<1>2. /\ at[p] \in 1..count[p] /\ count[p] \in 1..WriteSize /\ line[p] = <<>>
      /\ buff \in [1..WriteSize -> ByteValues] /\ at \in [Procs -> 0..WriteSize]
      /\ line \in [Procs -> Seq(ByteValues)]
      /\ others \in [Procs -> SUBSET ByteValues]
  BY <1>1 DEF BufferInv, BufferTypes, Writing
<1>3. /\ buff' \in [1..WriteSize -> ByteValues] /\ buff'[at[p]] = p
      /\ \A i \in 1..WriteSize : buff'[i] \in {p, buff[i]}
  BY <1>1, <1>2 DEF ByteValues
<1>4. /\ others' \in [Procs -> SUBSET ByteValues] /\ others'[p] = others[p]
      /\ \A q \in Procs \ {p} :
           others'[q] = IF Writing(q) THEN others[q] \cup {p} ELSE others[q]
  BY <1>1, <1>2 DEF ByteValues
<1>5. \A i \in 1..WriteSize : i <= at[p] => buff'[i] \in {p} \cup others'[p]
  <2> SUFFICES ASSUME NEW i \in 1..WriteSize, i <= at[p]
               PROVE  buff'[i] \in {p} \cup others'[p]
    OBVIOUS
  <2>1. CASE i = at[p]
    BY <1>3, <2>1
  <2>2. CASE i < at[p]
    BY <1>1, <1>3, <1>4, <2>2 DEF BufferInv, CopiedSoFar
  <2> QED  BY <1>2, <2>1, <2>2
<1>6. CASE Copied(p)
  <2>1. /\ at' = [at EXCEPT ![p] = 0] /\ at[p] = count[p]
        /\ line' = [line EXCEPT ![p] = [i \in 1..count[p] |-> buff'[i]]]
    BY <1>6 DEF CopyByte, PrintLine, Copied
  <2>2. at'[p] = 0 /\ line'[p] = [i \in 1..count[p] |-> buff'[i]]
    BY <1>2, <2>1
  <2>3. /\ \A i \in 1..count[p] : buff'[i] \in {p} \cup others'[p]
        /\ buff'[count[p]] \in {p, Zero} /\ others'[p] \subseteq ByteValues
    <3>1. \A i \in 1..count[p] : i \in 1..WriteSize /\ i <= at[p]
      BY <1>2, <2>1
    <3>2. \A i \in 1..count[p] : buff'[i] \in {p} \cup others'[p]
      BY <1>5, <3>1
    <3>3. buff'[count[p]] \in {p, Zero}
      BY <1>3, <2>1
    <3>4. others'[p] \subseteq ByteValues
      BY <1>4
    <3> QED  BY <3>2, <3>3, <3>4
  <2>4. /\ line'[p] \in Seq(ByteValues) /\ ~Writing(p)'
        /\ \A i \in DOMAIN line'[p] : line'[p][i] \in {p} \cup others'[p]
        /\ EndOf(line'[p]) \in {p, Zero}
    BY <1>1, <2>2, <2>3, PrinterKeeps
  <2>5. /\ \E a \in 0..WriteSize : at' = [at EXCEPT ![p] = a]
        /\ \E l \in Seq(ByteValues) : line' = [line EXCEPT ![p] = l]
    <3>1. 0 \in 0..WriteSize
      OBVIOUS
    <3>2. line' = [line EXCEPT ![p] = line'[p]]
      BY <2>1, <2>2
    <3> QED  BY <2>1, <2>4, <3>1, <3>2
  <2> QED  BY <1>1, <1>3, <1>4, <2>4, <2>5, StoreKeeps
<1>7. CASE ~Copied(p)
  <2>1. at' = [at EXCEPT ![p] = at[p] + 1] /\ line' = line /\ at[p] # count[p]
    BY <1>7 DEF CopyByte, Copied
  <2>2. /\ at'[p] = at[p] + 1 /\ at[p] + 1 \in 0..WriteSize
        /\ at'[p] <= count'[p] /\ line'[p] = <<>>
    <3>1. at'[p] = at[p] + 1 /\ line'[p] = <<>>
      BY <1>2, <2>1
    <3>2. at[p] + 1 \in 0..WriteSize /\ at[p] + 1 <= count[p]
      BY <1>2, <2>1
    <3> QED  BY <1>1, <3>1, <3>2
  <2>3. \A i \in 1..WriteSize : i < at'[p] => buff'[i] \in {p} \cup others'[p]
    BY <1>2, <1>5, <2>2
  <2>4. /\ \E a \in 0..WriteSize : at' = [at EXCEPT ![p] = a]
        /\ \E l \in Seq(ByteValues) : line' = [line EXCEPT ![p] = l]
    <3>1. line' = [line EXCEPT ![p] = line[p]] /\ line[p] \in Seq(ByteValues)
      BY <1>2, <2>1
    <3> QED  BY <2>1, <2>2, <3>1
  <2>5. \A i \in DOMAIN line'[p] : line'[p][i] \in {p} \cup others'[p]
    BY <2>2
  <2> QED  BY <1>1, <1>3, <1>4, <2>2, <2>3, <2>4, <2>5, StoreKeeps
<1> QED  BY <1>6, <1>7

(* A fault: the rest of the count is cleared and the line printed.         *)
LEMMA BufferFault ==
  ASSUME BufferInv, NEW p \in Procs, CopyFault(p)
  PROVE  BufferInv'
<1>1. /\ Writing(p) /\ count' = count
      /\ buff' = [i \in 1..WriteSize |->
                    IF i \in at[p]..count[p] THEN Zero ELSE buff[i]]
      /\ others' = [q \in Procs |-> IF Writing(q)
                                    THEN others[q] \cup {Zero} ELSE others[q]]
      /\ line' = [line EXCEPT ![p] = [i \in 1..count[p] |-> buff'[i]]]
      /\ at' = [at EXCEPT ![p] = 0]
  BY DEF CopyFault, PrintLine
<1>2. /\ at[p] \in 1..count[p] /\ count[p] \in 1..WriteSize
      /\ buff \in [1..WriteSize -> ByteValues] /\ at \in [Procs -> 0..WriteSize]
      /\ line \in [Procs -> Seq(ByteValues)]
      /\ others \in [Procs -> SUBSET ByteValues]
  BY <1>1 DEF BufferInv, BufferTypes, Writing
<1>3. /\ buff' \in [1..WriteSize -> ByteValues] /\ buff'[count[p]] = Zero
      /\ \A i \in 1..WriteSize : buff'[i] \in {Zero, buff[i]}
  BY <1>1, <1>2 DEF ByteValues
<1>4. /\ others' \in [Procs -> SUBSET ByteValues]
      /\ others'[p] = others[p] \cup {Zero}
      /\ \A q \in Procs \ {p} :
           others'[q] = IF Writing(q) THEN others[q] \cup {Zero} ELSE others[q]
  BY <1>1, <1>2 DEF ByteValues
<1>5. \A i \in 1..count[p] : buff'[i] \in {p} \cup others'[p]
  <2> SUFFICES ASSUME NEW i \in 1..count[p]
               PROVE  buff'[i] \in {p} \cup others'[p]
    OBVIOUS
  <2>0. i \in 1..WriteSize
    BY <1>2
  <2>1. CASE i < at[p]
    <3>1. buff[i] \in {p} \cup others[p]
      BY <1>1, <2>0, <2>1 DEF BufferInv, CopiedSoFar
    <3> QED  BY <1>3, <1>4, <2>0, <3>1
  <2>2. CASE i >= at[p]
    BY <1>1, <1>2, <1>4, <2>0, <2>2
  <2> QED  BY <1>2, <2>1, <2>2
<1>6. at'[p] = 0 /\ line'[p] = [i \in 1..count[p] |-> buff'[i]]
  BY <1>1, <1>2
<1>7. others'[p] \subseteq ByteValues
  BY <1>4
<1>8. /\ line'[p] \in Seq(ByteValues) /\ ~Writing(p)'
      /\ \A i \in DOMAIN line'[p] : line'[p][i] \in {p} \cup others'[p]
      /\ EndOf(line'[p]) \in {p, Zero}
  BY <1>1, <1>3, <1>5, <1>6, <1>7, PrinterKeeps
<1>9. /\ \E a \in 0..WriteSize : at' = [at EXCEPT ![p] = a]
      /\ \E l \in Seq(ByteValues) : line' = [line EXCEPT ![p] = l]
  <2>1. 0 \in 0..WriteSize
    OBVIOUS
  <2>2. line' = [line EXCEPT ![p] = line'[p]]
    BY <1>1, <1>6
  <2> QED  BY <1>1, <1>8, <2>1, <2>2
<1> QED  BY <1>1, <1>3, <1>4, <1>8, <1>9, StoreKeeps

(* A line of nosemaphore tells who wrote it: its last byte is its writer's *)
(* own, or the zero of a fault, and every other byte was stored during     *)
(* that very write, however many writers overlap.                          *)
THEOREM SignedCorrect == WriteSpec => []LineSigned
<1>1. WriteInit => BufferInv
  BY BufferInit
<1>2. BufferInv /\ [WriteNext]_writeVars => BufferInv'
  <2>1. ASSUME BufferInv, UNCHANGED writeVars PROVE BufferInv'
    BY <2>1 DEF writeVars, BufferInv, BufferTypes, CopiedSoFar,
       LineSigned, Writing, EndOf
  <2> QED  BY <2>1, BufferEnter, BufferCopy, BufferFault DEF WriteNext
<1>3. BufferInv => LineSigned
  BY DEF BufferInv
<1> QED  BY <1>1, <1>2, <1>3, PTL DEF WriteSpec
============================================================================
