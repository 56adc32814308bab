------------------------------ MODULE PanFcntl ------------------------------
(***************************************************************************)
(* The pan_fcntl driver: MemDevice with asynchronous notification.  A file *)
(* with FASYNC set is on the driver's async_queue, write sends SIGIO to    *)
(* the queue's owners, and release takes the file off the queue.           *)
(***************************************************************************)
EXTENDS MemDevice

VARIABLES
  async,      \* the files on async_queue
  stale       \* history: of those, the ones a write changed the memory for
              \* since their last SIGIO

vars == <<open, pos, mem, call, async, stale>>

Init == MemInit /\ async = {} /\ stale = {}

(* fcntl(F_SETFL): fasync_helper.                                          *)
SetAsync(f) ==
  /\ f \in open
  /\ async' = async \cup {f}
  /\ UNCHANGED <<open, pos, mem, call, stale>>

ClearAsync(f) ==
  /\ f \in open
  /\ async' = async \ {f} /\ stale' = stale \ {f}
  /\ UNCHANGED <<open, pos, mem, call>>

OffQueue_Not(f) == async           \* mutant: release leaves the file queued
OffQueue(f) == async \ {f}

FcntlRelease(f) ==
  /\ Release(f)
  /\ async' = OffQueue(f) /\ stale' = stale \ {f}

(* write: every subscriber is behind until kill_fasync, which write comes  *)
(* to whether or not its copy succeeded.                                   *)
Behind_Success(p) == stale \cup async \* mutant: no SIGIO after -EFAULT
Behind(p) == {}

WriteOn(p) ==
  /\ WriteByte(p)
  /\ stale' = IF Last(p) THEN {} ELSE stale \cup async
  /\ UNCHANGED async

WriteFails(p) ==
  /\ WriteFault(p)
  /\ stale' = Behind(p)
  /\ UNCHANGED async

(* A write of no bytes inside the memory sends SIGIO all the same.         *)
EmptyWrite(p) ==
  /\ ~InCall(p) /\ open # {} /\ 0 \in Counts
  /\ \E start \in {pos[f] : f \in open} \cup {Truncated(o) : o \in Offsets \cap Nat} :
       start < Size
  /\ stale' = {}
  /\ UNCHANGED <<open, pos, mem, call, async>>

Next ==
  \/ \E f \in Files :
       \/ SetAsync(f) \/ ClearAsync(f) \/ FcntlRelease(f)
       \/ /\ Open(f) \/ MemClear(f) \/ \E offset \in Offsets : Seek(f, offset)
          /\ UNCHANGED <<async, stale>>
  \/ \E p \in Procs :
       \/ WriteOn(p) \/ WriteFails(p) \/ EmptyWrite(p)
       \/ /\ EnterAt(p, "read") \/ EnterAt(p, "write")
             \/ ReadByte(p) \/ ReadFault(p)
          /\ UNCHANGED <<async, stale>>

Spec == Init /\ [][Next]_vars

---------------------------------------------------------------------------
TypeOK == MemTypeOK /\ async \subseteq Files /\ stale \subseteq Files

(* async_queue names only open files: no SIGIO goes to a file that is      *)
(* gone, although a copy may sleep while others open, fork and close.      *)
QueueOpen == async \subseteq open

(* No change by a write stays unannounced: a subscriber that has not been  *)
(* sent SIGIO since the memory changed has a write on its way that will    *)
(* send it, also when that write fails half way.                           *)
Announced ==
  stale # {} => \E p \in Procs : InCall(p) /\ call[p].op = "write"
============================================================================
