----------------------------- MODULE MemDevice -----------------------------
(***************************************************************************)
(* The globalmem driver: a block of kernel memory that processes read,     *)
(* write, seek in and clear.  pan_fcntl is the same driver with SIGIO, and *)
(* EXTENDS this module.  Nothing is locked.  A system call reads the file  *)
(* position into a local one, passes it to the driver, and stores it back  *)
(* when the driver returns, also after an error; pread and pwrite pass an  *)
(* offset of their own and store nothing.  copy_to_user and copy_from_user *)
(* may sleep before any byte, everything else a call does is one stretch   *)
(* that no other process can enter (a uniprocessor without preemption).    *)
(***************************************************************************)
EXTENDS Processes, Integers, FiniteSets

CONSTANTS
  Files,      \* open file descriptions; threads may share them
  Size,       \* GLOBALMEM_SIZE, 0x1000
  Word,       \* 2^32: what an unsigned long or unsigned int can hold
  Offsets,    \* the 64-bit offsets of pread, pwrite and llseek
  Counts      \* the byte counts of read and write

ASSUME MemAssumption ==
  /\ Size \in Nat \ {0} /\ Word \in Nat /\ Size < Word
  /\ Offsets \subseteq Int
  /\ Counts \subseteq 0..(Word - 1)

VARIABLES
  open,       \* the files that are open
  pos,        \* f_pos of each file
  mem,        \* per byte: who wrote it, or "zero"
  call        \* the copy each thread is in

memVars == <<open, pos, mem, call>>

Bytes == 0..(Size - 1)
NoCall == [op |-> "none"]

(* at: the local position; own: it is stored back into the file; len: the  *)
(* count after the driver cut it; done: bytes copied.                      *)
Calls == [op : {"read", "write"}, file : Files, own : BOOLEAN,
          at : Nat, len : 1..Size, done : Bytes]

MemInit ==
  /\ open = {}
  /\ pos = [f \in Files |-> 0]
  /\ mem = [b \in Bytes |-> "zero"]
  /\ call = [p \in Procs |-> NoCall]

InCall(p) == call[p] # NoCall

(* "unsigned long p = *ppos": 64 bits of offset become 32 of index.        *)
Truncated(offset) == offset % Word

Open(f) ==
  /\ f \notin open
  /\ open' = open \cup {f}
  /\ pos' = [pos EXCEPT ![f] = 0]
  /\ UNCHANGED <<mem, call>>

(* A call in progress holds the file.                                      *)
Release(f) ==
  /\ f \in open
  /\ \A p \in Procs : InCall(p) => call[p].file # f
  /\ open' = open \ {f}
  /\ UNCHANGED <<pos, mem, call>>

(* ioctl MEM_CLEAR.                                                        *)
MemClear(f) ==
  /\ f \in open
  /\ mem' = [b \in Bytes |-> "zero"]
  /\ UNCHANGED <<open, pos, call>>

(* llseek: an offset from the start is cut to 32 bits and must then not be *)
(* beyond the end; an offset from the current position must stay inside.   *)
SeekSetTo(offset) == IF offset < 0 THEN {} ELSE {Truncated(offset)} \cap 0..Size
SeekCurTo_High(f, offset) ==       \* mutant: the test for < 0 is missing
  {i \in {pos[f] + offset} : i <= Size}
SeekCurTo(f, offset) == {pos[f] + offset} \cap 0..Size

Seek(f, offset) ==
  /\ f \in open
  /\ \E target \in SeekSetTo(offset) \cup SeekCurTo(f, offset) :
       pos' = [pos EXCEPT ![f] = target]
  /\ UNCHANGED <<open, mem, call>>

---------------------------------------------------------------------------
(* read and write.                                                         *)

(* "if (count > SIZE - p) count = SIZE - p"                                *)
Cut_Whole(start, n) == IF n > Size THEN Size ELSE n \* mutant: SIZE for SIZE - p
Cut(start, n) == IF n > Size - start THEN Size - start ELSE n

(* A position at or beyond the end ends the call (-ENXIO or 0) with        *)
(* nothing changed, so only the others are steps.                          *)
Enter(p, op, f, at, own, n) ==
  LET start == Truncated(at)
      len == Cut(start, n)
  IN
  /\ ~InCall(p) /\ f \in open
  /\ start < Size /\ len > 0
  /\ call' = [call EXCEPT ![p] = [op |-> op, file |-> f, own |-> own,
                                  at |-> at, len |-> len, done |-> 0]]
  /\ UNCHANGED <<open, pos, mem>>

(* read and write use the file's position, pread and pwrite an offset.     *)
EnterAt(p, op) ==
  \E f \in Files, n \in Counts :
    \/ Enter(p, op, f, pos[f], TRUE, n)
    \/ \E offset \in Offsets : offset >= 0 /\ Enter(p, op, f, offset, FALSE, n)

(* The system call stores the local position, moved by what was copied.    *)
Return(p, moved) ==
  /\ pos' = IF call[p].own
              THEN [pos EXCEPT ![call[p].file] = call[p].at + moved] ELSE pos
  /\ call' = [call EXCEPT ![p] = NoCall]

Index(p) == Truncated(call[p].at) + call[p].done
Last(p) == call[p].done + 1 = call[p].len

CopyOn(p) ==
  IF Last(p) THEN Return(p, call[p].len)
  ELSE call' = [call EXCEPT ![p].done = @ + 1] /\ UNCHANGED pos

ReadByte(p) ==
  /\ InCall(p) /\ call[p].op = "read"
  /\ CopyOn(p)
  /\ UNCHANGED <<open, mem>>

WriteByte(p) ==
  /\ InCall(p) /\ call[p].op = "write"
  /\ mem' = [mem EXCEPT ![Index(p)] = p]
  /\ CopyOn(p)
  /\ UNCHANGED open

(* The caller's page is not there: -EFAULT.  copy_from_user then clears    *)
(* what it did not copy.                                                   *)
ReadFault(p) ==
  /\ InCall(p) /\ call[p].op = "read"
  /\ Return(p, 0)
  /\ UNCHANGED <<open, mem>>

WriteFault(p) ==
  /\ InCall(p) /\ call[p].op = "write"
  /\ mem' = [b \in Bytes |->
               IF Index(p) <= b /\ b < Truncated(call[p].at) + call[p].len
                 THEN "zero" ELSE mem[b]]
  /\ Return(p, 0)
  /\ UNCHANGED open

MemNext ==
  \/ \E f \in Files :
       \/ Open(f) \/ Release(f) \/ MemClear(f)
       \/ \E offset \in Offsets : Seek(f, offset)
  \/ \E p \in Procs :
       \/ EnterAt(p, "read") \/ EnterAt(p, "write")
       \/ ReadByte(p) \/ WriteByte(p) \/ ReadFault(p) \/ WriteFault(p)

MemSpec == MemInit /\ [][MemNext]_memVars

---------------------------------------------------------------------------
(* Types; the position of a file stays between the start and the end of    *)
(* the memory, whatever seeks and calls on a shared file store into it.    *)
MemTypeOK ==
  /\ open \subseteq Files
  /\ pos \in [Files -> 0..Size]
  /\ mem \in [Bytes -> Procs \cup {"zero"}]
  /\ call \in [Procs -> Calls \cup {NoCall}]

(* Every byte a call still has to copy is inside the memory, also for      *)
(* offsets beyond 32 bits.                                                 *)
InBounds ==
  \A p \in Procs : InCall(p) =>
    /\ Truncated(call[p].at) + call[p].len <= Size
    /\ call[p].done < call[p].len

(* A call in progress works on an open file, so release, which takes the   *)
(* file off the SIGIO list, never runs beside one.                         *)
CallsOpen == \A p \in Procs : InCall(p) => call[p].file \in open

(* A position that will be stored back was inside the memory when read.    *)
OwnInside == \A p \in Procs : InCall(p) /\ call[p].own => call[p].at < Size
============================================================================
