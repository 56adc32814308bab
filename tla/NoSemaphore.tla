---------------------------- MODULE NoSemaphore ----------------------------
(***************************************************************************)
(* The nosemaphore driver: write copies the caller's bytes into the one    *)
(* buffer of the driver and prints the buffer, with no semaphore around    *)
(* the two.  copy_from_user may sleep on a page fault before any byte it   *)
(* fetches; the loop of printk never sleeps.  All the bytes of a process   *)
(* are its own number, as in the test program, so a byte is here the       *)
(* process that wrote it, or the Zero that the kernel stores for a byte it *)
(* cannot fetch.                                                           *)
(***************************************************************************)
EXTENDS Processes, Integers, Sequences

CONSTANTS
  Zero,       \* the byte 0
  WriteSize,  \* WRITE_SIZE, the length of the buffer
  Sizes,      \* the lengths that write is called with
  Positions   \* the positions that write and pwrite are called with

ASSUME NoSemAssumption ==
  /\ Zero \notin Procs /\ WriteSize \in Nat \ {0}
  /\ Sizes \subseteq Nat /\ Positions \subseteq Nat

VARIABLES
  buff,    \* the buffer of the driver
  at,      \* per process: the byte its write copies next, 0 outside write
  count,   \* per process: how many bytes its write copies and prints
  line,    \* per process: what its last write printed, <<>> until it does
  others   \* history, per process: what was stored during its last write,
           \* by other processes or because of a fault

writeVars == <<buff, at, count, line, others>>

WriteInit ==
  /\ buff = [i \in 1..WriteSize |-> Zero]
  /\ at = [p \in Procs |-> 0] /\ count = [p \in Procs |-> 0]
  /\ line = [p \in Procs |-> <<>>]
  /\ others = [p \in Procs |-> {}]

Writing(p) == at[p] # 0

(* The position shortens the write, but the bytes go to the start of the   *)
(* buffer.  At WRITE_SIZE or beyond it, write refuses; it never moves the  *)
(* position.                                                               *)
Count(n, o) == IF n > WriteSize - o THEN WriteSize - o ELSE n

WriteEnter(p) ==
  /\ ~Writing(p)
  /\ \E n \in Sizes \ {0}, o \in Positions :
       /\ o < WriteSize
       /\ count' = [count EXCEPT ![p] = Count(n, o)]
  /\ at' = [at EXCEPT ![p] = 1]
  /\ others' = [others EXCEPT ![p] = {}]
  /\ line' = [line EXCEPT ![p] = <<>>]
  /\ UNCHANGED buff

(* Print and return, in the step of the last byte.                         *)
PrintLine(p) ==
  /\ line' = [line EXCEPT ![p] = [i \in 1..count[p] |-> buff'[i]]]
  /\ at' = [at EXCEPT ![p] = 0]

Copied_Short(p) == at[p] + 1 >= count[p] \* mutant: one byte is not copied
Copied(p) == at[p] = count[p]

CopyByte(p) ==
  /\ Writing(p)
  /\ buff' = [buff EXCEPT ![at[p]] = p]
  /\ others' = [q \in Procs |->
                  IF q # p /\ Writing(q) THEN others[q] \cup {p} ELSE others[q]]
  /\ IF Copied(p)
       THEN PrintLine(p)
       ELSE at' = [at EXCEPT ![p] = @ + 1] /\ UNCHANGED line
  /\ UNCHANGED count

(* The kernel clears what it could not fetch.  write notes the error in a  *)
(* variable nobody reads, and goes on to print.                            *)
CopyFault(p) ==
  /\ Writing(p)
  /\ buff' = [i \in 1..WriteSize |->
                IF i \in at[p]..count[p] THEN Zero ELSE buff[i]]
  /\ others' = [q \in Procs |->
                  IF Writing(q) THEN others[q] \cup {Zero} ELSE others[q]]
  /\ PrintLine(p)
  /\ UNCHANGED count

WriteNext == \E p \in Procs : WriteEnter(p) \/ CopyByte(p) \/ CopyFault(p)

WriteSpec == WriteInit /\ [][WriteNext]_writeVars

---------------------------------------------------------------------------
(* What a line shows: bytes of its writer, and of processes that stored    *)
(* theirs during the very write that printed it, never those of an earlier *)
(* write; and, as no process runs between the last byte and the printing,  *)
(* its last byte is the writer's own, however many others overlapped.  So  *)
(* each line tells who wrote it, and a writer alone prints whole lines.    *)
LineSigned ==
  \A p \in Procs :
    /\ \A i \in DOMAIN line[p] : line[p][i] \in {p} \cup others[p]
    /\ line[p] # <<>> => line[p][Len(line[p])] \in {p, Zero}
============================================================================
