------------------------------- MODULE PanIrq -------------------------------
(***************************************************************************)
(* The pan_irq driver: ButtonCore's lines and counters, ButtonSelect's     *)
(* select, and the interrupt handler pan_irq_interrupt that counts, raises *)
(* the flag and wakes the queue.                                           *)
(***************************************************************************)
EXTENDS ButtonSelect

vars == <<cpu, pc, idx, irq, values, ev_press, want, buf,
          presses, delivered, late, waitq, triggered>>

Init == CoreInit /\ SelectInit

Interrupt(k) ==
  /\ CountPress(k)
  /\ ev_press' = 1
  /\ triggered' = triggered \cup Woken
  /\ UNCHANGED waitq

Read(p) ==
  /\ Running(p) /\ pc[p] = "user"
  /\ \E n \in ReadSizes : ReadBody(p, n)
  /\ UNCHANGED waitVars

(* What p does of its own accord, and what it does once in the kernel.     *)
Choice(p) ==
  \/ (OpenEnter(p) \/ Close(p)) /\ UNCHANGED waitVars
  \/ (\E q \in Procs : Fork(p, q)) /\ UNCHANGED waitVars
  \/ Read(p) \/ SelectEnter(p)

Kernel(p) ==
  \/ /\ \/ RequestIrq(p) \/ RequestFails(p) \/ Unwind(p) \/ FreeIrq(p)
        \/ CopyKey(p) \/ CopyFault(p) \/ ClearKey(p)
     /\ UNCHANGED waitVars
  \/ PollRegister(p) \/ PollReady(p) \/ PollNotReady(p) \/ SelectWake(p)

Environment ==
  \E k \in Keys : \/ Interrupt(k)
                  \/ (OtherTakes(k) \/ OtherFrees(k)) /\ UNCHANGED waitVars

Next ==
  \/ \E p \in Procs : Choice(p) \/ Kernel(p) \/ SelectInterrupted(p)
  \/ Environment

Spec == Init /\ [][Next]_vars

(* The scheduler starves no runnable process: one that can take its next   *)
(* kernel step again and again takes it.                                   *)
FairSpec == Spec /\ \A p \in Procs : SF_vars(Kernel(p))

---------------------------------------------------------------------------
(* Every variable keeps its type, and the loop indices stay inside the     *)
(* tables their loops run over.                                            *)
TypeOK == CoreTypeOK /\ waitq \subseteq Procs /\ triggered \subseteq Procs

(* A press that nobody is collecting ends the sleep of every select.       *)
(* With a shared descriptor another reader may take the press first.       *)
PressEndsSelect ==
  \A p \in Procs :
    pc[p] = "sleep" /\ (\E k \in Keys : values[k] > 0) ~> pc[p] = "user"

(* open, close and read come back to user mode: each of their loops ends   *)
(* although others take and free the same lines all the time.              *)
CallReturns ==
  \A p \in Procs :
    pc[p] \in {"open", "unwind", "release", "copy", "clear"}
      ~> pc[p] \in {"user", "out"}

(* The driver implements the abstract ledger of its counters.              *)
Ledger == INSTANCE KeyLedger
            WITH pressed <- presses, pending <- values, reported <- delivered
LedgerSpec == Ledger!Spec

(* pan_irq_test prints for each key how often it has been pressed and the  *)
(* sum so far: when no read is under way and no count is left in the       *)
(* driver, the counts handed out are the presses there were.               *)
CountsExact ==
  \A k \in Keys :
    values[k] = 0 /\ (\A p \in Procs : pc[p] \notin {"copy", "clear"})
      => delivered[k] = presses[k]
============================================================================
