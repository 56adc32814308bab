---------------------------- MODULE DeviceTable ----------------------------
(***************************************************************************)
(* What the loading and unloading of character-device modules promises:    *)
(* a device number leads to one module at most, and a module whose file    *)
(* operations name it as owner is not withdrawn while its device is open.  *)
(***************************************************************************)
EXTENDS Integers

CONSTANTS
  Modules,   \* the modules
  Numbers,   \* the major numbers
  Owning     \* the modules whose file operations have .owner

VARIABLES
  device,    \* per module: the number its device answers to, or 0
  users      \* per module: open files of its device

vars == <<device, users>>

Init == device = [m \in Modules |-> 0] /\ users = [m \in Modules |-> 0]

Publish(m, n) ==
  /\ device[m] = 0 /\ \A o \in Modules : device[o] # n
  /\ device' = [device EXCEPT ![m] = n]
  /\ UNCHANGED users

Withdraw(m) ==
  /\ device[m] # 0 /\ (m \in Owning => users[m] = 0)
  /\ device' = [device EXCEPT ![m] = 0]
  /\ UNCHANGED users

Open(m) ==
  /\ device[m] # 0
  /\ users' = [users EXCEPT ![m] = @ + 1]
  /\ UNCHANGED device

Close(m) ==
  /\ users[m] > 0
  /\ users' = [users EXCEPT ![m] = @ - 1]
  /\ UNCHANGED device

Next ==
  \E m \in Modules :
    \/ \E n \in Numbers : Publish(m, n)
    \/ Withdraw(m) \/ Open(m) \/ Close(m)

Spec == Init /\ [][Next]_vars
============================================================================
