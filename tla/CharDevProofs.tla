--------------------------- MODULE CharDevProofs ---------------------------
(***************************************************************************)
(* Theorems about the loading and unloading of the modules, for any        *)
(* drivers with the scripts of CharDev, any numbers that insmod gives them *)
(* and any number of them in the kernel.                                   *)
(***************************************************************************)
EXTENDS CharDev, TLAPS

(* The device structure exists from kmalloc to kfree, and only for the     *)
(* drivers that allocate it.                                               *)
HeapOK ==
  \A m \in Modules :
    /\ m \in live =>
         Heap(m) /\ stage[m] \in {"memory", "in", "leaving", "deleted"}
    /\ stage[m] \in {"memory", "deleted"} => m \in live

(* What open reaches, but for the number: it follows from NumberAccount.   *)
MappedOK ==
  \A m \in mapped : stage[m] \in {"in", "leaving"} /\ (Heap(m) => m \in live)

(* Outside "in", no open file holds a module that files can hold.          *)
FilesOK ==
  \A m \in Modules : Driver[m].owner /\ stage[m] # "in" => files[m] = 0

(* The inductive invariant.  NumberAccount needs HeapOK: whether a loaded  *)
(* module has its number is read off its device structure.                 *)
IInv == TypeOK /\ NumberAccount /\ HeapOK /\ MappedOK /\ FilesOK

(* The drivers whose init may return 0 after kmalloc failed.               *)
LoseError == {m \in Modules : "loaded" \in Driver[m].nomem}

(* A driver that loses no error has its structure once it is loaded.       *)
HonestOK ==
  \A m \in Modules \ Careless :
    /\ stage[m] \in {"in", "leaving"} /\ Heap(m) => m \in live
    /\ stage[m] # "stuck"

Stages == {"out", "region", "memory", "in", "leaving", "deleted", "freed",
           "stuck"}

(* The steps of init, of an open file, and of exit.                        *)
InitStep(m) == Register(m) \/ Kmalloc(m) \/ KmallocFails(m) \/ SetupCdev(m)
FileStep(m) == Open(m) \/ Close(m)
ExitStep(m) == Rmmod(m) \/ CdevDel(m) \/ Kfree(m) \/ Unregister(m)

---------------------------------------------------------------------------
(* Every step is one of these.                                             *)
LEMMA Steps ==
  ASSUME Next
  PROVE  \E m \in Modules : InitStep(m) \/ FileStep(m) \/ ExitStep(m)
BY DEF Next, InitStep, FileStep, ExitStep

LEMMA InitInv == Init => IInv
<1> SUFFICES ASSUME Init PROVE IInv
  OBVIOUS
<1>1. TypeOK
  <2>1. major \in [Modules -> Numbers]
    BY DriverAssumption DEF Init
  <2>2. stage \in [Modules -> Stages]
    BY DEF Init, Stages
  <2> QED
    BY <2>1, <2>2 DEF Init, TypeOK, Stages
<1>2. NumberAccount
  BY DriverAssumption DEF Init, NumberAccount, HasNumber
<1>3. HeapOK /\ MappedOK /\ FilesOK
  BY DEF Init, HeapOK, MappedOK, FilesOK
<1> QED
  BY <1>1, <1>2, <1>3 DEF IInv

---------------------------------------------------------------------------
(* Types, and what the invariant says but for the numbers, step by step.   *)
LEMMA InitStepTypes ==
  ASSUME TypeOK, NEW m \in Modules, InitStep(m)
  PROVE  TypeOK'
<1>1. CASE Register(m)
  BY <1>1 DEF Register, Goto, TypeOK
<1>2. CASE Kmalloc(m)
  BY <1>2 DEF Kmalloc, Goto, TypeOK
<1>3. CASE KmallocFails(m)
  BY <1>3, DriverAssumption
    DEF KmallocFails, FailMalloc, Unregistered, Goto, Leave, TypeOK
<1>4. CASE SetupCdev(m)
  BY <1>4 DEF SetupCdev, Goto, TypeOK
<1> QED
  BY <1>1, <1>2, <1>3, <1>4 DEF InitStep

LEMMA ExitStepTypes ==
  ASSUME TypeOK, NEW m \in Modules, ExitStep(m)
  PROVE  TypeOK'
<1>1. CASE Rmmod(m)
  BY <1>1, DriverAssumption DEF Rmmod, Unregistered, Goto, Leave, TypeOK
<1>2. CASE CdevDel(m)
  BY <1>2 DEF CdevDel, Unmapped, Goto, TypeOK
<1>3. CASE Kfree(m)
  BY <1>3 DEF Kfree, Goto, TypeOK
<1>4. CASE Unregister(m)
  BY <1>4, DriverAssumption DEF Unregister, Unregistered, Goto, Leave, TypeOK
<1> QED
  BY <1>1, <1>2, <1>3, <1>4 DEF ExitStep

LEMMA FileStepTypes ==
  ASSUME TypeOK, NEW m \in Modules, FileStep(m)
  PROVE  TypeOK'
<1>1. CASE Open(m)
  BY <1>1 DEF Open, TypeOK
<1>2. CASE Close(m)
  BY <1>2 DEF Close, TypeOK
<1> QED
  BY <1>1, <1>2 DEF FileStep

LEMMA InitStepHeap ==
  ASSUME IInv, NEW m \in Modules, InitStep(m)
  PROVE  HeapOK' /\ MappedOK' /\ FilesOK'
<1> USE DEF IInv, TypeOK, HeapOK, MappedOK, FilesOK, Goto, Leave, Heap
<1>1. CASE Register(m)
  BY <1>1 DEF Register, Loadable
<1>2. CASE Kmalloc(m)
  BY <1>2 DEF Kmalloc
<1>3. CASE KmallocFails(m)
  BY <1>3 DEF KmallocFails
<1>4. CASE SetupCdev(m)
  BY <1>4 DEF SetupCdev
<1> QED
  BY <1>1, <1>2, <1>3, <1>4 DEF InitStep

LEMMA ExitStepHeap ==
  ASSUME IInv, NEW m \in Modules, ExitStep(m)
  PROVE  HeapOK' /\ MappedOK' /\ FilesOK'
<1> USE DEF IInv, TypeOK, HeapOK, MappedOK, FilesOK, Goto, Leave, Heap
<1>1. CASE Rmmod(m)
  BY <1>1 DEF Rmmod
<1>2. CASE CdevDel(m)
  BY <1>2 DEF CdevDel, Unmapped
<1>3. CASE Kfree(m)
  BY <1>3 DEF Kfree
<1>4. CASE Unregister(m)
  BY <1>4 DEF Unregister
<1> QED
  BY <1>1, <1>2, <1>3, <1>4 DEF ExitStep

LEMMA FileStepInv ==
  ASSUME IInv, NEW m \in Modules, FileStep(m)
  PROVE  IInv'
<1>1. UNCHANGED <<stage, major, region, live, mapped>>
  BY DEF FileStep, Open, Close
<1>2. \A o \in Modules : files'[o] = files[o] \/ stage[o] = "in"
                                            \/ ~Driver[o].owner
  BY DEF FileStep, Open, Close, IInv, TypeOK
<1>3. HeapOK' /\ MappedOK' /\ NumberAccount'
  BY <1>1 DEF IInv, HeapOK, MappedOK, NumberAccount, HasNumber, Heap
<1>4. FilesOK'
  BY <1>1, <1>2 DEF IInv, FilesOK
<1>5. TypeOK'
  BY FileStepTypes DEF IInv
<1> QED
  BY <1>3, <1>4, <1>5 DEF IInv

---------------------------------------------------------------------------
(* Two modules never have one number, and a step of m touches no number    *)
(* but its own.                                                            *)
LEMMA NumberFrame ==
  ASSUME IInv, NEW m \in Modules, TypeOK',
         \A o \in Modules \ {m} :
           /\ stage'[o] = stage[o] /\ major'[o] = major[o]
           /\ o \in live' <=> o \in live,
         \/ region' = region /\ (HasNumber(m)' <=> HasNumber(m))
              /\ major'[m] = major[m]
         \/ region' = region /\ ~HasNumber(m) /\ ~HasNumber(m)'
         \/ /\ HasNumber(m) /\ ~HasNumber(m)'
            /\ region' = Unregistered(major[m])
         \/ /\ ~HasNumber(m) /\ HasNumber(m)'
            /\ region[major'[m]] = NotOwned
            /\ region' = [region EXCEPT ![major'[m]] = m]
  PROVE  NumberAccount'
<1> SUFFICES ASSUME NEW n \in Numbers, NEW o \in Modules
             PROVE  (region[n] = o <=> HasNumber(o) /\ major[o] = n)'
  BY DEF NumberAccount
<1>1. \A i \in Numbers, q \in Modules :
        region[i] = q <=> HasNumber(q) /\ major[q] = i
  BY DEF IInv, NumberAccount
<1>2. o # m => (HasNumber(o)' <=> HasNumber(o)) /\ major'[o] = major[o]
  BY DEF HasNumber
<1>3. /\ major \in [Modules -> Numbers] /\ major' \in [Modules -> Numbers]
      /\ region \in [Numbers -> Modules \cup {NotOwned}]
      /\ NotOwned \notin Modules
  BY DriverAssumption DEF IInv, TypeOK
<1>4. CASE region' = region /\ (HasNumber(m)' <=> HasNumber(m))
           /\ major'[m] = major[m]
  BY <1>1, <1>2, <1>4
<1>5. CASE region' = region /\ ~HasNumber(m) /\ ~HasNumber(m)'
  BY <1>1, <1>2, <1>5
<1>6. CASE HasNumber(m) /\ ~HasNumber(m)' /\ region' = Unregistered(major[m])
  BY <1>1, <1>2, <1>3, <1>6 DEF Unregistered
<1>7. CASE /\ ~HasNumber(m) /\ HasNumber(m)'
           /\ region[major'[m]] = NotOwned
           /\ region' = [region EXCEPT ![major'[m]] = m]
  BY <1>1, <1>2, <1>3, <1>7
<1> QED
  BY <1>4, <1>5, <1>6, <1>7

LEMMA InitStepNumbers ==
  ASSUME IInv, NEW m \in Modules, InitStep(m)
  PROVE  NumberAccount'
<1>1. TypeOK'
  BY InitStepTypes DEF IInv
<1>2. \A o \in Modules \ {m} :
        /\ stage'[o] = stage[o] /\ major'[o] = major[o]
        /\ o \in live' <=> o \in live
  BY DEF InitStep, Register, Kmalloc, KmallocFails, SetupCdev, Goto, Leave,
         IInv, TypeOK
<1> USE DEF Goto, Leave, HasNumber, Heap, IInv, TypeOK, HeapOK
<1>3. CASE Register(m)
  <2>1. ~HasNumber(m) /\ HasNumber(m)'
    BY <1>3 DEF Register, Loadable
  <2>2. /\ region[major'[m]] = NotOwned
        /\ region' = [region EXCEPT ![major'[m]] = m]
    BY <1>3 DEF Register
  <2> QED
    BY <1>1, <1>2, <2>1, <2>2, NumberFrame
<1>4. CASE Kmalloc(m)
  <2>1. region' = region /\ (HasNumber(m)' <=> HasNumber(m))
          /\ major'[m] = major[m]
    BY <1>4 DEF Kmalloc
  <2> QED
    BY <1>1, <1>2, <2>1, NumberFrame
<1>5. CASE KmallocFails(m)
  <2>1. /\ HasNumber(m) /\ ~HasNumber(m)'
        /\ region' = Unregistered(major[m])
    BY <1>5 DEF KmallocFails, FailMalloc
  <2> QED
    BY <1>1, <1>2, <2>1, NumberFrame
<1>6. CASE SetupCdev(m)
  <2>1. region' = region /\ (HasNumber(m)' <=> HasNumber(m))
          /\ major'[m] = major[m]
    BY <1>6 DEF SetupCdev
  <2> QED
    BY <1>1, <1>2, <2>1, NumberFrame
<1> QED
  BY <1>3, <1>4, <1>5, <1>6 DEF InitStep

LEMMA ExitStepNumbers ==
  ASSUME IInv, NEW m \in Modules, ExitStep(m)
  PROVE  NumberAccount'
<1>1. TypeOK'
  BY ExitStepTypes DEF IInv
<1>2. \A o \in Modules \ {m} :
        /\ stage'[o] = stage[o] /\ major'[o] = major[o]
        /\ o \in live' <=> o \in live
  BY DEF ExitStep, Rmmod, CdevDel, Kfree, Unregister, Goto, Leave,
         IInv, TypeOK
<1> USE DEF Goto, Leave, HasNumber, Heap, IInv, TypeOK, HeapOK
<1>3. CASE Rmmod(m)
  <2>1. CASE Driver[m].cdev = "core"
    <3>1. /\ HasNumber(m) /\ ~HasNumber(m)'
          /\ region' = Unregistered(major[m])
      BY <1>3, <2>1 DEF Rmmod
    <3> QED
      BY <1>1, <1>2, <3>1, NumberFrame
  <2>2. CASE Driver[m].cdev # "core"
    <3>1. region' = region /\ (HasNumber(m)' <=> HasNumber(m))
            /\ major'[m] = major[m]
      BY <1>3, <2>2 DEF Rmmod
    <3> QED
      BY <1>1, <1>2, <3>1, NumberFrame
  <2> QED
    BY <2>1, <2>2
<1>4. CASE CdevDel(m)
  <2>1. region' = region /\ (HasNumber(m)' <=> HasNumber(m))
          /\ major'[m] = major[m]
    BY <1>4 DEF CdevDel
  <2> QED
    BY <1>1, <1>2, <2>1, NumberFrame
<1>5. CASE Kfree(m)
  <2>1. region' = region /\ (HasNumber(m)' <=> HasNumber(m))
          /\ major'[m] = major[m]
    BY <1>5 DEF Kfree
  <2> QED
    BY <1>1, <1>2, <2>1, NumberFrame
<1>6. CASE Unregister(m)
  <2>1. /\ HasNumber(m) /\ ~HasNumber(m)'
        /\ region' = Unregistered(major[m])
    BY <1>6 DEF Unregister
  <2> QED
    BY <1>1, <1>2, <2>1, NumberFrame
<1> QED
  BY <1>3, <1>4, <1>5, <1>6 DEF ExitStep

LEMMA NextInv == IInv /\ [Next]_vars => IInv'
<1> SUFFICES ASSUME IInv, [Next]_vars PROVE IInv'
  OBVIOUS
<1>1. CASE UNCHANGED vars
  BY <1>1 DEF vars, IInv, TypeOK, NumberAccount, HasNumber, HeapOK, MappedOK,
              FilesOK, Heap
<1>2. ASSUME NEW m \in Modules, InitStep(m) PROVE IInv'
  BY <1>2, InitStepTypes, InitStepNumbers, InitStepHeap DEF IInv
<1>3. ASSUME NEW m \in Modules, ExitStep(m) PROVE IInv'
  BY <1>3, ExitStepTypes, ExitStepNumbers, ExitStepHeap DEF IInv
<1> QED
  BY <1>1, <1>2, <1>3, FileStepInv, Steps

LEMMA Invariant == Spec => []IInv
BY InitInv, NextInv, PTL DEF Spec

---------------------------------------------------------------------------
(* Every variable keeps its type: no step leaves the stages of a script.   *)
THEOREM TypeCorrect == Spec => []TypeOK
<1>1. IInv => TypeOK
  BY DEF IInv
<1> QED
  BY <1>1, Invariant, PTL

(* Numbers are accounted for in any mix of drivers: neither a failed init  *)
(* nor an exit leaks one or gives back another module's.                   *)
THEOREM NumbersCorrect == Spec => []NumberAccount
<1>1. IInv => NumberAccount
  BY DEF IInv
<1> QED
  BY <1>1, Invariant, PTL

(* An open reaches only a module that is in the kernel, has its number and *)
(* has not freed its device structure.                                     *)
THEOREM DevicesCorrect == Spec => []LiveDevice
<1>1. IInv => LiveDevice
  <2> SUFFICES ASSUME IInv, NEW m \in mapped
               PROVE  /\ stage[m] \in {"in", "leaving"}
                      /\ region[major[m]] = m
                      /\ Heap(m) => m \in live
    BY DEF LiveDevice
  <2>1. m \in Modules /\ major[m] \in Numbers
    BY DEF IInv, TypeOK
  <2>2. stage[m] \in {"in", "leaving"} /\ (Heap(m) => m \in live)
    BY DEF IInv, MappedOK
  <2>3. region[major[m]] = m
    BY <2>1, <2>2 DEF IInv, NumberAccount, HasNumber
  <2> QED
    BY <2>2, <2>3
<1> QED
  BY <1>1, Invariant, PTL

(* A driver whose failure path keeps the error of kmalloc is, once insmod  *)
(* has succeeded, the owner of its number, and its rmmod comes through.    *)
THEOREM HonestCorrect ==
  ASSUME LoseError \subseteq Careless
  PROVE  Spec => []HonestLoad
<1>1. Init => HonestOK
  BY DEF Init, HonestOK
<1>2. IInv /\ HonestOK /\ [Next]_vars => HonestOK'
  <2> SUFFICES ASSUME IInv, HonestOK, [Next]_vars, NEW o \in Modules \ Careless
               PROVE  (/\ stage[o] \in {"in", "leaving"} /\ Heap(o) => o \in live
                       /\ stage[o] # "stuck")'
    BY DEF HonestOK
  <2> USE DEF HonestOK, Goto, Leave, Heap, IInv, TypeOK, HeapOK
  <2>1. CASE UNCHANGED vars
    BY <2>1 DEF vars
  <2>2. ASSUME NEW m \in Modules, InitStep(m)
        PROVE  (/\ stage[o] \in {"in", "leaving"} /\ Heap(o) => o \in live
                /\ stage[o] # "stuck")'
    <3>1. CASE Register(m)
      BY <3>1 DEF Register
    <3>2. CASE Kmalloc(m)
      BY <3>2 DEF Kmalloc
    <3>3. CASE KmallocFails(m)
      BY <3>3 DEF KmallocFails, LoseError
    <3>4. CASE SetupCdev(m)
      BY <3>4 DEF SetupCdev
    <3> QED
      BY <2>2, <3>1, <3>2, <3>3, <3>4 DEF InitStep
  <2>3. ASSUME NEW m \in Modules, ExitStep(m)
        PROVE  (/\ stage[o] \in {"in", "leaving"} /\ Heap(o) => o \in live
                /\ stage[o] # "stuck")'
    <3>1. CASE Rmmod(m)
      BY <3>1 DEF Rmmod
    <3>2. CASE CdevDel(m)
      BY <3>2 DEF CdevDel
    <3>3. CASE Kfree(m)
      BY <3>3 DEF Kfree
    <3>4. CASE Unregister(m)
      BY <3>4 DEF Unregister
    <3> QED
      BY <2>3, <3>1, <3>2, <3>3, <3>4 DEF ExitStep
  <2>4. ASSUME NEW m \in Modules, FileStep(m)
        PROVE  (/\ stage[o] \in {"in", "leaving"} /\ Heap(o) => o \in live
                /\ stage[o] # "stuck")'
    BY <2>4 DEF FileStep, Open, Close
  <2> QED
    BY <2>1, <2>2, <2>3, <2>4, Steps
<1>3. IInv /\ HonestOK => HonestLoad
  BY DEF IInv, TypeOK, HonestOK, HonestLoad, NumberAccount, HasNumber
<1> QED
  BY <1>1, <1>2, <1>3, Invariant, PTL DEF Spec

---------------------------------------------------------------------------
(* The modules implement the table of devices.                             *)
Device == [m \in Modules |-> IF m \in mapped THEN major[m] ELSE 0]

LEMMA DeviceKept ==
  ASSUME IInv, NEW m \in Modules, mapped' = mapped, m \notin mapped,
         \A o \in Modules \ {m} : major'[o] = major[o]
  PROVE  Device' = Device
BY DEF Device

LEMMA DeviceChanged ==
  ASSUME IInv, NEW m \in Modules, NEW v,
         \A o \in Modules \ {m} :
           major'[o] = major[o] /\ (o \in mapped' <=> o \in mapped),
         v = IF m \in mapped' THEN major'[m] ELSE 0
  PROVE  Device' = [Device EXCEPT ![m] = v]
BY DEF Device

(* Publishing: the module's number leads to no other module.               *)
LEMMA Publishes ==
  ASSUME IInv, NEW m \in Modules, NEW n \in Numbers, m \notin mapped,
         region[n] \in {m, NotOwned}, files' = files,
         Device' = [Device EXCEPT ![m] = n]
  PROVE  Table!Publish(m, n)
<1>1. \A o \in Modules : Device[o] # n
  <2> SUFFICES ASSUME NEW o \in Modules, Device[o] = n PROVE FALSE
    OBVIOUS
  <2>1. n # 0
    BY DriverAssumption
  <2>2. o \in mapped /\ major[o] = n
    BY <2>1 DEF Device
  <2>3. HasNumber(o)
    BY <2>2 DEF IInv, MappedOK, HasNumber
  <2>4. region[n] = o
    BY <2>2, <2>3 DEF IInv, NumberAccount
  <2> QED
    BY <2>2, <2>4, DriverAssumption
<1>2. Device[m] = 0
  BY DEF Device
<1> QED
  BY <1>1, <1>2 DEF Table!Publish, Device

(* What a driver needs for the table: its open files hold the module.      *)
LEMMA TableStep ==
  ASSUME \A m \in Owning : Driver[m].owner, IInv, Next
  PROVE  Table!Next \/ UNCHANGED Table!vars
<1> USE DEF IInv, TypeOK
<1>1. PICK m \in Modules : InitStep(m) \/ FileStep(m) \/ ExitStep(m)
  BY Steps
<1>2. CASE Device' = Device /\ files' = files
  BY <1>2 DEF Table!vars, Device
<1>3. ASSUME NEW n \in Numbers, Table!Publish(m, n)
      PROVE  Table!Next
  BY <1>3 DEF Table!Next
<1>4. ASSUME Table!Withdraw(m) \/ Table!Open(m) \/ Table!Close(m)
      PROVE  Table!Next
  BY <1>4 DEF Table!Next
<1>5. CASE Register(m)
  <2>1. m \notin mapped /\ files' = files
    BY <1>5 DEF Register, Loadable, MappedOK
  <2>2. \A o \in Modules \ {m} : major'[o] = major[o]
    BY <1>5 DEF Register
  <2>3. CASE Driver[m].cdev = "core"
    <3>1. PICK n \in Numbers : region[n] = NotOwned /\ major'[m] = n
      BY <1>5 DEF Register
    <3>2. mapped' = mapped \cup {m}
      BY <1>5, <2>3 DEF Register
    <3>3. Device' = [Device EXCEPT ![m] = n]
      BY <2>2, <3>1, <3>2, DeviceChanged
    <3> QED
      BY <1>3, <2>1, <3>1, <3>3, Publishes
  <2>4. CASE Driver[m].cdev # "core"
    <3>1. mapped' = mapped
      BY <1>5, <2>4 DEF Register
    <3> QED
      BY <1>2, <2>1, <2>2, <3>1, DeviceKept
  <2> QED
    BY <2>3, <2>4
<1>6. CASE Kmalloc(m) \/ Kfree(m)
  BY <1>2, <1>6 DEF Kmalloc, Kfree, Device
<1>7. CASE KmallocFails(m)
  <2>1. m \notin mapped /\ mapped' = mapped /\ files' = files
    BY <1>7 DEF KmallocFails, MappedOK
  <2>2. \A o \in Modules \ {m} : major'[o] = major[o]
    BY <1>7 DEF KmallocFails, Leave
  <2> QED
    BY <1>2, <2>1, <2>2, DeviceKept
<1>8. CASE SetupCdev(m)
  <2>1. major' = major /\ files' = files /\ m \notin mapped
    BY <1>8 DEF SetupCdev, MappedOK
  <2>2. region[major[m]] = m /\ major[m] \in Numbers
    BY <1>8 DEF SetupCdev, NumberAccount, HasNumber
  <2>3. CASE mapped' = mapped
    BY <1>2, <2>1, <2>3 DEF Device
  <2>4. CASE mapped' = mapped \cup {m}
    <3>1. Device' = [Device EXCEPT ![m] = major[m]]
      BY <2>1, <2>4, DeviceChanged
    <3> QED
      BY <1>3, <2>1, <2>2, <3>1, Publishes
  <2> QED
    BY <1>8, <2>3, <2>4 DEF SetupCdev
<1>9. CASE Open(m)
  <2>1. Device' = Device /\ files' = [files EXCEPT ![m] = @ + 1]
    BY <1>9 DEF Open, Device
  <2>2. Device[m] # 0
    BY <1>9, DriverAssumption DEF Open, Device
  <2> QED
    BY <1>4, <2>1, <2>2 DEF Table!Open, Device
<1>10. CASE Close(m)
  <2>1. /\ Device' = Device /\ files' = [files EXCEPT ![m] = @ - 1]
        /\ files[m] > 0
    BY <1>10 DEF Close, Device
  <2> QED
    BY <1>4, <2>1 DEF Table!Close, Device
<1>11. ASSUME mapped' = mapped \ {m}, files' = files,
              Driver[m].owner => files[m] = 0,
              \A o \in Modules \ {m} : major'[o] = major[o]
       PROVE  Table!Next \/ UNCHANGED Table!vars
  <2>1. CASE m \notin mapped
    <3>1. mapped' = mapped
      BY <1>11, <2>1
    <3> QED
      BY <1>2, <1>11, <2>1, <3>1, DeviceKept
  <2>2. CASE m \in mapped
    <3>1. Device' = [Device EXCEPT ![m] = 0]
      BY <1>11, DeviceChanged
    <3>2. Device[m] # 0
      BY <2>2, DriverAssumption DEF Device
    <3> QED
      BY <1>4, <1>11, <3>1, <3>2 DEF Table!Withdraw, Device
  <2> QED
    BY <2>1, <2>2
<1>12. CASE Rmmod(m)
  <2>1. CASE Driver[m].cdev = "core"
    BY <1>11, <1>12, <2>1 DEF Rmmod, Leave
  <2>2. CASE Driver[m].cdev # "core"
    BY <1>2, <1>12, <2>2 DEF Rmmod, Device
  <2> QED
    BY <2>1, <2>2
<1>13. CASE CdevDel(m)
  <2>1. CASE Heap(m) /\ m \notin live
    BY <1>2, <1>13, <2>1 DEF CdevDel, Device
  <2>2. CASE ~(Heap(m) /\ m \notin live)
    <3>1. Driver[m].owner => files[m] = 0
      BY <1>13 DEF CdevDel, FilesOK
    <3> QED
      BY <1>11, <1>13, <2>2, <3>1 DEF CdevDel, Unmapped
  <2> QED
    BY <2>1, <2>2
<1>14. CASE Unregister(m)
  <2>1. m \notin mapped /\ mapped' = mapped /\ files' = files
    BY <1>14 DEF Unregister, MappedOK
  <2>2. \A o \in Modules \ {m} : major'[o] = major[o]
    BY <1>14 DEF Unregister, Leave
  <2> QED
    BY <1>2, <2>1, <2>2, DeviceKept
<1> QED
  BY <1>1, <1>5, <1>6, <1>7, <1>8, <1>9, <1>10, <1>12, <1>13, <1>14
    DEF InitStep, FileStep, ExitStep

(* The table of devices, for any drivers: a number leads to one module at  *)
(* most, and none is withdrawn under an open file that holds it.           *)
THEOREM TableCorrect ==
  ASSUME \A m \in Owning : Driver[m].owner
  PROVE  Spec => TableSpec
<1>1. Init => Table!Init
  BY DEF Init, Table!Init
<1>2. IInv /\ [Next]_vars => [Table!Next]_Table!vars
  <2>1. CASE UNCHANGED vars
    BY <2>1 DEF vars, Table!vars
  <2> QED
    BY <2>1, TableStep
<1> QED
  BY <1>1, <1>2, Invariant, PTL DEF Spec, TableSpec, Table!Spec

============================================================================
