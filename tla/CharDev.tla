------------------------------ MODULE CharDev ------------------------------
(***************************************************************************)
(* Loading and unloading of the lab's character-device modules.  Every     *)
(* driver's init and exit follow one script, with the choices that Driver  *)
(* lists:                                                                  *)
(*   init   register_chrdev_region, kmalloc of the device structure (or a  *)
(*          static one), cdev_add;                                         *)
(*   exit   cdev_del, kfree, unregister_chrdev_region.                     *)
(* Each call may sleep, and the kernel holds no lock over init or exit, so *)
(* the scripts of several modules interleave.  A module is at              *)
(*   "out"      not in the kernel,                                         *)
(*   "region"   in init, with its device number,                           *)
(*   "memory"   in init, with its device structure as well,                *)
(*   "in"       loaded: init has returned 0,                               *)
(*   "leaving"  in exit, before cdev_del: opens are refused,               *)
(*   "deleted"  in exit, before kfree,                                     *)
(*   "freed"    in exit, before unregister_chrdev_region,                  *)
(*   "stuck"    in exit for ever: cdev_del met a null pointer.             *)
(* A register_chrdev_region that fails ends init with nothing done, so it  *)
(* is no step.                                                             *)
(***************************************************************************)
EXTENDS Integers, FiniteSets

CONSTANTS
  Modules,    \* the modules
  Numbers,    \* the major numbers
  Driver,     \* the drivers: see DriverAssumption
  Asked,      \* values that insmod may give a driver's _major parameter
  Careless,   \* modules whose init may report success after kmalloc failed
  Owning,     \* modules that an open file keeps in the kernel
  MaxLoaded,  \* bound: modules in the kernel at once
  MaxFiles    \* bound: open files of a device

NotOwned == "free"

(* ko: the module's name; major: its preset number; cdev: where the device *)
(* structure lives, "core" for register_chrdev, which does it all; nomem:  *)
(* how insmod may end after kmalloc failed; owner: do the file operations  *)
(* name the module; param: can insmod choose the number?                   *)
ASSUME DriverAssumption ==
  /\ Numbers \subseteq Nat \ {0} /\ NotOwned \notin Modules
  /\ Asked \subseteq Numbers \cup {0}
  /\ \A m \in Modules :
       /\ Driver[m].major \in Numbers
       /\ Driver[m].cdev \in {"kmalloc", "static", "core"}
       /\ Driver[m].nomem \subseteq {"loaded", "refused"}
       /\ Driver[m].owner \in BOOLEAN /\ Driver[m].param \in BOOLEAN

VARIABLES
  stage,   \* where each module is
  major,   \* its _major variable
  region,  \* per number: the module that registered it
  live,    \* modules whose device structure is allocated
  mapped,  \* modules whose device an open of their number reaches
  files    \* per module: open files of its device

vars == <<stage, major, region, live, mapped, files>>

Init ==
  /\ stage = [m \in Modules |-> "out"]
  /\ major = [m \in Modules |-> Driver[m].major]
  /\ region = [n \in Numbers |-> NotOwned]
  /\ live = {} /\ mapped = {}
  /\ files = [m \in Modules |-> 0]

Goto(m, s) == stage' = [stage EXCEPT ![m] = s]
Heap(m) == Driver[m].cdev = "kmalloc"

(* Out of the kernel; the next insmod starts from the preset number.       *)
Leave(m) == Goto(m, "out") /\ major' = [major EXCEPT ![m] = Driver[m].major]

(* unregister_chrdev_region looks at the number, not at who registered it. *)
Unregistered(n) == [region EXCEPT ![n] = NotOwned]

---------------------------------------------------------------------------
(* init                                                                    *)

(* insmod refuses a second module of the same name.  Files still open from *)
(* an earlier load do not matter to it.                                    *)
Loadable(m) ==
  /\ stage[m] = "out"
  /\ \A o \in Modules : Driver[o].ko = Driver[m].ko => stage[o] = "out"
  /\ Cardinality({o \in Modules : stage[o] # "out"}) < MaxLoaded

(* The number is the preset one, the one insmod gave, or, for 0, one that  *)
(* the kernel picks.                                                       *)
Wanted(m) ==
  {Driver[m].major} \cup (IF Driver[m].param THEN Asked ELSE {})

Register(m) ==
  /\ Loadable(m)
  /\ \E a \in Wanted(m), n \in Numbers :
       /\ a \in {0, n} /\ region[n] = NotOwned
       /\ region' = [region EXCEPT ![n] = m]
       /\ major' = [major EXCEPT ![m] = n]
  /\ IF Driver[m].cdev = "core"
       THEN Goto(m, "in") /\ mapped' = mapped \cup {m}
       ELSE Goto(m, "region") /\ UNCHANGED mapped
  /\ UNCHANGED <<live, files>>

Kmalloc(m) ==
  /\ stage[m] = "region" /\ Heap(m)
  /\ live' = live \cup {m}
  /\ Goto(m, "memory")
  /\ UNCHANGED <<major, region, mapped, files>>

(* fail_malloc gives the number back.  What init then returns decides      *)
(* whether the module stays.                                               *)
FailMalloc_Leak(m) == region       \* mutant: the number is not given back
FailMalloc(m) == Unregistered(major[m])

KmallocFails(m) ==
  /\ stage[m] = "region" /\ Heap(m)
  /\ region' = FailMalloc(m)
  /\ \/ "loaded" \in Driver[m].nomem /\ Goto(m, "in") /\ UNCHANGED major
     \/ "refused" \in Driver[m].nomem /\ Leave(m)
  /\ UNCHANGED <<live, mapped, files>>

(* _setup_cdev.  A cdev_add that fails is printed, and init goes on.       *)
SetupCdev(m) ==
  /\ stage[m] = (IF Heap(m) THEN "memory" ELSE "region")
  /\ mapped' \in {mapped \cup {m}, mapped}
  /\ Goto(m, "in")
  /\ UNCHANGED <<major, region, live, files>>

---------------------------------------------------------------------------
(* The device in use: an open of the number reaches whoever has it mapped, *)
(* and takes a reference on the owner, which a leaving module refuses.     *)
(* Files of a module that was removed under them stay open; what using one *)
(* does is PanButtons' subject, as pan_buttons is the only such module.    *)
Open(m) ==
  /\ m \in mapped /\ (Driver[m].owner => stage[m] = "in")
  /\ files[m] < MaxFiles
  /\ files' = [files EXCEPT ![m] = @ + 1]
  /\ UNCHANGED <<stage, major, region, live, mapped>>

Close(m) ==
  /\ files[m] > 0 /\ stage[m] = "in"
  /\ files' = [files EXCEPT ![m] = @ - 1]
  /\ UNCHANGED <<stage, major, region, live, mapped>>

---------------------------------------------------------------------------
(* exit                                                                    *)

Rmmod(m) ==
  /\ stage[m] = "in" /\ (Driver[m].owner => files[m] = 0)
  /\ IF Driver[m].cdev = "core"
       THEN /\ Leave(m)
            /\ mapped' = mapped \ {m} /\ region' = Unregistered(major[m])
       ELSE Goto(m, "leaving") /\ UNCHANGED <<major, mapped, region>>
  /\ UNCHANGED <<live, files>>

(* A module whose kmalloc failed has no device structure to delete.        *)
Unmapped_Not(m) == mapped          \* mutant: exit without cdev_del
Unmapped(m) == mapped \ {m}

CdevDel(m) ==
  /\ stage[m] = "leaving"
  /\ IF Heap(m) /\ m \notin live
       THEN Goto(m, "stuck") /\ UNCHANGED mapped
       ELSE /\ Goto(m, IF Heap(m) THEN "deleted" ELSE "freed")
            /\ mapped' = Unmapped(m)
  /\ UNCHANGED <<major, region, live, files>>

Kfree(m) ==
  /\ stage[m] = "deleted"
  /\ live' = live \ {m}
  /\ Goto(m, "freed")
  /\ UNCHANGED <<major, region, mapped, files>>

Unregister(m) ==
  /\ stage[m] = "freed"
  /\ region' = Unregistered(major[m])
  /\ Leave(m)
  /\ UNCHANGED <<live, mapped, files>>

Next ==
  \E m \in Modules :
    \/ Register(m) \/ Kmalloc(m) \/ KmallocFails(m) \/ SetupCdev(m)
    \/ Open(m) \/ Close(m)
    \/ Rmmod(m) \/ CdevDel(m) \/ Kfree(m) \/ Unregister(m)

Spec == Init /\ [][Next]_vars

---------------------------------------------------------------------------
(* Types.                                                                  *)
TypeOK ==
  /\ stage \in [Modules -> {"out", "region", "memory", "in", "leaving",
                            "deleted", "freed", "stuck"}]
  /\ major \in [Modules -> Numbers]
  /\ region \in [Numbers -> Modules \cup {NotOwned}]
  /\ live \subseteq Modules /\ mapped \subseteq Modules
  /\ files \in [Modules -> Nat]

(* A module has a number from register_chrdev_region to the end of exit,   *)
(* but not when its kmalloc failed and insmod nevertheless succeeded.      *)
HasNumber(m) ==
  \/ stage[m] \in {"region", "memory", "deleted", "freed"}
  \/ stage[m] \in {"in", "leaving"} /\ (Heap(m) => m \in live)

(* Numbers are accounted for: none leaks through a failed init or an exit, *)
(* and no exit gives back a number another module has registered since,    *)
(* though unregister_chrdev_region would let it.                           *)
NumberAccount ==
  \A n \in Numbers, m \in Modules :
    region[n] = m <=> HasNumber(m) /\ major[m] = n

(* A device that open can reach belongs to a module that is in the kernel, *)
(* owns the number, and has not freed the device structure.                *)
LiveDevice ==
  \A m \in mapped :
    /\ stage[m] \in {"in", "leaving"} /\ region[major[m]] = m
    /\ Heap(m) => m \in live

(* insmod that succeeds means a registered device number, and rmmod comes  *)
(* through, for every driver but those whose failure path loses the error. *)
HonestLoad ==
  \A m \in Modules \ Careless :
    /\ stage[m] \in {"in", "leaving"} => region[major[m]] = m
    /\ stage[m] # "stuck"

(* The modules implement the table of devices: one module behind a number, *)
(* and none withdrawn under an open file that holds it.                    *)
Table ==
  INSTANCE DeviceTable
    WITH device <- [m \in Modules |-> IF m \in mapped THEN major[m] ELSE 0],
         users <- files
TableSpec == Table!Spec
============================================================================
