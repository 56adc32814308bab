----------------------------- MODULE LabDrivers -----------------------------
(* The drivers of the lab, as their init and exit differ: what CharDev's   *)
(* constant Driver stands for.                                             *)

(* The device structure is a static variable.                              *)
Static(ko, n) ==
  [ko |-> ko, major |-> n, cdev |-> "static", nomem |-> {}, owner |-> TRUE,
   param |-> FALSE]

(* The device structure is allocated; results are how insmod may end when  *)
(* that fails.                                                             *)
Allocated(ko, n, results) ==
  [Static(ko, n) EXCEPT !.cdev = "kmalloc", !.nomem = results]

(* The path of a failed kmalloc returns -ENOMEM ...                        *)
Refused == {"refused"}
(* ... returns result, which is still the 0 of register_chrdev_region ...  *)
Loaded == {"loaded"}
(* ... or falls off the end of the function: insmod sees whatever the      *)
(* register holds.                                                         *)
Undefined == {"loaded", "refused"}

pan_irq == Allocated("pan_irq", 236, Loaded)
pan_tasklet == Allocated("pan_tasklet", 235, Loaded)
pan_time == Allocated("pan_time", 238, Undefined)
pan_time_key == Allocated("pan_time_key", 237, Undefined)

(* globalmem_major and fcntl_major are module parameters.                  *)
globalmem_Stale ==                 \* mutant: returns result unassigned
  [Allocated("globalmem", 244, Loaded) EXCEPT !.param = TRUE]
globalmem == [Allocated("globalmem", 244, Refused) EXCEPT !.param = TRUE]
pan_fcntl == [Allocated("pan_fcntl", 224, Refused) EXCEPT !.param = TRUE]

(* Both variants of pan_poll are called pan_poll.ko.                       *)
pan_poll == Static("pan_poll", 239)
pan_block == Static("pan_poll", 239)
nosemaphore == Static("nosemaphore", 242)
key == Static("key", 220)
pan_beep_Unowned ==                \* mutant: .owner forgotten
  [Static("pan_beep", 243) EXCEPT !.owner = FALSE]
pan_beep == Static("pan_beep", 243)

(* register_chrdev does all the set-up, and there is no .owner.            *)
pan_buttons ==
  [Static("pan_buttons", 232) EXCEPT !.cdev = "core", !.owner = FALSE]

LabDriver ==
  [pan_irq |-> pan_irq, pan_tasklet |-> pan_tasklet, pan_time |-> pan_time,
   pan_time_key |-> pan_time_key, globalmem |-> globalmem,
   pan_fcntl |-> pan_fcntl, pan_poll |-> pan_poll, pan_block |-> pan_block,
   nosemaphore |-> nosemaphore, key |-> key, pan_beep |-> pan_beep,
   pan_buttons |-> pan_buttons]
============================================================================
