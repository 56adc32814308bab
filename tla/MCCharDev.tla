----------------------------- MODULE MCCharDev -----------------------------
(* Seven of the twelve drivers, one or two of each kind of script, three   *)
(* of them in the kernel at once.                                          *)
EXTENDS CharDev, LabDrivers

LabModules == {"pan_irq", "pan_time", "globalmem", "pan_poll", "pan_block",
               "pan_beep", "pan_buttons"}
LabNumbers == {LabDriver[m].major : m \in LabModules} \cup {254}

(* globalmem_major and fcntl_major: another driver's number, or any.       *)
LabAsked == {0, 236}

LabCareless == {"pan_irq", "pan_time"}
LabOwning == LabModules \ {"pan_buttons"}
============================================================================
