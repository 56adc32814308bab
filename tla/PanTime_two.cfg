\* The device is opened by two processes; seconds of three ticks.
SPECIFICATION Spec
CONSTANTS
  p1 = p1
  p2 = p2
  Procs <- TwoProcs
  HZ = 3
  MaxLate = 1
  MaxJiffies = 14
  OneAtATime = FALSE
SYMMETRY ProcSymmetry
\* The clock ends at MaxJiffies.
CHECK_DEADLOCK FALSE
INVARIANT SecondsSinceOpen
