SPECIFICATION Spec
CONSTANTS
  p1 = p1
  p2 = p2
  Idle = Idle
  Procs <- TwoProcs
  NKeys = 2
  MaxPress = 2
  Sharing = FALSE
  ReadSizes <- FullRead
  CopyMayFail = FALSE
SYMMETRY ProcSymmetry
INVARIANT CountsExact
