\* One descriptor per open, every read asks for all the counters.
SPECIFICATION FairSpec
CONSTANTS
  p1 = p1
  p2 = p2
  Idle = Idle
  Procs <- TwoProcs
  NKeys = 2
  MaxPress = 2
  Sharing = FALSE
  ReadSizes <- FullRead
  CopyMayFail = FALSE
INVARIANTS SingleHolder NoPhantomPress LossOnlyInWindow
PROPERTIES LedgerSpec PressEndsSelect CallReturns
