\* Two processes that may share descriptors, short and faulting reads, the
\* softirq prompt or deferred.
SPECIFICATION FairSpec
CONSTANTS
  p1 = p1
  p2 = p2
  Idle = Idle
  Procs <- TwoProcs
  NKeys = 2
  MaxPress = 1
  Sharing = TRUE
  ReadSizes <- AnyRead
  CopyMayFail = TRUE
\* after a BUG() the machine has stopped
CHECK_DEADLOCK FALSE
INVARIANTS NoOops TaskletAtRest PressScheduled
PROPERTIES PressEndsSelect ReleaseReturns
