\* Everything may happen, rmmod of an open device included.  The model stops
\* where the memory of a removed module is used, so it may deadlock there.
SPECIFICATION FairSpec
CHECK_DEADLOCK FALSE
CONSTANTS
  p1 = p1
  p2 = p2
  Idle = Idle
  Procs <- TwoProcs
  NKeys = 2
  MaxPress = 1
  Sharing = TRUE
  ReadSizes <- AnyRead
  CopyMayFail = TRUE
INVARIANTS StaleLines PendingSignalled NoLostWakeup ReadsHavePresses
PROPERTIES PressEndsRead
