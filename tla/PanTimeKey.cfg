\* Two processes that may share a descriptor, two keys.
SPECIFICATION FairSpec
CONSTANTS
  p1 = p1
  p2 = p2
  k1 = k1
  k2 = k2
  Procs <- TwoProcs
  Keys <- TwoKeys
  OneAtATime = TRUE
INVARIANTS Debounced PressedSignalled NoLostWakeup
PROPERTIES HeldKeyWakes
