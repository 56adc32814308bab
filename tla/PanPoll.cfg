\* Three processes: a writer beside two readers, or a reader that is still
\* copying while another writes and a third selects.
SPECIFICATION FairSpec
CONSTANTS
  p1 = p1
  p2 = p2
  p3 = p3
  Procs <- ThreeProcs
  MaxWrites = 1
INVARIANTS FlagAccount NoLostWakeup
PROPERTIES EmptyHanded WriteEndsSelect BeepFollowsKey
