\* Two bytes of memory, "words" of two bits.
SPECIFICATION Spec
CONSTANTS
  p1 = p1
  p2 = p2
  f1 = f1
  f2 = f2
  Procs <- TwoProcs
  Files <- TwoFiles
  Size = 2
  Word = 4
  Offsets <- SomeOffsets
  Counts <- SomeCounts
SYMMETRY Symmetric
INVARIANTS TypeOK InBounds QueueOpen Announced
