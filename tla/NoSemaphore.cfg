\* Three writers; writes shorter than the buffer and too long for it;
\* positions at the start, inside and at the end.
SPECIFICATION WriteSpec
CONSTANTS
  p1 = p1
  p2 = p2
  p3 = p3
  Zero = Zero
  Procs <- ThreeProcs
  WriteSize = 3
  Sizes = {2, 4}
  Positions = {0, 1, 3}
SYMMETRY ProcSymmetry
INVARIANT LineSigned
