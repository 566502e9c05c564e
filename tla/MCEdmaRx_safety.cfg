CONSTANTS
  RingSize = 2
  Skbs = {s1, s2}
  NumRxdesc = 2
  NumRxfill = 2
  Budget = 1
  NULL = NULL
SYMMETRY SkbSymmetry
SPECIFICATION Spec
INVARIANTS
  DmaSafe
  ReceivedValid
  BuffersAccounted
PROPERTIES
  KeepsPathSafety
