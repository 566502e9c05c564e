CONSTANTS
  RingSize = 4
  Skbs = {s1, s2}
  NumRxdesc = 1
  NumRxfill = 1
  Budget = 1
  NULL = NULL
SPECIFICATION FairSpec
PROPERTIES
  ImplementsPath
  NotStarved
