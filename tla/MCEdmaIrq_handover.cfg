CONSTANTS
  NumRings = 2
  NumRxdesc = 1
  CPUs = {c1, c2}
  Budget = 1
  MaxWork = 2
SPECIFICATION FairSpec
INVARIANTS
  EnabledUnlessForgotten
PROPERTIES
  WorkIsPolled
