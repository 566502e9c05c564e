CONSTANTS
  RingSize = 2
  TxSkbs = {t1, t2, t3}
  RxSkbs = {r1}
  CPUs = {c1, c2}
  Budget = 1
  MaxLeaked = 1
  NULL = NULL
SPECIFICATION Spec
SYMMETRY Symmetry
INVARIANTS
  RingsInStep
  SkbsAccounted
  OnlyTxRaceBugs
  CleanupAlone
