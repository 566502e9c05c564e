CONSTANTS
  RingSize = 2
  TxSkbs = {t1}
  RxSkbs = {r1}
  CPUs = {c1}
  Budget = 1
  MaxLeaked = 0
  NULL = NULL
SPECIFICATION FairSpec
PROPERTIES
  TxReleased
  RxTaken
  RxRecovers
