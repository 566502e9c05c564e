CONSTANTS
  RingSize = 2
  Skbs = {s1, s2}
  Netdevs = {eth0}
  NumTxQueues = 2
  NULL = NULL
SPECIFICATION FairSpec
PROPERTIES
  SkbsAreReleased
  ResumedWhileWorkPending
  XmitReturns
