CONSTANTS
  RingSize = 2
  Skbs = {s1, s2, s3}
  Netdevs = {eth0}
  NumTxQueues = 2
  NULL = NULL
SYMMETRY SkbSymmetry
SPECIFICATION Spec
INVARIANTS
  DmaSafe
  CompletionsValid
  SkbAccounting
