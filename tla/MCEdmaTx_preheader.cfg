CONSTANTS
  RingSize = 2
  Skbs = {s1, s2, s3}
  Netdevs = {eth0}
  NumTxQueues = 1
  NULL = NULL
SYMMETRY SkbSymmetry
SPECIFICATION Spec
INVARIANTS
  OnePreheader
