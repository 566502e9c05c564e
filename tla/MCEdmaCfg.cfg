CONSTANTS
  Trees <- MCTrees
  Bufs = {b1, b2, b3}
SPECIFICATION Spec
SYMMETRY BufSymmetry
INVARIANTS
  MapsAgree
  RingsBacked
  InitFailureReleases
  CleanupReleases
