CONSTANTS
  MaxPorts = 2
  Ports = {1, 2}
  Polled = {2}
  Socs <- MCSocs
  OtherStates = {"learning"}
  MaxFaults = 1
  MaxChanges = 1
SPECIFICATION Spec
INVARIANTS
  BitmapBacked
  FilterFollowsStp
  PublishedIsComplete
  UnloadedIsClean
CHECK_DEADLOCK FALSE
