CONSTANTS
  MacTypes = {"qcom", "gmac"}
  Addrs <- MCAddrs
  Mtus = {1500, 9000}
  o1 = o1
  o2 = o2
  o3 = o3
  Overlays <- MCOverlays
  Lacks <- MCLacks
  Capabilities <- MCCapabilities
  EeeRequests <- MCEeeRequests
  MaxFaults = 1
  MaxChanges = 1
  MaxSwaps = 3
SPECIFICATION Spec
INVARIANTS
  SettingsReported
  DataPlaneReady
  CallsAreSound
CHECK_DEADLOCK FALSE
