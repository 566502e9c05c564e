CONSTANTS
  Ports = {p1, p2}
  LinkPoll = {p2}
  MaxGmacs = 2
  NumIrqs = 2
  Faults = {"irq", "vsi_assign", "vsi_unassign"}
  MaxFaults = 2
  MaxRestores = 2
SPECIFICATION Spec
INVARIANTS
  NapiPaired
  OpenIsPolled
  CleanupOnce
  CarrierMatchesLink
PROPERTIES
  CleanedUpByLastOverride
CHECK_DEADLOCK FALSE
