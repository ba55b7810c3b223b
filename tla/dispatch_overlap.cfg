\* Two handlers at a time, two drivers.
CONSTANTS
  Orders = {o1}
  Drivers = {d1, d2}
  Requests = {r1, r2}
  FirstStatus = "PREPARING"
  MaxRows = 2
  Operations = {"status", "cancel", "release", "accept", "reject", "manual", "admin", "restart"}
  Failing = {"release", "expire"}
  None = None
SPECIFICATION Spec
SYMMETRY Symmetry
CHECK_DEADLOCK FALSE
INVARIANTS
  DriverByAnswer
PROPERTIES
  AskedGrows
  OneAnswer
  LifecycleSpec
