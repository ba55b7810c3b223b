\* A driver accepts while the timer fires.
CONSTANTS
  Orders = {o1}
  Drivers = {d1}
  Requests = {r1, r2}
  FirstStatus = "PREPARING"
  MaxRows = 2
  Operations = {"status", "accept"}
  Failing = {}
  None = None
SPECIFICATION Spec
CHECK_DEADLOCK FALSE
INVARIANTS
  DriverHoldsAssignment
