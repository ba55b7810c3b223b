\* Two handlers at a time: offers end, under fairness.
CONSTANTS
  Orders = {o1}
  Drivers = {d1}
  Requests = {r1, r2}
  FirstStatus = "PREPARING"
  MaxRows = 4
  Operations = {"status", "cancel", "release", "accept", "reject", "OFFLINE"}
  Failing = {}
  None = None
SPECIFICATION FairSpec
CHECK_DEADLOCK FALSE
INVARIANTS
  TypeOK
PROPERTIES
  OffersEnd
