\* Two requests of any kind and the gateway on one order with one payment.
CONSTANTS
  Orders = {o1}
  Payments = {p1}
  Requests = {r1, r2}
  PayKeys = {k1, k2}
  RefundKeys = {f1, f2}
  TxnNos = {n1}
  MaxEvents = 3
  Amount = 2
  Operations = {"status", "cancel", "pay", "refund", "assign", "release", "webhook"}
  None = None
SPECIFICATION Spec
SYMMETRY Symmetry
CHECK_DEADLOCK FALSE
INVARIANTS
  TypeOK
  PaidOrderConfirmed
PROPERTIES
  LifecycleSpec
