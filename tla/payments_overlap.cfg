\* Two requests and the gateway on one order with two payments.
CONSTANTS
  Orders = {o1}
  Payments = {p1, p2}
  Requests = {r1, r2}
  PayKeys = {k1, k2}
  RefundKeys = {f1, f2}
  TxnNos = {n1}
  MaxEvents = 4
  Amount = 2
  Operations = {"cancel", "pay", "refund", "webhook"}
  None = None
SPECIFICATION Spec
SYMMETRY Symmetry
CHECK_DEADLOCK FALSE
INVARIANTS
  CollectedIffEvent
  RefundedIsCovered
  PaymentsKeyed
  RefundsKeyed
PROPERTIES
  LedgerSpec
  RefundsWithinPayment
