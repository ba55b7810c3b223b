\* One request at a time: a paid order is cancelled at the status endpoint.
CONSTANTS
  Orders = {o1}
  Payments = {p1}
  Requests = {r1}
  PayKeys = {k1}
  RefundKeys = {f1}
  TxnNos = {n1}
  MaxEvents = 1
  Amount = 2
  Operations = {"pay", "status", "webhook"}
  None = None
SPECIFICATION Spec
CHECK_DEADLOCK FALSE
PROPERTY CancelledWithRefund
