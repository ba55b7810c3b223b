\* A status change beside a cancellation.
CONSTANTS
  Orders = {o1}
  Payments = {p1}
  Requests = {r1, r2}
  PayKeys = {k1, k2}
  RefundKeys = {f1}
  TxnNos = {n1}
  MaxEvents = 1
  Amount = 2
  Operations = {"status", "cancel"}
  None = None
SPECIFICATION Spec
CHECK_DEADLOCK FALSE
PROPERTY ContractSpec
