\* The gateway repeats a success whose first delivery was refused.
CONSTANTS
  Orders = {o1}
  Payments = {p1}
  Requests = {r1}
  PayKeys = {k1}
  RefundKeys = {f1}
  TxnNos = {n1}
  MaxEvents = 1
  Amount = 2
  Operations = {"pay", "webhook"}
  None = None
SPECIFICATION Spec
CHECK_DEADLOCK FALSE
INVARIANT DuplicateWasCollected
