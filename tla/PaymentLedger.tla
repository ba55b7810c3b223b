---------------------------- MODULE PaymentLedger ----------------------------
(***************************************************************************)
(* What the payment component promises about money, without orders,        *)
(* requests, locks or idempotency keys: a payment is captured at most once *)
(* and stays captured, only a captured payment is paid back, and never by  *)
(* more than it was.                                                       *)
(***************************************************************************)
EXTENDS Naturals

CONSTANTS Payments, Amount

VARIABLES
  captured,   \* payments the gateway collected
  paidBack    \* what was returned of each, in completed refunds

vars == <<captured, paidBack>>

Init ==
  /\ captured = {}
  /\ paidBack = [p \in Payments |-> 0]

Capture(p) ==
  /\ p \notin captured
  /\ captured' = captured \cup {p}
  /\ UNCHANGED paidBack

PayBack(p, amount) ==
  /\ p \in captured
  /\ amount > 0 /\ paidBack[p] + amount <= Amount
  /\ paidBack' = [paidBack EXCEPT ![p] = @ + amount]
  /\ UNCHANGED captured

Next ==
  \E p \in Payments :
    \/ Capture(p)
    \/ \E amount \in 1..Amount : PayBack(p, amount)

Spec == Init /\ [][Next]_vars
=============================================================================
