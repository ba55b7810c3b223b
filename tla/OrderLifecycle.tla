---------------------------- MODULE OrderLifecycle ----------------------------
(***************************************************************************)
(* The life of an order: it moves along the edges of the transition table  *)
(* and of a set of exceptions to the table.  With no exceptions these are  *)
(* the transitions docs/financial-contract-phase0.md lists; the code makes *)
(* three more, and the modules that implement this one name them.  An      *)
(* order that is loose may go anywhere: a late write of a request that     *)
(* read it in another status is about to hit it.                           *)
(***************************************************************************)
EXTENDS OrderTypes

CONSTANTS
  Orders,
  First,       \* the status an order is met in first
  Exceptions   \* pairs of statuses: further edges

VARIABLES status, loose

Init == status = [o \in Orders |-> First]

Edge(s, t) == t \in AllowedTransitions(s) \/ <<s, t>> \in Exceptions

Step(o, t) ==
  /\ status' = [status EXCEPT ![o] = t]
  /\ Edge(status[o], t) \/ o \in loose

Next == \E o \in Orders, t \in OrderStatus : Step(o, t)

Spec == Init /\ [][Next]_status
=============================================================================
