---------------------------- MODULE MCAutomation ----------------------------
(***************************************************************************)
(* The instance of Automation for TLC: one cart, two users whose vouchers  *)
(* share two codes, two events, two campaigns that want one code, and one  *)
(* device.                                                                 *)
(***************************************************************************)
EXTENDS Automation

CONSTANTS u1, u2, code, codeU, codeU1, codeU2

CandidatesOf == [u \in {u1, u2} |->
  IF u = u1 THEN <<code, codeU, codeU1>> ELSE <<code, codeU, codeU2>>]

(* A fresh activity in an open shop, and those that differ in one respect. *)
ActivitiesOf ==
  LET usual == [active |-> TRUE, open |-> TRUE, old |-> FALSE]
  IN {usual, [usual EXCEPT !.active = FALSE], [usual EXCEPT !.open = FALSE],
      [usual EXCEPT !.old = TRUE]}
=============================================================================
