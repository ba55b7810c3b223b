--------------------------- MODULE MCOrderPayments ---------------------------
(***************************************************************************)
(* Instances of OrderPayments for TLC.                                     *)
(***************************************************************************)
EXTENDS OrderPayments, TLC

Symmetry ==
  Permutations(Payments) \cup Permutations(Requests)
    \cup Permutations(PayKeys) \cup Permutations(RefundKeys)
=============================================================================
