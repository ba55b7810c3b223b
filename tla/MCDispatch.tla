------------------------------ MODULE MCDispatch ------------------------------
(***************************************************************************)
(* Instances of Dispatch for TLC.                                          *)
(***************************************************************************)
EXTENDS Dispatch, TLC

Symmetry ==
  Permutations(Drivers) \cup Permutations(Orders) \cup Permutations(Requests)
=============================================================================
