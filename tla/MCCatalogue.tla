---------------------------- MODULE MCCatalogue -----------------------------
(***************************************************************************)
(* Menus, ratings, driver profiles and settings, checked in one run.  Two  *)
(* names serve as shops, as places and as versions of the settings.        *)
(***************************************************************************)
EXTENDS Catalogue, TLC

Symmetry == Permutations(Shops) \cup Permutations(Orders) \cup Permutations(Requests)
=============================================================================
