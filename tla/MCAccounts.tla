------------------------------ MODULE MCAccounts ------------------------------
(***************************************************************************)
(* Instances of Accounts for TLC: the sessions of one user beside what     *)
(* another does with the rest of the account.                              *)
(***************************************************************************)
EXTENDS Accounts, TLC

CONSTANTS u1, u2, s1, s2

SlugSequence == <<s1, s2>>

OperationsOf ==
  (u1 :> {"registerMerchant", "login", "refresh", "logout", "logoutAll", "reset", "admin"})
  @@ (u2 :> {"register", "registerMerchant", "login", "password", "favourite"})

Promotion == {[role |-> "ADMIN", active |-> FALSE, verified |-> TRUE]}

Symmetry == Permutations(Tokens) \cup Permutations(Requests)
=============================================================================
