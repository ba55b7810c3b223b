------------------------------- MODULE MCTalk -------------------------------
(***************************************************************************)
(* Calls, chat and sockets, checked in one run.                            *)
(***************************************************************************)
EXTENDS Talk, TLC

Symmetry ==
  Permutations(Calls) \cup Permutations(Requests) \cup Permutations(Drivers)
    \cup Permutations(Sockets) \cup Permutations(Subscribers)
=============================================================================
