-------------------------------- MODULE Rows --------------------------------
(***************************************************************************)
(* How a session writes a row it loaded: of the columns a handler assigned *)
(* only those whose value changed are in the UPDATE; the others keep what  *)
(* is stored by then.                                                      *)
(***************************************************************************)
ChangesMutant(seen, new) == new  \* every column is in the UPDATE

(* What the handler that loaded seen and left new will write.              *)
Changes(seen, new) == [f \in {g \in DOMAIN seen : new[g] # seen[g]} |-> new[f]]

(* The row after that UPDATE of what is stored.                            *)
Written(changes, stored) ==
  [f \in DOMAIN changes \cup DOMAIN stored |->
     IF f \in DOMAIN changes THEN changes[f] ELSE stored[f]]
=============================================================================
