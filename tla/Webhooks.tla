------------------------------ MODULE Webhooks ------------------------------
(***************************************************************************)
(* Deliveries of events from the automation.  A delivery inserts the row   *)
(* of its event before it handles it; a second insert of the same id waits *)
(* for the first transaction to end.  That is after the answer: the        *)
(* framework sends it before the session's dependency commits, so an       *)
(* accepted event may still be rolled back.                                *)
(* The id is made from the payload: different events may have one id, and  *)
(* then the second is taken for a duplicate.                               *)
(***************************************************************************)
EXTENDS Naturals, FiniteSets

CONSTANTS
  Ids,         \* event ids
  Deliveries,  \* requests, each a delivery; after its answer it may come again
  MaxAnswers   \* bound: answers counted for an id

VARIABLES
  stored,      \* webhook_events: ids that are committed
  delivery,    \* where each delivery is
  accepted,    \* history: answers that were no duplicate, for each id
  denied,      \* history: ids some delivery was told to be duplicates
  undone       \* history: ids that were accepted and then rolled back

vars == <<stored, delivery, accepted, denied, undone>>

Idle == [at |-> "idle"]

TypeOK ==
  /\ stored \subseteq Ids
  /\ delivery \in [Deliveries -> {Idle} \cup
                     [at : {"unseen", "inserted", "answered", "lost"}, id : Ids]]
  /\ accepted \in [Ids -> 0..MaxAnswers]
  /\ denied \subseteq Ids /\ undone \subseteq Ids

Init ==
  /\ stored = {}
  /\ delivery = [d \in Deliveries |-> Idle]
  /\ accepted = [i \in Ids |-> 0]
  /\ denied = {} /\ undone = {}

Goes(d, at, id) == delivery' = [delivery EXCEPT ![d] = [at |-> at, id |-> id]]
Ends(d) == delivery' = [delivery EXCEPT ![d] = Idle]

(* ensure_unique: the SELECT.  A row that is there is a duplicate.         *)
LookUp(d, id) ==
  /\ delivery[d] = Idle
  /\ IF id \in stored
       THEN denied' = denied \cup {id} /\ UNCHANGED delivery
       ELSE Goes(d, "unseen", id) /\ UNCHANGED denied
  /\ UNCHANGED <<stored, accepted, undone>>

HeldMutant(id) == FALSE  \* the index is not unique

(* Another transaction has inserted the id and is still open.              *)
Held(id) ==
  \E d \in Deliveries :
    delivery[d].at \in {"inserted", "answered"} /\ delivery[d].id = id

Taken(id) == id \in stored

(* ensure_unique: the flush.                                               *)
Insert(d) ==
  /\ delivery[d].at = "unseen"
  /\ LET id == delivery[d].id
     IN /\ ~Held(id)
        /\ Goes(d, IF Taken(id) THEN "lost" ELSE "inserted", id)
  /\ UNCHANGED <<stored, accepted, denied, undone>>

(* IntegrityError: roll back, and the answer is that it is a duplicate.    *)
LosesRace(d) ==
  /\ delivery[d].at = "lost"
  /\ denied' = denied \cup {delivery[d].id}
  /\ Ends(d)
  /\ UNCHANGED <<stored, accepted, undone>>

(* mark_processed, and the answer.  The handlers only log.                 *)
Processed(d) ==
  /\ delivery[d].at = "inserted"
  /\ LET id == delivery[d].id
     IN /\ accepted[id] < MaxAnswers
        /\ accepted' = [accepted EXCEPT ![id] = @ + 1]
        /\ Goes(d, "answered", id)
  /\ UNCHANGED <<stored, denied, undone>>

(* get_db goes on behind its yield.                                        *)
Commit(d) ==
  /\ delivery[d].at = "answered"
  /\ stored' = stored \cup {delivery[d].id}
  /\ Ends(d)
  /\ UNCHANGED <<accepted, denied, undone>>

(* The handler raises, the commit fails or the process stops: all that the *)
(* delivery wrote is rolled back, the mark of mark_failed with it.         *)
Fails(d) ==
  /\ delivery[d] # Idle
  /\ undone' = undone \cup
       {id \in Ids : delivery[d].at = "answered" /\ delivery[d].id = id}
  /\ Ends(d)
  /\ UNCHANGED <<stored, accepted, denied>>

Next ==
  \E d \in Deliveries :
    \/ \E id \in Ids : LookUp(d, id)
    \/ Insert(d) \/ LosesRace(d) \/ Processed(d) \/ Commit(d) \/ Fails(d)

Spec == Init /\ [][Next]_vars

-----------------------------------------------------------------------------
(* However deliveries overlap and fail: an event is accepted again only if *)
(* it was accepted and then rolled back, and who is told of a duplicate    *)
(* can rely on it that the row of the event is committed.                  *)
AcceptedOnce ==
  /\ \A id \in Ids \ undone : accepted[id] <= 1
  /\ denied \subseteq stored
=============================================================================
