------------------------------ MODULE Drivers -------------------------------
(***************************************************************************)
(* The profile row of one driver: created with the first request of the    *)
(* driver's app, edited by the driver, moved by positions, and counting    *)
(* ended orders: deliveries, and cancellations like them.  Handlers load   *)
(* the row, then write the columns they changed; an order that ends writes *)
(* its own row first, so a second request for the same order waits before  *)
(* it loads the driver.  Every profile is approved when it is created, and *)
(* nothing suspends one.                                                   *)
(***************************************************************************)
EXTENDS Naturals, FiniteSets, Rows

CONSTANTS Orders, Places, Requests, MaxFinishes

VARIABLES
  driver,     \* the row, None before the first request
  positions,  \* driver_locations: the place of the last row
  finished,   \* history: how often a request ended an order of the driver
  req,
  raced       \* history: columns that two requests were writing at once

vars == <<driver, positions, finished, req, raced>>
stored == <<driver, positions, finished>>

None == [f \in {} |-> TRUE]
Nowhere == "nowhere"

Statuses == {"OFFLINE", "ONLINE", "BUSY"}
Driver == [status : Statuses, vehicle : {"old", "new"},
           place : Places \cup {Nowhere}, total_deliveries : Nat]
Created == [status |-> "OFFLINE", vehicle |-> "old",
            place |-> Nowhere, total_deliveries |-> 0]

Idle == [op |-> "idle"]

TypeOK ==
  /\ driver \in Driver \cup {None}
  /\ positions \in Places \cup {Nowhere}
  /\ finished \in 0..MaxFinishes
  /\ \A r \in Requests :
       \/ req[r] = Idle
       \/ req[r].op = "ends" /\ req[r].order \in Orders
       \/ /\ req[r].op \in {"create", "edit", "move", "count"}
          /\ DOMAIN req[r].writes \subseteq DOMAIN Created
  /\ raced \subseteq {"place", "total_deliveries"}

Init ==
  /\ driver = None /\ positions = Nowhere /\ finished = 0
  /\ req = [r \in Requests |-> Idle]
  /\ raced = {}

Running(op) == {q \in Requests : req[q].op = op}

EditedMutant(row) ==  \* the status is not validated
  {[row EXCEPT !.status = s] : s \in Statuses \cup {"AWAY"}}

(* What a request of the driver's app asks to change.                      *)
Edited(row) ==
  {[row EXCEPT !.vehicle = "new"]} \cup {[row EXCEPT !.status = s] : s \in Statuses}

Moved(row, p) == [row EXCEPT !.place = p]

(* get_or_create_driver_profile, and what the first request goes on to do  *)
(* in the same transaction.                                                *)
ReadForCreate(r) ==
  /\ driver = None /\ req[r] = Idle
  /\ \/ \E row \in {Created} \cup Edited(Created) :
          req' = [req EXCEPT ![r] = [op |-> "create", writes |-> row]]
     \/ \E p \in Places :
          req' = [req EXCEPT ![r] =
            [op |-> "create", writes |-> Moved(Created, p), place |-> p]]
  /\ UNCHANGED <<stored, raced>>

(* PATCH /drivers/profile and POST /drivers/profile/status.                *)
ReadForEdit(r) ==
  /\ req[r] = Idle /\ driver # None
  /\ \E row \in Edited(driver) :
       req' = [req EXCEPT ![r] = [op |-> "edit", writes |-> Changes(driver, row)]]
  /\ UNCHANGED <<stored, raced>>

(* POST /drivers/profile/location.                                         *)
ReadForMove(r, p) ==
  /\ req[r] = Idle /\ driver # None
  /\ req' = [req EXCEPT ![r] =
       [op |-> "move", writes |-> Changes(driver, Moved(driver, p)), place |-> p]]
  /\ raced' = IF Running("move") # {} THEN raced \cup {"place"} ELSE raced
  /\ UNCHANGED stored

(* A delivery or a cancellation writes its order: the row lock is taken.   *)
EndOrder(r, o) ==
  /\ req[r] = Idle /\ driver # None
  /\ \A q \in Running("ends") \cup Running("count") : req[q].order # o
  /\ req' = [req EXCEPT ![r] = [op |-> "ends", order |-> o]]
  /\ UNCHANGED <<stored, raced>>

CountedMutant(row) == [row EXCEPT !.status = "ONLINE"]  \* not counted

Counted(row) == [row EXCEPT !.status = "ONLINE", !.total_deliveries = @ + 1]

(* _mark_driver_available_after_delivery.                                  *)
ReadForCount(r) ==
  /\ req[r].op = "ends"
  /\ finished + Cardinality(Running("count")) < MaxFinishes
  /\ req' = [req EXCEPT ![r] =
       [op |-> "count", order |-> req[r].order,
        writes |-> Changes(driver, Counted(driver))]]
  /\ raced' = IF Running("count") # {} THEN raced \cup {"total_deliveries"} ELSE raced
  /\ UNCHANGED stored

(* With a position goes a row of driver_locations.                         *)
Recorded(r) == IF "place" \in DOMAIN req[r] THEN req[r].place ELSE positions

(* user_id is unique: one of two first requests fails.                     *)
CommitCreate(r) ==
  /\ req[r].op = "create" /\ driver = None
  /\ driver' = req[r].writes
  /\ positions' = Recorded(r)
  /\ req' = [req EXCEPT ![r] = Idle]
  /\ UNCHANGED <<finished, raced>>

Commit(r) ==
  /\ req[r].op \in {"edit", "move", "count"}
  /\ driver' = Written(req[r].writes, driver)
  /\ positions' = Recorded(r)
  /\ finished' = IF req[r].op = "count" THEN finished + 1 ELSE finished
  /\ req' = [req EXCEPT ![r] = Idle]
  /\ UNCHANGED raced

(* Dispatch sets the status by an UPDATE, without loading the row.         *)
DispatchSets(s) ==
  /\ driver # None
  /\ driver' = [driver EXCEPT !.status = s]
  /\ UNCHANGED <<positions, finished, req, raced>>

Rollback(r) ==
  /\ req[r] # Idle
  /\ req' = [req EXCEPT ![r] = Idle]
  /\ UNCHANGED <<stored, raced>>

Next ==
  \/ \E s \in {"ONLINE", "BUSY"} : DispatchSets(s)
  \/ \E r \in Requests :
    \/ ReadForCreate(r) \/ CommitCreate(r)
    \/ ReadForEdit(r)
    \/ \E p \in Places : ReadForMove(r, p)
    \/ \E o \in Orders : EndOrder(r, o)
    \/ ReadForCount(r)
    \/ Commit(r)
    \/ Rollback(r)

Spec == Init /\ [][Next]_vars

-----------------------------------------------------------------------------
(* The counter is the number of requests that ended an order of the driver *)
(* (not of deliveries: cancellations and ends that two requests repeat     *)
(* count as well), and the place shown is that of the last position        *)
(* recorded.  Counts that overlap lose some but never add one, moves that  *)
(* overlap mix up; what else is written to the row meanwhile, by stale     *)
(* requests or by the dispatch, does not disturb either.                   *)
DriversSound ==
  driver # None =>
    /\ driver.total_deliveries <= finished
    /\ "total_deliveries" \notin raced => driver.total_deliveries = finished
    /\ "place" \notin raced => driver.place = positions
=============================================================================
