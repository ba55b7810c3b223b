---------------------------- MODULE Notifications ----------------------------
(***************************************************************************)
(* Devices of users, pushes to them, and the rows of the inbox.  A push    *)
(* stores its row, counts the devices, then loads them anew and calls the  *)
(* gateway for one after the other.  The load is awaited, so the devices   *)
(* may change before the calls, and before what a call says is committed;  *)
(* the calls themselves do not yield.                                      *)
(***************************************************************************)
EXTENDS Rows, Naturals, FiniteSets

CONSTANTS Users, Devices, Requests,
  MaxInbox,    \* bound: rows of the inbox
  None         \* no row

VARIABLES
  device,      \* device_tokens
  inbox,       \* notifications
  req,
  strays       \* history: what pushes did to a device of somebody else

vars == <<device, inbox, req, strays>>

DeviceRow == [owner : Users, active : BOOLEAN]
InboxRow == [user : Users, channel : {"PUSH_NOTIFICATION", "IN_APP", "PUSH"},
             sent : BOOLEAN]

Idle == [op |-> "idle"]

(* The columns of a device a request has to write.                         *)
Change == {<<>>} \cup DeviceRow \cup [owner : Users] \cup [active : BOOLEAN]

Request ==
  {Idle}
  \cup [op : {"register"}, device : Devices, new : BOOLEAN, change : Change]
  \cup [op : {"unregister"}, device : Devices, change : Change]
  \cup [op : {"counted"}, user : Users, devices : SUBSET Devices]
  \cup [op : {"loaded"}, user : Users, devices : SUBSET Devices,
        taken : SUBSET Devices]
  \cup [op : {"pushed"}, user : Users, sent : BOOLEAN, gone : SUBSET Devices,
        taken : SUBSET Devices]

(* taken: somebody else registered the device after the push had loaded it *)
Stray == [user : Users, device : Devices, taken : BOOLEAN]

TypeOK ==
  /\ device \in [Devices -> DeviceRow \cup {None}]
  /\ inbox \subseteq InboxRow
  /\ req \in [Requests -> Request]
  /\ strays \subseteq Stray

Init ==
  /\ device = [d \in Devices |-> None]
  /\ inbox = {}
  /\ req = [r \in Requests |-> Idle]
  /\ strays = {}

Exists(d) == device[d] # None
ActiveOf(u) == {d \in Devices : Exists(d) /\ device[d].owner = u /\ device[d].active}

Stores(rows) ==
  /\ inbox' = inbox \cup rows
  /\ Cardinality(inbox') <= MaxInbox

Starts(r, local) ==
  /\ req[r] = Idle
  /\ req' = [req EXCEPT ![r] = local]

Ends(r) == req' = [req EXCEPT ![r] = Idle]

(* POST /notifications/devices: whoever registers a device has it.         *)
ReadForRegister(r, u, d) ==
  /\ LET row == [owner |-> u, active |-> TRUE]
     IN Starts(r, [op |-> "register", device |-> d, new |-> ~Exists(d),
                   change |-> IF Exists(d) THEN Changes(device[d], row) ELSE row])
  /\ UNCHANGED <<device, inbox, strays>>

Pushing(q) == q.op \in {"loaded", "pushed"}

(* A push under way whose device goes to somebody else.                    *)
Noticed(q, d, owner) ==
  IF Pushing(q) /\ q.user # owner THEN [q EXCEPT !.taken = @ \cup {d}] ELSE q

(* The token is unique; a row that is there is taken over.                 *)
CommitRegister(r) ==
  /\ req[r].op = "register"
  /\ LET d == req[r].device
         row == IF req[r].new THEN req[r].change ELSE Written(req[r].change, device[d])
     IN /\ req[r].new => ~Exists(d)
        /\ device' = [device EXCEPT ![d] = row]
        /\ req' = [p \in Requests |->
                     IF p = r THEN Idle ELSE Noticed(req[p], d, row.owner)]
  /\ UNCHANGED <<inbox, strays>>

(* DELETE /notifications/devices/{token}, by its owner.                    *)
ReadForUnregister(r, d) ==
  /\ Exists(d)
  /\ LET row == [device[d] EXCEPT !.active = FALSE]
     IN Starts(r, [op |-> "unregister", device |-> d, change |-> Changes(device[d], row)])
  /\ UNCHANGED <<device, inbox, strays>>

CommitUnregister(r) ==
  /\ req[r].op = "unregister"
  /\ device' = [device EXCEPT ![req[r].device] = Written(req[r].change, @)]
  /\ Ends(r)
  /\ UNCHANGED <<inbox, strays>>

(* POST /internal/notifications/push: no device, no push.                  *)
Count(r, u) ==
  /\ Starts(r, IF ActiveOf(u) = {}
                 THEN [op |-> "pushed", user |-> u, sent |-> FALSE, gone |-> {},
                       taken |-> {}]
                 ELSE [op |-> "counted", user |-> u, devices |-> ActiveOf(u)])
  /\ UNCHANGED <<device, inbox, strays>>

TargetsMutant(q) == q.devices  \* those that were counted

(* The devices send_push loads.                                            *)
Targets(q) == ActiveOf(q.user)

LoadDevices(r) ==
  /\ req[r].op = "counted"
  /\ req' = [req EXCEPT ![r] = [op |-> "loaded", user |-> @.user,
                                devices |-> Targets(@), taken |-> {}]]
  /\ UNCHANGED <<device, inbox, strays>>

(* Of these devices, those that are somebody else's now.                   *)
Strays(q, devices) ==
  {[user |-> q.user, device |-> d, taken |-> d \in q.taken] :
     d \in {e \in devices : device[e].owner # q.user}}

(* The gateway takes the pushes to some devices and says of others that    *)
(* they are gone; for the rest the call fails.                             *)
Push(r) ==
  /\ req[r].op = "loaded"
  /\ \E ok \in SUBSET req[r].devices : \E gone \in SUBSET (req[r].devices \ ok) :
       /\ req' = [req EXCEPT ![r] = [op |-> "pushed", user |-> @.user, sent |-> ok # {},
                                     gone |-> gone, taken |-> @.taken]]
       /\ strays' = strays \cup Strays(req[r], ok)
  /\ UNCHANGED <<device, inbox>>

(* The devices the gateway said to be gone are switched off.               *)
CommitPush(r) ==
  /\ req[r].op = "pushed"
  /\ Stores({[user |-> req[r].user, channel |-> "PUSH_NOTIFICATION",
              sent |-> req[r].sent]})
  /\ device' = [d \in Devices |-> IF d \in req[r].gone
                  THEN [device[d] EXCEPT !.active = FALSE] ELSE device[d]]
  /\ strays' = strays \cup Strays(req[r], req[r].gone)
  /\ Ends(r)

(* What was pushed stays pushed, its row does not exist.                   *)
Rollback(r) ==
  /\ req[r] # Idle
  /\ Ends(r)
  /\ UNCHANGED <<device, inbox, strays>>

(* POST /internal/notifications/in-app.                                    *)
StoreInApp(u) ==
  /\ Stores({[user |-> u, channel |-> "IN_APP", sent |-> FALSE]})
  /\ UNCHANGED <<device, req, strays>>

(* POST /notifications/broadcast stores rows as sent and sends nothing.    *)
Broadcast(to) ==
  /\ to # {}
  /\ Stores({[user |-> u, channel |-> "PUSH", sent |-> TRUE] : u \in to})
  /\ UNCHANGED <<device, req, strays>>

Handler(r) ==
  \/ \E d \in Devices :
       ReadForUnregister(r, d) \/ \E u \in Users : ReadForRegister(r, u, d)
  \/ \E u \in Users : Count(r, u)
  \/ CommitRegister(r) \/ CommitUnregister(r)
  \/ LoadDevices(r) \/ Push(r) \/ CommitPush(r) \/ Rollback(r)

Next ==
  \/ \E r \in Requests : Handler(r)
  \/ \E u \in Users : StoreInApp(u)
  \/ \E to \in SUBSET Users : Broadcast(to)

Spec == Init /\ [][Next]_vars

-----------------------------------------------------------------------------
(* A push for a user reaches a device of somebody else, or switches it     *)
(* off, only if that somebody registered it after the push had loaded the  *)
(* devices: that it was counted as the user's before is not enough.        *)
PushesReachOwner == \A s \in strays : s.taken
=============================================================================
