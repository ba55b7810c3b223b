-------------------------------- MODULE Talk --------------------------------
(***************************************************************************)
(* Calls, chat, and the sockets they are announced on, side by side.  They *)
(* share no variables, so each runs alone: component says which, and the   *)
(* others stay in their initial states.  Chat is extended, for its names   *)
(* to stay, and the others are instances.                                  *)
(***************************************************************************)
EXTENDS Chat

CONSTANTS
  Calls,
  Couriers,    \* drivers that take part in calls
  Strangers,   \* users that have nothing to do with the calls' order
  Subscribers, \* users that connect
  Sockets,
  Rooms,
  Senders,     \* messages under way to sockets at one time
  MaxEntries   \* bound: entries of a subscriber

ASSUME BoundAssumption == MaxEntries \in Nat

VARIABLES component,
  call, req, past,
  connections, rooms, socket, send, left, skipped

C == INSTANCE Calls WITH Drivers <- Couriers, Others <- Strangers
S == INSTANCE Sockets WITH Users <- Subscribers

(* That there is no call is told from every call, no reason from every one. *)
ASSUME NoneAssumption == None \notin C!CallRow \cup C!Reasons

callVars == <<call, req, past>>
socketVars == <<connections, rooms, socket, send, left, skipped>>
allVars == <<component, vars, callVars, socketVars>>

AllInit == component \in {"calls", "chat", "sockets"} /\ C!Init /\ Init /\ S!Init

AllNext ==
  /\ UNCHANGED component
  /\ \/ component = "calls" /\ C!Next /\ UNCHANGED <<vars, socketVars>>
     \/ component = "chat" /\ Next /\ UNCHANGED <<callVars, socketVars>>
     \/ component = "sockets" /\ S!Next /\ UNCHANGED <<callVars, vars>>

AllSpec == AllInit /\ [][AllNext]_allVars

-----------------------------------------------------------------------------
(* The variables of all components have the values their modules say.      *)
TypesOK == C!TypeOK /\ TypeOK /\ S!TypeOK

(* A call ends once, and is not answered after it was said to be missed.   *)
CallsAreFinal == C!CallsAreFinal

(* Cleaning up one socket of a user leaves the others registered.          *)
ConnectionsSound == S!ConnectionsSound

(* A message skips no open socket of its user.                             *)
SendReachesAll == S!SendReachesAll
=============================================================================
