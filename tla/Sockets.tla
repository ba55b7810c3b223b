------------------------------- MODULE Sockets -------------------------------
(***************************************************************************)
(* Connections of users and what is sent to them.  All of it runs in one   *)
(* event loop: a step ends where the code awaits.  A message is sent to    *)
(* one socket of the user after the other, and while it waits for one,     *)
(* sockets come and go.                                                    *)
(***************************************************************************)
EXTENDS Naturals, SequencesExt

CONSTANTS
  Users, Sockets,
  Rooms,
  Senders,      \* messages under way at one time
  MaxEntries,   \* bound: entries of a user
  None          \* not connected, no such room

VARIABLES
  connections,  \* _connections: an empty sequence is no entry
  rooms,        \* _rooms
  socket,       \* what becomes of each socket
  send,         \* the calls of send_personal that are under way
  left,         \* history: users that joined on a socket no longer registered
  skipped       \* history: a socket that stayed open did not get a message

vars == <<connections, rooms, socket, send, left, skipped>>

(* A socket is open or broken while its loop runs, then gone; user is the  *)
(* one it connected as last.                                               *)
Socket == [is : {"open", "broken", "gone"}, user : Users \cup {None}]
Idle == [to |-> None]

TypeOK ==
  /\ \A u \in Users : connections[u] \in Seq(Sockets) /\ Len(connections[u]) <= MaxEntries
  /\ rooms \in [Rooms -> (SUBSET Users) \cup {None}]
  /\ socket \in [Sockets -> Socket]
  /\ \A m \in Senders : send[m] = Idle \/
       /\ send[m].to \in Users /\ send[m].rest \in Seq(Sockets)
       /\ send[m].owed \subseteq Sockets
  /\ left \subseteq Users /\ skipped \in BOOLEAN

Init ==
  /\ connections = [u \in Users |-> <<>>]
  /\ rooms = [x \in Rooms |-> None]
  /\ socket = [s \in Sockets |-> [is |-> "open", user |-> None]]
  /\ send = [m \in Senders |-> Idle]
  /\ left = {} /\ skipped = FALSE

Entries(u) == {connections[u][i] : i \in DOMAIN connections[u]}
Members(x) == IF rooms[x] = None THEN {} ELSE rooms[x]

-----------------------------------------------------------------------------
(* A CONNECT frame; a second one adds the socket again, for its new user.  *)
Connect(s, u) ==
  /\ socket[s].is = "open" /\ Len(connections[u]) < MaxEntries
  /\ connections' = [connections EXCEPT ![u] = Append(@, s)]
  /\ socket' = [socket EXCEPT ![s].user = u]
  /\ UNCHANGED <<rooms, send, left, skipped>>

(* A CONNECT frame without a valid token: the endpoint returns, and leaves *)
(* registered what was.                                                    *)
Refuse(s) ==
  /\ socket[s].is = "open"
  /\ socket' = [socket EXCEPT ![s].is = "gone"]
  /\ UNCHANGED <<connections, rooms, send, left, skipped>>

(* Sending to it fails from now on; its loop has not noticed yet.          *)
Break(s) ==
  /\ socket[s].is = "open"
  /\ socket' = [socket EXCEPT ![s].is = "broken"]
  /\ UNCHANGED <<connections, rooms, send, left, skipped>>

Join(s, x) ==
  LET u == socket[s].user
  IN /\ socket[s].is # "gone" /\ u # None
     /\ rooms' = [rooms EXCEPT ![x] = Members(x) \cup {u}]
     /\ left' = IF connections[u] = <<>> THEN left \cup {u} ELSE left
     /\ UNCHANGED <<connections, socket, send, skipped>>

Leave(s, x) ==
  LET u == socket[s].user
      rest == Members(x) \ {u}
  IN /\ socket[s].is # "gone" /\ u # None /\ rooms[x] # None
     /\ rooms' = [rooms EXCEPT ![x] = IF rest = {} THEN None ELSE rest]
     /\ UNCHANGED <<connections, socket, send, left, skipped>>

WithoutMutant(entries, s) == <<>>  \* the user's key is deleted

(* One entry of the socket goes, the user's others stay.                   *)
Without(entries, s) == RemoveFirst(entries, s)

(* disconnect: the rooms of a user without connections stay, if empty.     *)
Disconnect(s) ==
  LET u == socket[s].user
  IN /\ socket[s].is # "gone"
     /\ socket' = [socket EXCEPT ![s].is = "gone"]
     /\ IF u = None \/ connections[u] = <<>>
          THEN UNCHANGED <<connections, rooms, left>>
          ELSE /\ connections' = [connections EXCEPT ![u] = Without(@, s)]
               /\ IF connections'[u] = <<>>
                    THEN /\ rooms' = [x \in Rooms |->
                              IF rooms[x] = None THEN None ELSE rooms[x] \ {u}]
                         /\ left' = left \ {u}
                    ELSE UNCHANGED <<rooms, left>>
     /\ UNCHANGED <<send, skipped>>

-----------------------------------------------------------------------------
(* send_personal goes through a copy of the list; owed is history.         *)
StartSend(m, u) ==
  /\ send[m] = Idle /\ connections[u] # <<>>
  /\ send' = [send EXCEPT ![m] = [to |-> u, rest |-> connections[u], owed |-> Entries(u)]]
  /\ UNCHANGED <<connections, rooms, socket, left, skipped>>

(* A room nobody is left in is removed.                                    *)
RoomWithout(x, u) == IF Members(x) \subseteq {u} THEN None ELSE rooms[x] \ {u}

(* _remove_connection.                                                     *)
RemoveConnection(s, u) ==
  IF connections[u] = <<>> THEN UNCHANGED <<connections, rooms, left>>
  ELSE /\ connections' = [connections EXCEPT ![u] = Without(@, s)]
       /\ IF connections'[u] = <<>>
            THEN /\ rooms' = [x \in Rooms |-> RoomWithout(x, u)]
                 /\ left' = left \ {u}
            ELSE UNCHANGED <<rooms, left>>

RestMutant(m) ==  \* goes through the list itself, by position
  LET u == send[m].to
      i == Len(send[m].rest) - 1
      n == Len(connections'[u])
  IN IF i <= n THEN SubSeq(connections'[u], n - i + 1, n) ELSE connections'[u]

(* What is still to be sent after the first one of the rest.               *)
Rest(m) == Tail(send[m].rest)

SendNext(m) ==
  /\ send[m] # Idle /\ send[m].rest # <<>>
  /\ LET s == Head(send[m].rest)
         u == send[m].to
     IN /\ IF socket[s].is = "open"
             THEN UNCHANGED <<connections, rooms, left>>
             ELSE RemoveConnection(s, u)
        /\ send' = [send EXCEPT ![m] = [to |-> u, rest |-> Rest(m), owed |-> @.owed \ {s}]]
  /\ UNCHANGED <<socket, skipped>>

EndSend(m) ==
  /\ send[m] # Idle /\ send[m].rest = <<>>
  /\ skipped' = (skipped \/ \E s \in send[m].owed : socket[s].is = "open")
  /\ send' = [send EXCEPT ![m] = Idle]
  /\ UNCHANGED <<connections, rooms, socket, left>>

Next ==
  \/ \E s \in Sockets :
       \/ \E u \in Users : Connect(s, u)
       \/ \E x \in Rooms : Join(s, x) \/ Leave(s, x)
       \/ Refuse(s) \/ Break(s) \/ Disconnect(s)
  \/ \E m \in Senders :
       \/ \E u \in Users : StartSend(m, u)
       \/ SendNext(m) \/ EndSend(m)

Spec == Init /\ [][Next]_vars

-----------------------------------------------------------------------------
(* An open socket stays registered for the user it connected as, whichever *)
(* others of the user fail, disconnect or are cleaned up; and members of a *)
(* room are connected, unless they joined on a socket that was already     *)
(* cleaned up.                                                             *)
ConnectionsSound ==
  /\ \A s \in Sockets : socket[s].is = "open" /\ socket[s].user # None =>
       s \in Entries(socket[s].user)
  /\ \A x \in Rooms : \A u \in Members(x) : connections[u] # <<>> \/ u \in left

(* A message for a user goes to each socket that was registered when it    *)
(* began and is still open at its end: that sockets before it fail and are *)
(* removed on the way makes it skip none.                                  *)
SendReachesAll == ~skipped
=============================================================================
