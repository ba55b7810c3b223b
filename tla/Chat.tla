-------------------------------- MODULE Chat --------------------------------
(***************************************************************************)
(* Chat about one order: of the driver with the customer and with the      *)
(* shop.  A message is told before it is committed, to the people of the   *)
(* order as the request had loaded it.                                     *)
(***************************************************************************)
EXTENDS Naturals, FiniteSets

CONSTANTS
  Customer, Shop,
  Drivers,     \* by the user each is
  Requests,
  MaxMessages, \* bound: different messages that are stored
  None         \* nobody

VARIABLES
  assigned,    \* driver of the order
  onTheWay,    \* it is being picked up or delivered
  messages,    \* chat_messages of the order
  sending,
  heard,       \* history: who was sent a message
  served       \* history: drivers the order had while on the way

vars == <<assigned, onTheWay, messages, sending, heard, served>>

Users == {Customer, Shop} \cup Drivers

(* with: the other side of the conversation.                               *)
Message == [sender : Users, with : {Customer, Shop}, driver : Drivers]
Idle == [at |-> "idle"]

TypeOK ==
  /\ assigned \in Drivers \cup {None} /\ onTheWay \in BOOLEAN
  /\ messages \subseteq Message
  /\ sending \in [Requests -> {Idle} \cup
                  [at : {"loaded", "flushed", "told"}, message : Message]]
  /\ heard \subseteq Users /\ served \subseteq Drivers

Init ==
  /\ assigned = None /\ onTheWay = FALSE
  /\ messages = {}
  /\ sending = [r \in Requests |-> Idle]
  /\ heard = {} /\ served = {}

(* The order gets a driver, is picked up, is over.                         *)
OrderMoves(d, on) ==
  /\ on => d # None
  /\ assigned' = d /\ onTheWay' = on
  /\ served' = IF on THEN served \cup {d} ELSE served
  /\ UNCHANGED <<messages, sending, heard>>

EnforceMutant(u, other) == TRUE

(* _enforce_participant.                                                   *)
Enforce(u, other) == u \in {other, assigned}

ActiveMutant == TRUE  \* the status is not looked at

Active == onTheWay

(* POST /chat/orders/{id}/messages.                                        *)
ReadForMessage(r, u, other) ==
  /\ sending[r] = Idle
  /\ Enforce(u, other) /\ Active
  /\ sending' = [sending EXCEPT ![r] =
       [at |-> "loaded", message |-> [sender |-> u, with |-> other, driver |-> assigned]]]
  /\ UNCHANGED <<assigned, onTheWay, messages, heard, served>>

Goes(r, from, to) ==
  /\ sending[r].at = from
  /\ sending' = [sending EXCEPT ![r].at = to]

Flush(r) ==
  /\ Goes(r, "loaded", "flushed")
  /\ UNCHANGED <<assigned, onTheWay, messages, heard, served>>

(* _participant_user_ids, of the order that was loaded.                    *)
Participants(m) == {m.with, m.driver}

(* _emit_message.                                                          *)
Tell(r) ==
  /\ Goes(r, "flushed", "told")
  /\ heard' = heard \cup (Participants(sending[r].message) \ {None})
  /\ UNCHANGED <<assigned, onTheWay, messages, served>>

Commit(r) ==
  /\ sending[r].at = "told" /\ Cardinality(messages) < MaxMessages
  /\ messages' = messages \cup {sending[r].message}
  /\ sending' = [sending EXCEPT ![r] = Idle]
  /\ UNCHANGED <<assigned, onTheWay, heard, served>>

(* A message may have been told that is not stored.                        *)
Rollback(r) ==
  /\ sending[r] # Idle
  /\ sending' = [sending EXCEPT ![r] = Idle]
  /\ UNCHANGED <<assigned, onTheWay, messages, heard, served>>

Next ==
  \/ \E r \in Requests :
       \/ \E u \in Users, other \in {Customer, Shop} : ReadForMessage(r, u, other)
       \/ Flush(r) \/ Tell(r) \/ Commit(r) \/ Rollback(r)
  \/ \E d \in Drivers \cup {None}, on \in BOOLEAN : OrderMoves(d, on)

Spec == Init /\ [][Next]_vars

-----------------------------------------------------------------------------
(* What is said about an order reaches its customer, its shop and drivers  *)
(* it had on the way, however assignments change while a message is being  *)
(* sent; and what is stored was said by one of the two it is between.      *)
TalkStaysInOrder ==
  /\ heard \subseteq {Customer, Shop} \cup served
  /\ \A m \in messages : m.sender \in {m.with, m.driver} /\ m.driver \in served
=============================================================================
