-------------------------------- MODULE Calls --------------------------------
(***************************************************************************)
(* Voice calls about one order, between its customer and the driver that   *)
(* is assigned to it.  A handler loads a row, flushes what it changes,     *)
(* which locks the row, tells the people concerned, and commits: what was  *)
(* told stays told when the transaction rolls back.                        *)
(*                                                                         *)
(* A call that rang too long is MISSED as soon as somebody looks at it.    *)
(***************************************************************************)
EXTENDS Rows

CONSTANTS
  Calls,
  Customer,
  Drivers,     \* by the user each is
  Others,      \* users that have nothing to do with the order
  Requests,
  None         \* nobody, no row, no reason

VARIABLES
  call,        \* order_calls
  req,
  past         \* history: see Marks

vars == <<call, req, past>>

Users == {Customer} \cup Drivers \cup Others
TERMINAL_STATUSES == {"REJECTED", "ENDED", "MISSED"}
Statuses == {"RINGING", "ACCEPTED"} \cup TERMINAL_STATUSES
Reasons == {"REJECTED", "CALLER_CANCELLED", "COMPLETED", "MISSED"}

(* late: expires_at has passed.                                            *)
CallRow == [caller : Users, callee : Users, status : Statuses, late : BOOLEAN,
            reason : Reasons \cup {None}]

(* The statuses of a call that were committed, whether it was said to be   *)
(* missed; or only that two requests had loaded it at once.                *)
Marks == Statuses \cup {"SAID_MISSED", "RACED"}
Marked(marks, more) == IF "RACED" \in marks THEN marks ELSE marks \cup more

Idle == [at |-> "idle"]

(* inserts: a new row; writes: what changes in rows that are there; tells: *)
(* events still to be sent.                                                *)
RequestOK(q) ==
  \/ q = Idle
  \/ /\ q.at \in {"loaded", "flushed"} /\ q.about \subseteq Calls
     /\ DOMAIN q.inserts \cup DOMAIN q.writes \subseteq q.about
     /\ q.tells \subseteq q.about \X (Statuses \cup {"INVITED"})
     /\ q.raises \in BOOLEAN

TypeOK ==
  /\ call \in [Calls -> CallRow \cup {None}]
  /\ DOMAIN req = Requests /\ \A r \in Requests : RequestOK(req[r])
  /\ past \in [Calls -> SUBSET Marks]

Init ==
  /\ call = [c \in Calls |-> None]
  /\ req = [r \in Requests |-> Idle]
  /\ past = [c \in Calls |-> {}]

Exists(c) == call[c] # None

Loads(r, q) ==
  /\ req[r] = Idle
  /\ req' = [req EXCEPT ![r] = q]
  /\ past' = [c \in Calls |->
       IF c \in q.about /\ \E p \in Requests : req[p] # Idle /\ c \in req[p].about
         THEN {"RACED"} ELSE past[c]]
  /\ UNCHANGED call

-----------------------------------------------------------------------------
(* _expire_if_needed and _mark_expired_ringing_calls.                      *)
Expired(c) == Exists(c) /\ call[c].status = "RINGING" /\ call[c].late

Missed == [status |-> "MISSED", reason |-> "MISSED"]

(* The status a handler decides on.                                        *)
Status(c) == IF Expired(c) THEN "MISSED" ELSE call[c].status

(* POST /calls/orders/{id}/start, by the customer or by the driver the     *)
(* order has as it is loaded, while it is picked up or delivered: neither  *)
(* is looked at again.  That another call of it rings does not matter.     *)
ReadForStart(r, c, driver, u) ==
  /\ ~Exists(c) /\ \A p \in Requests : req[p] # Idle => c \notin req[p].about
  /\ u \in {Customer, driver}
  /\ LET old == {k \in Calls : Expired(k)}
         callee == IF u = driver THEN Customer ELSE driver
     IN Loads(r, [at |-> "loaded", about |-> old \cup {c}, raises |-> FALSE,
          inserts |-> [k \in {c} |-> [caller |-> u, callee |-> callee, status |-> "RINGING",
                                      late |-> FALSE, reason |-> None]],
          writes |-> [k \in old |-> Missed],
          tells |-> {<<c, "INVITED">>} \cup {<<k, "MISSED">> : k \in old}])

(* What a handler finds; when it raises, what it has told stays told.      *)
Finds(r, c, raises, change) ==
  LET writes == IF Expired(c) THEN Missed ELSE IF raises THEN <<>> ELSE change
  IN /\ writes # <<>>
     /\ Loads(r, [at |-> "loaded", about |-> {c}, raises |-> raises, inserts |-> <<>>,
          writes |-> [k \in {c} |-> writes], tells |-> {<<c, writes.status>>}])

(* POST /calls/{id}/accept.                                                *)
ReadForAccept(r, c, u) ==
  /\ Exists(c) /\ Status(c) # "ACCEPTED"
  /\ Finds(r, c, u # call[c].callee \/ Status(c) # "RINGING", [status |-> "ACCEPTED"])

TerminalMutant(s) == s \in {"REJECTED", "ENDED"}  \* a missed call may go on

Terminal(s) == s \in TERMINAL_STATUSES

(* POST /calls/{id}/reject.                                                *)
ReadForReject(r, c, u) ==
  /\ Exists(c) /\ (Terminal(Status(c)) => Expired(c))
  /\ Finds(r, c,
       ~Terminal(Status(c)) /\ (u # call[c].callee \/ Status(c) # "RINGING"),
       [status |-> "REJECTED", reason |-> "REJECTED"])

IsParticipant(c, u) == u \in {call[c].caller, call[c].callee}

(* POST /calls/{id}/end.                                                   *)
ReadForEnd(r, c, u) ==
  /\ Exists(c) /\ (Terminal(Status(c)) => Expired(c))
  /\ Finds(r, c, ~Terminal(Status(c)) /\ ~IsParticipant(c, u),
       [status |-> "ENDED",
        reason |-> IF Status(c) = "RINGING" /\ u = call[c].caller
                     THEN "CALLER_CANCELLED" ELSE "COMPLETED"])

(* GET /calls/{id}.                                                        *)
ReadForGet(r, c, u) ==
  Exists(c) /\ Expired(c) /\ Finds(r, c, ~IsParticipant(c, u), <<>>)

(* The time to answer is over.  That matters only while it rings.          *)
RingsTooLong(c) ==
  /\ Exists(c) /\ call[c].status = "RINGING" /\ ~call[c].late
  /\ call' = [call EXCEPT ![c].late = TRUE]
  /\ UNCHANGED <<req, past>>

-----------------------------------------------------------------------------
(* The row of a call stays locked until its transaction ends.              *)
Flush(r) ==
  /\ req[r].at = "loaded"
  /\ \A p \in Requests \ {r} : req[p].at = "flushed" =>
       DOMAIN req[p].writes \cap DOMAIN req[r].writes = {}
  /\ req' = [req EXCEPT ![r].at = "flushed"]
  /\ UNCHANGED <<call, past>>

(* _emit_and_push; an invitation is the last of what start_call sends.     *)
Tell(r, c, event) ==
  /\ req[r].at = "flushed" /\ <<c, event>> \in req[r].tells
  /\ event = "INVITED" => req[r].tells = {<<c, event>>}
  /\ past' = [past EXCEPT ![c] =
       Marked(@, IF event = "MISSED" THEN {"SAID_MISSED"} ELSE {})]
  /\ req' = [req EXCEPT ![r].tells = @ \ {<<c, event>>}]
  /\ UNCHANGED call

(* The rows of calls it had loaded, or made, as they are by now.           *)
Commit(r) ==
  /\ req[r].at = "flushed" /\ req[r].tells = {} /\ ~req[r].raises
  /\ LET q == req[r]
     IN call' = [c \in Calls |->
          IF c \in DOMAIN q.inserts THEN q.inserts[c]
          ELSE IF c \in DOMAIN q.writes THEN Written(q.writes[c], call[c])
          ELSE call[c]]
  /\ past' = [c \in Calls |->
       IF c \in req[r].about THEN Marked(past[c], {call'[c].status}) ELSE past[c]]
  /\ req' = [req EXCEPT ![r] = Idle]

(* The handler raises, has no token to give, or the commit fails.          *)
Rollback(r) ==
  /\ req[r] # Idle
  /\ req' = [req EXCEPT ![r] = Idle]
  /\ UNCHANGED <<call, past>>

Handler(r) ==
  \/ \E c \in Calls, u \in Users :
       \/ \E driver \in Drivers : ReadForStart(r, c, driver, u)
       \/ ReadForAccept(r, c, u)
       \/ ReadForReject(r, c, u) \/ ReadForEnd(r, c, u) \/ ReadForGet(r, c, u)
  \/ Flush(r)
  \/ \E c \in Calls, event \in Statuses \cup {"INVITED"} : Tell(r, c, event)
  \/ Commit(r) \/ Rollback(r)

Next ==
  \/ \E r \in Requests : Handler(r)
  \/ \E c \in Calls : RingsTooLong(c)

Spec == Init /\ [][Next]_vars

-----------------------------------------------------------------------------
(* A call people were told they missed is never answered later, although   *)
(* the transaction that told them may have been rolled back; one that is   *)
(* over stays as it ended; and the caller gave up only a call that nobody  *)
(* had answered: unless two requests had loaded it at once.                *)
CallsAreFinal ==
  \A c \in Calls : Exists(c) /\ "RACED" \notin past[c] =>
    /\ "SAID_MISSED" \in past[c] => Expired(c) \/ call[c].status = "MISSED"
    /\ past[c] \cap TERMINAL_STATUSES \subseteq {call[c].status}
    /\ call[c].reason = "CALLER_CANCELLED" => "ACCEPTED" \notin past[c]
=============================================================================
