---------------------------- MODULE Talk_proofs ----------------------------
(***************************************************************************)
(* What holds of chat, of calls and of sockets, for any numbers of people, *)
(* requests, calls, messages and sockets.  Each runs alone, so each has an *)
(* inductive invariant of its own; the last part puts them together.       *)
(***************************************************************************)
EXTENDS Talk, TLAPS, SequenceTheorems, WellFoundedInduction

-----------------------------------------------------------------------------
(***************************************************************************)
(* Chat.  The order may change hands between every two steps of a message, *)
(* so what is needed is about the order as the message had loaded it: its  *)
(* driver is one the order had on the way.  That holds when the order is   *)
(* loaded and cannot be lost, for served only grows.                       *)
(***************************************************************************)

(* A message that is stored or under way.                                  *)
Sound(m) ==
  /\ m \in Message
  /\ m.sender \in {m.with, m.driver}
  /\ m.driver \in served

OnTheWayServed == onTheWay => assigned \in served

ChatInv ==
  /\ TypeOK
  /\ OnTheWayServed
  /\ \A r \in Requests : sending[r] # Idle => Sound(sending[r].message)
  /\ \A m \in messages : Sound(m)
  /\ heard \subseteq {Customer, Shop} \cup served

(* What is under way is a message.                                         *)
LEMMA ChatUnderWay ==
  ASSUME ChatInv, NEW r \in Requests, sending[r] # Idle
  PROVE  /\ sending[r] \in [at : {"loaded", "flushed", "told"}, message : Message]
         /\ Sound(sending[r].message)
  BY DEF ChatInv, TypeOK

(* A message that goes on, is given up or is loaded.                       *)
LEMMA ChatOnlySending ==
  ASSUME ChatInv, NEW r \in Requests, NEW q, sending' = [sending EXCEPT ![r] = q],
         q = Idle \/ /\ q \in [at : {"loaded", "flushed", "told"}, message : Message]
                     /\ Sound(q.message),
         UNCHANGED <<assigned, onTheWay, messages, served>>,
         heard' \subseteq {Customer, Shop} \cup served
  PROVE  ChatInv'
<1>1. TypeOK'
  <2>1. heard' \subseteq Users
    BY DEF ChatInv, TypeOK, Users
  <2>2. sending' \in [Requests -> {Idle} \cup
                       [at : {"loaded", "flushed", "told"}, message : Message]]
    BY DEF ChatInv, TypeOK
  <2>3. QED BY <2>1, <2>2 DEF ChatInv, TypeOK
<1>2. \A p \in Requests : sending'[p] # Idle => Sound(sending'[p].message)
  BY DEF ChatInv, TypeOK
<1>3. (\A p \in Requests : sending[p] # Idle => Sound(sending[p].message))'
  BY <1>2 DEF Sound
<1>4. OnTheWayServed' /\ (\A m \in messages : Sound(m))'
  BY DEF ChatInv, OnTheWayServed, Sound
<1>5. QED BY <1>1, <1>3, <1>4 DEF ChatInv

(* The one who sends is checked against the order that is loaded.          *)
LEMMA ChatRead ==
  ASSUME ChatInv, NEW r \in Requests, NEW u \in Users, NEW other \in {Customer, Shop},
         ReadForMessage(r, u, other)
  PROVE  ChatInv'
<1> DEFINE m == [sender |-> u, with |-> other, driver |-> assigned]
           q == [at |-> "loaded", message |-> m]
<1>1. assigned \in served /\ assigned \in Drivers
  BY DEF ReadForMessage, Active, ChatInv, OnTheWayServed, TypeOK
<1>2. m \in Message /\ m.sender \in {m.with, m.driver} /\ m.driver \in served
  BY <1>1 DEF ReadForMessage, Enforce, Message
<1>3. q \in [at : {"loaded", "flushed", "told"}, message : Message] /\ Sound(q.message)
  BY <1>2 DEF Sound
<1>4. sending' = [sending EXCEPT ![r] = q]
  BY DEF ReadForMessage
<1>5. UNCHANGED <<assigned, onTheWay, messages, served>> /\ heard' = heard
  BY DEF ReadForMessage
<1> HIDE DEF q
<1>6. QED BY <1>3, <1>4, <1>5, ChatOnlySending DEF ChatInv

(* A message under way goes on to its next step.                           *)
LEMMA ChatGoes ==
  ASSUME ChatInv, NEW r \in Requests, NEW from \in {"loaded", "flushed", "told"},
         NEW to \in {"loaded", "flushed", "told"}, Goes(r, from, to),
         UNCHANGED <<assigned, onTheWay, messages, served>>,
         heard' \subseteq {Customer, Shop} \cup served
  PROVE  ChatInv'
<1> DEFINE q == [sending[r] EXCEPT !.at = to]
<1>1. sending[r] # Idle
  BY DEF Goes, Idle
<1>2. q \in [at : {"loaded", "flushed", "told"}, message : Message] /\ Sound(q.message)
  BY <1>1, ChatUnderWay
<1>3. sending' = [sending EXCEPT ![r] = q]
  BY DEF Goes, ChatInv, TypeOK
<1> HIDE DEF q
<1>4. QED BY <1>2, <1>3, ChatOnlySending

(* Those who are told: the other side, and a driver the order had.         *)
LEMMA ChatTell ==
  ASSUME ChatInv, NEW r \in Requests, Tell(r)
  PROVE  ChatInv'
<1>1. Sound(sending[r].message)
  BY ChatUnderWay DEF Tell, Goes, Idle
<1>2. heard' \subseteq {Customer, Shop} \cup served
  BY <1>1 DEF Tell, Participants, Sound, Message, ChatInv
<1>3. QED BY <1>2, ChatGoes DEF Tell

(* A message that is stored was sound while it was under way.              *)
LEMMA ChatCommit ==
  ASSUME ChatInv, NEW r \in Requests, Commit(r)
  PROVE  ChatInv'
<1>1. Sound(sending[r].message)
  BY ChatUnderWay DEF Commit, Idle
<1>2. /\ messages' = messages \cup {sending[r].message}
      /\ sending' = [sending EXCEPT ![r] = Idle]
      /\ UNCHANGED <<assigned, onTheWay, heard, served>>
  BY DEF Commit
<1>3. TypeOK'
  BY <1>1, <1>2 DEF ChatInv, TypeOK, Sound
<1>4. \A p \in Requests : sending'[p] # Idle => Sound(sending'[p].message)
  BY <1>2 DEF ChatInv, TypeOK
<1>5. \A m \in messages' : Sound(m)
  BY <1>1, <1>2 DEF ChatInv
<1>6. (\A p \in Requests : sending[p] # Idle => Sound(sending[p].message))'
      /\ (\A m \in messages : Sound(m))'
  BY <1>2, <1>4, <1>5 DEF Sound
<1>7. QED BY <1>2, <1>3, <1>6 DEF ChatInv, OnTheWayServed

(* The order changes hands: drivers it had on the way remain so.           *)
LEMMA ChatOrderMoves ==
  ASSUME ChatInv, NEW d \in Drivers \cup {None}, NEW on \in BOOLEAN, OrderMoves(d, on)
  PROVE  ChatInv'
<1>1. served \subseteq served' /\ served' \subseteq Drivers /\ OnTheWayServed'
  BY DEF OrderMoves, ChatInv, TypeOK, OnTheWayServed
<1>2. \A m : Sound(m) => Sound(m)'
  BY <1>1 DEF Sound
<1>3. QED BY <1>1, <1>2 DEF OrderMoves, ChatInv, TypeOK

(* What is said, and heard, was said in the order, whoever has it by then. *)
LEMMA ChatInvariance == Spec => []ChatInv
<1>1. Init => ChatInv
  BY DEF Init, ChatInv, TypeOK, OnTheWayServed, Idle
<1>2. ChatInv /\ [Next]_vars => ChatInv'
  <2> SUFFICES ASSUME ChatInv, [Next]_vars PROVE ChatInv'
    OBVIOUS
  <2>1. CASE UNCHANGED vars
    BY <2>1 DEF vars, ChatInv, TypeOK, OnTheWayServed, Sound
  <2>2. CASE \E d \in Drivers \cup {None}, on \in BOOLEAN : OrderMoves(d, on)
    BY <2>2, ChatOrderMoves
  <2>3. ASSUME NEW r \in Requests, NEW u \in Users, NEW other \in {Customer, Shop},
               ReadForMessage(r, u, other)
        PROVE  ChatInv'
    BY <2>3, ChatRead
  <2>4. ASSUME NEW r \in Requests, Flush(r) PROVE ChatInv'
    BY <2>4, ChatGoes DEF Flush, ChatInv
  <2>5. ASSUME NEW r \in Requests, Rollback(r) PROVE ChatInv'
    BY <2>5, ChatOnlySending DEF Rollback, ChatInv
  <2>6. QED BY <2>1, <2>2, <2>3, <2>4, <2>5, ChatTell, ChatCommit DEF Next
<1>3. QED BY <1>1, <1>2, PTL DEF Spec

-----------------------------------------------------------------------------
(***************************************************************************)
(* Calls.  A request that has loaded a call decides on the row as it is.   *)
(* What it decided stays right as long as no second request has the call   *)
(* loaded: only the time to answer goes on.  What was told before a        *)
(* transaction is rolled back is in the marks of the call; that it says    *)
(* MISSED only of a call that rang too long makes it true in the end.      *)
(***************************************************************************)

(* The columns handlers write to a call that is there.                     *)
CallWrites ==
  {C!Missed, [status |-> "ACCEPTED"], [status |-> "REJECTED", reason |-> "REJECTED"]}
  \cup [status : {"ENDED"}, reason : {"CALLER_CANCELLED", "COMPLETED"}]

(* What a request under way holds.                                         *)
CallRequest(q) ==
  /\ C!RequestOK(q)
  /\ DOMAIN q = {"at", "about", "raises", "inserts", "writes", "tells"}
  /\ q.about = DOMAIN q.inserts \cup DOMAIN q.writes
  /\ \A c \in DOMAIN q.inserts :
       /\ q.inserts[c] \in C!CallRow
       /\ q.inserts[c].status = "RINGING" /\ q.inserts[c].reason = None
       /\ c \notin DOMAIN q.writes
  /\ \A c \in DOMAIN q.writes : q.writes[c] \in CallWrites
  /\ \A c \in Calls : <<c, "MISSED">> \in q.tells =>
       c \in DOMAIN q.writes /\ q.writes[c] = C!Missed

(* What it makes is not there yet, what it changes is.                     *)
CallPlaced(q) ==
  /\ \A c \in DOMAIN q.inserts : ~C!Exists(c)
  /\ \A c \in DOMAIN q.writes : C!Exists(c)

Loaded(r, c) == req[r] # C!Idle /\ c \in req[r].about

(* Two requests that have a call loaded at once are noted.                 *)
CallRacesNoted ==
  \A r, s \in Requests, c \in Calls :
    Loaded(r, c) /\ Loaded(s, c) => r = s \/ "RACED" \in past[c]

(* What the row and the marks of a call say about each other.              *)
CallSound(c) ==
  /\ "SAID_MISSED" \in past[c] => C!Expired(c) \/ call[c].status = "MISSED"
  /\ past[c] \cap C!TERMINAL_STATUSES \subseteq {call[c].status}
  /\ "ACCEPTED" \in past[c] => call[c].status # "RINGING"
  /\ call[c].reason = "CALLER_CANCELLED" =>
       C!Terminal(call[c].status) /\ "ACCEPTED" \notin past[c]

(* What a request will write still fits the row.                           *)
CallFits(w, c) ==
  IF w = C!Missed THEN C!Expired(c)
  ELSE /\ ~C!Terminal(call[c].status) /\ "SAID_MISSED" \notin past[c]
       /\ w.status # "ENDED" => call[c].status = "RINGING"
       /\ (w.status = "ENDED" /\ w.reason = "CALLER_CANCELLED") =>
            call[c].status = "RINGING"

CallsInv ==
  /\ C!TypeOK
  /\ \A r \in Requests : req[r] # C!Idle => CallRequest(req[r]) /\ CallPlaced(req[r])
  /\ CallRacesNoted
  /\ \A c \in Calls :
       /\ ~C!Exists(c) => past[c] = {}
       /\ C!Exists(c) /\ "RACED" \notin past[c] => CallSound(c)
       /\ \A r \in Requests :
            req[r] # C!Idle /\ c \in DOMAIN req[r].writes /\ "RACED" \notin past[c] =>
              CallFits(req[r].writes[c], c)

(* What a change makes of a row.                                           *)
LEMMA CallWritten ==
  ASSUME NEW row \in C!CallRow, NEW w \in CallWrites
  PROVE  /\ C!Written(w, row) \in C!CallRow
         /\ C!Written(w, row).status = w.status
         /\ C!Written(w, row).late = row.late
         /\ C!Written(w, row).reason = IF w.status = "ACCEPTED" THEN row.reason
              ELSE w.reason
<1> DEFINE new == [caller |-> row.caller, callee |-> row.callee, status |-> w.status,
                   late |-> row.late,
                   reason |-> IF w.status = "ACCEPTED" THEN row.reason ELSE w.reason]
           fields == {"caller", "callee", "status", "late", "reason"}
<1>1. DOMAIN row = fields
  BY DEF C!CallRow
<1>2. /\ DOMAIN w \subseteq {"status", "reason"} /\ "status" \in DOMAIN w
      /\ "reason" \in DOMAIN w <=> w.status # "ACCEPTED"
      /\ w.status \in C!Statuses
      /\ w.status # "ACCEPTED" => w.reason \in C!Reasons
  BY DEF CallWrites, C!Missed, C!Statuses, C!TERMINAL_STATUSES, C!Reasons
<1>3. C!Written(w, row) = [f \in fields |-> IF f \in DOMAIN w THEN w[f] ELSE row[f]]
  <2>1. DOMAIN w \cup DOMAIN row = fields
    BY <1>1, <1>2
  <2> QED
    BY <2>1 DEF C!Written
<1>4. C!Written(w, row) = new
  BY <1>2, <1>3
<1>5. new \in C!CallRow
  BY <1>2 DEF C!CallRow
<1> QED
  BY <1>4, <1>5

(* A request that loads some calls: from here on it may race with others.  *)
LEMMA CallsLoad ==
  ASSUME CallsInv, NEW r \in Requests, NEW q, C!Loads(r, q), q # C!Idle,
         CallRequest(q), CallPlaced(q),
         \A c \in DOMAIN q.inserts, s \in Requests : ~Loaded(s, c),
         \A c \in DOMAIN q.writes : "RACED" \notin past[c] => CallFits(q.writes[c], c)
  PROVE  CallsInv'
<1>0. /\ C!TypeOK /\ CallRacesNoted
      /\ req' = [req EXCEPT ![r] = q] /\ call' = call
      /\ \A s \in Requests : req'[s] = IF s = r THEN q ELSE req[s]
      /\ DOMAIN req' = Requests
  BY DEF CallsInv, C!TypeOK, C!Loads
<1>1. \A c \in Calls :
        past'[c] = IF c \in q.about /\ \E s \in Requests : Loaded(s, c)
                     THEN {"RACED"} ELSE past[c]
  BY DEF C!Loads, Loaded
<1>2. C!TypeOK'
  <2>1. past' \in [Calls -> SUBSET C!Marks]
    BY <1>0 DEF C!TypeOK, C!Loads, C!Marks
  <2> QED
    BY <1>0, <2>1 DEF C!TypeOK, CallRequest
<1>3. (\A s \in Requests : req[s] # C!Idle => CallRequest(req[s]) /\ CallPlaced(req[s]))'
  <2>1. \A s \in Requests : req'[s] # C!Idle => CallRequest(req'[s]) /\ CallPlaced(req'[s])
    BY <1>0 DEF CallsInv
  <2> QED
    BY <1>0, <2>1 DEF CallPlaced, C!Exists
<1>4. CallRacesNoted'
  <2> SUFFICES ASSUME NEW s \in Requests, NEW t \in Requests, NEW c \in Calls,
                      req'[s] # C!Idle, c \in req'[s].about,
                      req'[t] # C!Idle, c \in req'[t].about, s # t
               PROVE  "RACED" \in past'[c]
    BY DEF CallRacesNoted, Loaded
  <2>1. CASE s # r /\ t # r
    BY <1>0, <1>1, <2>1 DEF CallRacesNoted, Loaded
  <2>2. CASE s = r \/ t = r
    BY <1>0, <1>1, <2>2 DEF Loaded
  <2> QED
    BY <2>1, <2>2
<1>5. ASSUME NEW c \in Calls, past'[c] = past[c]
      PROVE  /\ ~C!Exists(c)' => past'[c] = {}
             /\ C!Exists(c)' /\ "RACED" \notin past'[c] => CallSound(c)'
             /\ (\A s \in Requests :
                  req[s] # C!Idle /\ c \in DOMAIN req[s].writes /\ "RACED" \notin past[c] =>
                    CallFits(req[s].writes[c], c))'
  <2>1. ~C!Exists(c)' => past'[c] = {}
    BY <1>0, <1>5 DEF CallsInv, C!Exists
  <2>2. C!Exists(c)' /\ "RACED" \notin past'[c] => CallSound(c)'
    BY <1>0, <1>5 DEF CallsInv, C!Exists, CallSound, C!Expired
  <2>3. \A s \in Requests :
           req'[s] # C!Idle /\ c \in DOMAIN req'[s].writes /\ "RACED" \notin past[c] =>
             CallFits(req'[s].writes[c], c)
    BY <1>0 DEF CallsInv
  <2> QED
    BY <1>0, <1>5, <2>1, <2>2, <2>3 DEF CallFits, C!Expired, C!Exists
<1>6. ASSUME NEW c \in Calls, past'[c] # past[c]
      PROVE  C!Exists(c)' /\ "RACED" \in past'[c]
  <2>1. past'[c] = {"RACED"} /\ c \in q.about /\ \E s \in Requests : Loaded(s, c)
    BY <1>1, <1>6
  <2>2. C!Exists(c)
    BY <2>1 DEF CallRequest, CallPlaced
  <2> QED
    BY <1>0, <2>1, <2>2 DEF C!Exists
<1> QED
  BY <1>2, <1>3, <1>4, <1>5, <1>6 DEF CallsInv

(* start_call: makes a call and ends those that rang too long.             *)
LEMMA CallsStart ==
  ASSUME CallsInv, None \notin C!CallRow \cup C!Reasons,
         NEW r \in Requests, NEW c \in Calls, NEW driver \in Couriers, NEW u \in C!Users,
         C!ReadForStart(r, c, driver, u)
  PROVE  CallsInv'
<1> DEFINE old == {k \in Calls : C!Expired(k)}
           callee == IF u = driver THEN Customer ELSE driver
           row == [caller |-> u, callee |-> callee, status |-> "RINGING",
                   late |-> FALSE, reason |-> None]
           q == [at |-> "loaded", about |-> old \cup {c}, raises |-> FALSE,
                 inserts |-> [k \in {c} |-> row],
                 writes |-> [k \in old |-> C!Missed],
                 tells |-> {<<c, "INVITED">>} \cup {<<k, "MISSED">> : k \in old}]
<1>1. C!Loads(r, q) /\ ~C!Exists(c) /\ \A s \in Requests : ~Loaded(s, c)
  BY DEF C!ReadForStart, Loaded
<1>2. row \in C!CallRow /\ callee \in C!Users
  BY DEF C!CallRow, C!Users, C!Statuses
<1>3. c \notin old /\ old \subseteq Calls /\ \A k \in old : C!Exists(k)
  BY <1>1 DEF C!Expired
<1>4. C!Missed \in CallWrites
  BY DEF CallWrites
<1>5. C!RequestOK(q)
  <2>1. q.tells \subseteq q.about \X (C!Statuses \cup {"INVITED"})
    BY DEF C!Statuses, C!TERMINAL_STATUSES
  <2> QED
    BY <1>3, <2>1 DEF C!RequestOK
<1>6. CallRequest(q)
  <2> HIDE DEF row
  <2> QED
    BY <1>2, <1>3, <1>4, <1>5 DEF CallRequest, row
<1>7. CallPlaced(q)
  BY <1>1, <1>3 DEF CallPlaced
<1>8. \A k \in DOMAIN q.writes : CallFits(q.writes[k], k)
  BY DEF CallFits
<1>9. q # C!Idle
  BY DEF C!Idle
<1>10. \A k \in DOMAIN q.inserts, s \in Requests : ~Loaded(s, k)
  BY <1>1
<1> HIDE DEF q
<1> QED
  BY <1>1, <1>6, <1>7, <1>8, <1>9, <1>10, CallsLoad

(* What the other handlers find: a call that rang too long becomes missed; *)
(* if it did not, the handler changes it and does not raise.               *)
LEMMA CallsFind ==
  ASSUME CallsInv, NEW r \in Requests, NEW c \in Calls, NEW raises \in BOOLEAN, NEW change,
         C!Exists(c), C!Finds(r, c, raises, change),
         (~C!Expired(c) /\ ~raises) =>
           /\ change \in CallWrites \ {C!Missed}
           /\ ("RACED" \notin past[c] => CallFits(change, c))
  PROVE  CallsInv'
<1> DEFINE w == IF C!Expired(c) THEN C!Missed ELSE IF raises THEN <<>> ELSE change
           q == [at |-> "loaded", about |-> {c}, raises |-> raises, inserts |-> <<>>,
                 writes |-> [k \in {c} |-> w], tells |-> {<<c, w.status>>}]
<1>1. w # <<>> /\ C!Loads(r, q)
  BY DEF C!Finds
<1>2. w \in CallWrites /\ (w = C!Missed <=> C!Expired(c))
  BY <1>1 DEF CallWrites
<1>3. /\ w.status \in C!Statuses
      /\ w.status = "MISSED" => w = C!Missed
  BY <1>2 DEF CallWrites, C!Missed, C!Statuses, C!TERMINAL_STATUSES
<1>4. "RACED" \notin past[c] => CallFits(w, c)
  BY <1>1 DEF CallFits
<1> HIDE DEF w
<1>5. DOMAIN q.inserts = {} /\ DOMAIN q.writes = {c} /\ q.writes[c] = w
  OBVIOUS
<1>6. CallRequest(q)
  BY <1>2, <1>3, <1>5 DEF CallRequest, C!RequestOK
<1>7. CallPlaced(q)
  BY <1>5 DEF CallPlaced
<1>8. q # C!Idle
  BY DEF C!Idle
<1>9. \A k \in DOMAIN q.writes : "RACED" \notin past[k] => CallFits(q.writes[k], k)
  BY <1>4, <1>5
<1> HIDE DEF q
<1> QED
  BY <1>1, <1>5, <1>6, <1>7, <1>8, <1>9, CallsLoad

(* A call that is not over fits what is decided on it.                     *)
LEMMA CallDecided ==
  ASSUME CallsInv, NEW c \in Calls, C!Exists(c), "RACED" \notin past[c], ~C!Expired(c),
         ~C!Terminal(call[c].status), NEW w, w # C!Missed,
         w.status # "ENDED" => call[c].status = "RINGING",
         (w.status = "ENDED" /\ w.reason = "CALLER_CANCELLED") =>
           call[c].status = "RINGING"
  PROVE  CallFits(w, c)
<1>1. CallSound(c)
  BY DEF CallsInv
<1>2. "SAID_MISSED" \notin past[c]
  BY <1>1 DEF CallSound, C!Terminal, C!TERMINAL_STATUSES
<1> QED
  BY <1>2 DEF CallFits

LEMMA CallsAnswer ==
  ASSUME CallsInv, NEW r \in Requests, NEW c \in Calls, NEW u \in C!Users,
         C!ReadForAccept(r, c, u) \/ C!ReadForReject(r, c, u) \/ C!ReadForGet(r, c, u)
  PROVE  CallsInv'
<1>1. CASE C!ReadForAccept(r, c, u)
  <2> DEFINE w == [status |-> "ACCEPTED"]
             raises == u # call[c].callee \/ C!Status(c) # "RINGING"
  <2>1. C!Exists(c) /\ C!Finds(r, c, raises, w)
    BY <1>1 DEF C!ReadForAccept
  <2>2. w \in CallWrites \ {C!Missed}
    BY DEF CallWrites, C!Missed
  <2>3. (~C!Expired(c) /\ ~raises /\ "RACED" \notin past[c]) => CallFits(w, c)
    <3> SUFFICES ASSUME ~C!Expired(c), ~raises, "RACED" \notin past[c] PROVE CallFits(w, c)
      OBVIOUS
    <3>1. call[c].status = "RINGING" /\ ~C!Terminal(call[c].status)
      BY DEF C!Status, C!Terminal, C!TERMINAL_STATUSES
    <3> QED
      BY <2>1, <2>2, <3>1, CallDecided
  <2> HIDE DEF w, raises
  <2>4. raises \in BOOLEAN
    BY DEF raises
  <2> QED
    BY <2>1, <2>2, <2>3, <2>4, CallsFind
<1>2. CASE C!ReadForReject(r, c, u)
  <2> DEFINE w == [status |-> "REJECTED", reason |-> "REJECTED"]
             raises == /\ ~C!Terminal(C!Status(c))
                       /\ u # call[c].callee \/ C!Status(c) # "RINGING"
  <2>1. C!Exists(c) /\ (C!Terminal(C!Status(c)) => C!Expired(c)) /\ C!Finds(r, c, raises, w)
    BY <1>2 DEF C!ReadForReject
  <2>2. w \in CallWrites \ {C!Missed}
    BY DEF CallWrites, C!Missed
  <2>3. (~C!Expired(c) /\ ~raises /\ "RACED" \notin past[c]) => CallFits(w, c)
    <3> SUFFICES ASSUME ~C!Expired(c), ~raises, "RACED" \notin past[c] PROVE CallFits(w, c)
      OBVIOUS
    <3>1. call[c].status = "RINGING" /\ ~C!Terminal(call[c].status)
      BY <2>1 DEF C!Status, C!Terminal, C!TERMINAL_STATUSES
    <3> QED
      BY <2>1, <2>2, <3>1, CallDecided
  <2> HIDE DEF w
  <2>4. raises \in BOOLEAN
    OBVIOUS
  <2> HIDE DEF raises
  <2> QED
    BY <2>1, <2>2, <2>3, <2>4, CallsFind
<1>3. CASE C!ReadForGet(r, c, u)
  <2>1. C!Exists(c) /\ C!Expired(c) /\ C!Finds(r, c, ~C!IsParticipant(c, u), <<>>)
    BY <1>3 DEF C!ReadForGet
  <2>2. (~C!IsParticipant(c, u)) \in BOOLEAN
    OBVIOUS
  <2> QED
    BY <2>1, <2>2, CallsFind
<1> QED
  BY <1>1, <1>2, <1>3

LEMMA CallsEnd ==
  ASSUME CallsInv, NEW r \in Requests, NEW c \in Calls, NEW u \in C!Users,
         C!ReadForEnd(r, c, u)
  PROVE  CallsInv'
<1> DEFINE x == IF C!Status(c) = "RINGING" /\ u = call[c].caller
                  THEN "CALLER_CANCELLED" ELSE "COMPLETED"
           w == [status |-> "ENDED", reason |-> x]
           raises == ~C!Terminal(C!Status(c)) /\ ~C!IsParticipant(c, u)
<1>1. C!Exists(c) /\ (C!Terminal(C!Status(c)) => C!Expired(c)) /\ C!Finds(r, c, raises, w)
  BY DEF C!ReadForEnd
<1>2. w \in CallWrites \ {C!Missed}
  BY DEF CallWrites, C!Missed
<1>3. (~C!Expired(c) /\ ~raises /\ "RACED" \notin past[c]) => CallFits(w, c)
  <2> SUFFICES ASSUME ~C!Expired(c), ~raises, "RACED" \notin past[c] PROVE CallFits(w, c)
    OBVIOUS
  <2>1. ~C!Terminal(call[c].status)
    BY <1>1 DEF C!Status
  <2>2. w.reason = "CALLER_CANCELLED" => call[c].status = "RINGING"
    BY DEF C!Status
  <2> QED
    BY <1>1, <1>2, <2>1, <2>2, CallDecided
<1> HIDE DEF w
<1>4. raises \in BOOLEAN
  OBVIOUS
<1> HIDE DEF raises
<1> QED
  BY <1>1, <1>2, <1>3, <1>4, CallsFind

(* One request goes on with what it has loaded, or ends; no row changes,   *)
(* and all that is told is that a call was missed which this is true of.   *)
LEMMA CallsGo ==
  ASSUME CallsInv, NEW r \in Requests, req[r] # C!Idle, NEW q,
         req' = [req EXCEPT ![r] = q], call' = call,
         \/ q = C!Idle
         \/ /\ CallRequest(q) /\ q.about = req[r].about
            /\ q.inserts = req[r].inserts /\ q.writes = req[r].writes,
         \/ past' = past
         \/ \E c \in Calls : /\ past' = [past EXCEPT ![c] = C!Marked(@, {"SAID_MISSED"})]
                             /\ c \in DOMAIN req[r].writes /\ req[r].writes[c] = C!Missed
  PROVE  CallsInv'
<1>0. /\ C!TypeOK /\ CallRacesNoted
      /\ \A s \in Requests : req'[s] = IF s = r THEN q ELSE req[s]
      /\ DOMAIN req' = Requests
      /\ CallRequest(req[r]) /\ CallPlaced(req[r])
  BY DEF CallsInv, C!TypeOK
<1>1. \A c \in Calls :
        \/ past'[c] = past[c]
        \/ /\ "RACED" \notin past[c]
           /\ past'[c] = past[c] \cup {"SAID_MISSED"}
           /\ c \in DOMAIN req[r].writes /\ req[r].writes[c] = C!Missed
  BY <1>0 DEF C!TypeOK, C!Marked
<1>2. C!TypeOK'
  <2>1. past' \in [Calls -> SUBSET C!Marks]
    BY <1>0 DEF C!TypeOK, C!Marks, C!Marked
  <2>2. \A s \in Requests : C!RequestOK(req'[s])
    BY <1>0 DEF C!TypeOK, CallRequest, C!RequestOK
  <2> QED
    BY <1>0, <2>1, <2>2 DEF C!TypeOK
<1>3. (\A s \in Requests : req[s] # C!Idle => CallRequest(req[s]) /\ CallPlaced(req[s]))'
  <2>1. \A s \in Requests : req'[s] # C!Idle => CallRequest(req'[s]) /\ CallPlaced(req'[s])
    BY <1>0 DEF CallsInv, CallPlaced
  <2> QED
    BY <1>0, <2>1 DEF CallPlaced, C!Exists
<1>4. CallRacesNoted'
  <2>1. \A s \in Requests, c \in Calls :
          req'[s] # C!Idle /\ c \in req'[s].about => req[s] # C!Idle /\ c \in req[s].about
    BY <1>0
  <2> QED
    BY <1>0, <1>1, <2>1 DEF CallRacesNoted, Loaded
<1>5. ASSUME NEW c \in Calls
      PROVE  /\ ~C!Exists(c)' => past'[c] = {}
             /\ C!Exists(c)' /\ "RACED" \notin past'[c] => CallSound(c)'
  <2>1. ~C!Exists(c) => past[c] = {}
    BY DEF CallsInv
  <2>2. C!Exists(c) /\ "RACED" \notin past[c] => CallSound(c)
    BY DEF CallsInv
  <2>3. CASE past'[c] = past[c]
    BY <1>0, <2>1, <2>2, <2>3 DEF C!Exists, CallSound, C!Expired
  <2>4. CASE past'[c] # past[c]
    <3>1. C!Exists(c) /\ C!Expired(c) /\ "RACED" \notin past[c]
      BY <1>0, <1>1, <2>4 DEF CallPlaced, CallsInv, CallFits
    <3> QED
      BY <1>0, <1>1, <2>2, <3>1 DEF C!Exists, CallSound, C!Expired, C!TERMINAL_STATUSES
  <2> QED
    BY <2>3, <2>4
<1>6. ASSUME NEW c \in Calls, NEW s \in Requests, req'[s] # C!Idle,
             c \in DOMAIN req'[s].writes, "RACED" \notin past'[c]
      PROVE  CallFits(req[s].writes[c], c) /\ req[s].writes = req'[s].writes
  <2>1. req[s] # C!Idle /\ req[s].writes = req'[s].writes
    BY <1>0, <1>6
  <2> QED
    BY <1>0, <1>1, <1>6, <2>1 DEF CallsInv
<1>7. ASSUME NEW c \in Calls, NEW s \in Requests, req'[s] # C!Idle,
             c \in DOMAIN req'[s].writes, "RACED" \notin past'[c]
      PROVE  CallFits(req[s].writes[c], c)'
  <2>1. CASE past'[c] = past[c]
    BY <1>0, <1>6, <1>7, <2>1 DEF CallFits, C!Expired, C!Exists
  <2>2. CASE past'[c] # past[c]
    <3>1. c \in DOMAIN req[r].writes /\ req[r].writes[c] = C!Missed
      BY <1>1, <2>2
    <3>2. Loaded(r, c) /\ Loaded(s, c)
      <4>1. req[s] # C!Idle /\ c \in DOMAIN req[s].writes /\ CallRequest(req[s])
        BY <1>0, <1>6, <1>7 DEF CallsInv
      <4> QED
        BY <1>0, <3>1, <4>1 DEF Loaded, CallRequest
    <3>3. s = r
      BY <1>0, <1>1, <2>2, <3>2 DEF CallRacesNoted
    <3> QED
      BY <1>0, <1>6, <1>7, <3>1, <3>3 DEF CallFits, C!Expired, C!Exists
  <2> QED
    BY <2>1, <2>2
<1> QED
  BY <1>2, <1>3, <1>4, <1>5, <1>7 DEF CallsInv

LEMMA CallsFlush ==
  ASSUME CallsInv, NEW r \in Requests, C!Flush(r)
  PROVE  CallsInv'
<1> DEFINE q == [req[r] EXCEPT !.at = "flushed"]
<1>1. req[r] # C!Idle /\ CallRequest(req[r])
  BY DEF C!Flush, C!Idle, CallsInv
<1>2. /\ CallRequest(q) /\ q.about = req[r].about
      /\ q.inserts = req[r].inserts /\ q.writes = req[r].writes
  <2>1. DOMAIN q = DOMAIN req[r] /\ q.at = "flushed" /\ q.about = req[r].about
        /\ q.inserts = req[r].inserts /\ q.writes = req[r].writes
        /\ q.tells = req[r].tells /\ q.raises = req[r].raises
    BY <1>1 DEF CallRequest
  <2> QED
    BY <1>1, <2>1 DEF CallRequest, C!RequestOK, C!Idle
<1>3. req' = [req EXCEPT ![r] = q] /\ call' = call /\ past' = past
  BY DEF C!Flush
<1> HIDE DEF q
<1> QED
  BY <1>1, <1>2, <1>3, CallsGo

LEMMA CallsTell ==
  ASSUME CallsInv, NEW r \in Requests, NEW c \in Calls, NEW event, C!Tell(r, c, event)
  PROVE  CallsInv'
<1> DEFINE q == [req[r] EXCEPT !.tells = @ \ {<<c, event>>}]
<1>1. req[r] # C!Idle /\ CallRequest(req[r])
  BY DEF C!Tell, C!Idle, CallsInv
<1>2. /\ CallRequest(q) /\ q.about = req[r].about
      /\ q.inserts = req[r].inserts /\ q.writes = req[r].writes
  <2>1. DOMAIN q = DOMAIN req[r] /\ q.at = req[r].at /\ q.about = req[r].about
        /\ q.inserts = req[r].inserts /\ q.writes = req[r].writes
        /\ q.tells = req[r].tells \ {<<c, event>>} /\ q.raises = req[r].raises
    BY <1>1 DEF CallRequest
  <2> QED
    BY <1>1, <2>1 DEF CallRequest, C!RequestOK, C!Idle
<1>3. req' = [req EXCEPT ![r] = q] /\ call' = call
  BY DEF C!Tell
<1> HIDE DEF q
<1>4. CASE event = "MISSED"
  <2>1. c \in DOMAIN req[r].writes /\ req[r].writes[c] = C!Missed
    BY <1>1, <1>4 DEF C!Tell, CallRequest
  <2>2. past' = [past EXCEPT ![c] = C!Marked(@, {"SAID_MISSED"})]
    BY <1>4 DEF C!Tell
  <2> QED
    BY <1>1, <1>2, <1>3, <2>1, <2>2, CallsGo
<1>5. CASE event # "MISSED"
  <2>1. past' = past
    BY <1>5 DEF C!Tell, C!Marked, CallsInv, C!TypeOK
  <2> QED
    BY <1>1, <1>2, <1>3, <2>1, CallsGo
<1> QED
  BY <1>4, <1>5

LEMMA CallsRollback ==
  ASSUME CallsInv, NEW r \in Requests, C!Rollback(r)
  PROVE  CallsInv'
  BY CallsGo DEF C!Rollback

(* A call rings too long: what is decided on it fits all the same.         *)
LEMMA CallsRing ==
  ASSUME CallsInv, None \notin C!CallRow \cup C!Reasons, NEW c \in Calls, C!RingsTooLong(c)
  PROVE  CallsInv'
<1>0. /\ C!TypeOK /\ C!Exists(c) /\ call[c] \in C!CallRow /\ call[c].status = "RINGING"
      /\ req' = req /\ past' = past
  BY DEF CallsInv, C!TypeOK, C!RingsTooLong, C!Exists
<1> DEFINE row == [call[c] EXCEPT !.late = TRUE]
<1>1. /\ row \in C!CallRow /\ row.status = call[c].status /\ row.reason = call[c].reason
      /\ row.late
  BY <1>0 DEF C!CallRow
<1>2. call' = [call EXCEPT ![c] = row]
  BY DEF C!RingsTooLong
<1> HIDE DEF row
<1>3. \A k \in Calls : call'[k] = IF k = c THEN row ELSE call[k]
  BY <1>0, <1>2 DEF C!TypeOK
<1>4. C!TypeOK'
  BY <1>0, <1>1, <1>2 DEF C!TypeOK
<1>5. \A k \in Calls :
        /\ C!Exists(k)' <=> C!Exists(k)
        /\ C!Exists(k) =>
             /\ call'[k].status = call[k].status
             /\ call'[k].reason = call[k].reason
             /\ C!Expired(k) => C!Expired(k)'
  BY <1>0, <1>1, <1>3 DEF C!Exists, C!Expired
<1>6. (\A s \in Requests : req[s] # C!Idle => CallRequest(req[s]) /\ CallPlaced(req[s]))'
  <2>1. \A s \in Requests : req[s] # C!Idle =>
          DOMAIN req[s].inserts \cup DOMAIN req[s].writes \subseteq Calls
    BY DEF CallsInv, CallRequest, C!RequestOK
  <2> QED
    BY <1>0, <1>5, <2>1 DEF CallsInv, CallPlaced
<1>7. CallRacesNoted'
  BY <1>0 DEF CallsInv, CallRacesNoted, Loaded
<1>8. ASSUME NEW k \in Calls
      PROVE  /\ ~C!Exists(k)' => past'[k] = {}
             /\ C!Exists(k)' /\ "RACED" \notin past'[k] => CallSound(k)'
  BY <1>0, <1>5 DEF CallsInv, CallSound
<1>9. ASSUME NEW k \in Calls, NEW s \in Requests, req'[s] # C!Idle,
             k \in DOMAIN req'[s].writes, "RACED" \notin past'[k]
      PROVE  CallFits(req[s].writes[k], k)'
  <2>1. CallFits(req[s].writes[k], k) /\ C!Exists(k)
    BY <1>0, <1>9 DEF CallsInv, CallPlaced
  <2> QED
    BY <1>0, <1>5, <2>1 DEF CallFits
<1> QED
  BY <1>4, <1>6, <1>7, <1>8, <1>9 DEF CallsInv

(* The rows a commit leaves: calls made ring, and those changed have what  *)
(* was decided on.                                                         *)
LEMMA CallsCommit ==
  ASSUME CallsInv, None \notin C!CallRow \cup C!Reasons, NEW r \in Requests, C!Commit(r)
  PROVE  CallsInv'
<1> DEFINE q == req[r]
<1>0. /\ C!TypeOK /\ CallRacesNoted /\ q # C!Idle /\ CallRequest(q) /\ CallPlaced(q)
      /\ \A s \in Requests : req'[s] = IF s = r THEN C!Idle ELSE req[s]
      /\ DOMAIN req' = Requests
  BY DEF C!Commit, C!Idle, CallsInv, C!TypeOK
<1>1. ASSUME NEW c \in DOMAIN q.inserts
      PROVE  /\ c \in Calls /\ ~C!Exists(c) /\ past[c] = {}
             /\ call'[c] \in C!CallRow /\ call'[c] = q.inserts[c]
             /\ past'[c] = {"RINGING"}
             /\ call'[c].status = "RINGING" /\ call'[c].reason = None
  <2>1. c \in Calls /\ c \in q.about /\ ~C!Exists(c) /\ past[c] = {}
    BY <1>0 DEF CallsInv, CallRequest, CallPlaced, C!RequestOK
  <2>2. call'[c] = q.inserts[c] /\ past'[c] = {call'[c].status}
    BY <2>1 DEF C!Commit, C!Marked
  <2> QED
    BY <1>0, <2>1, <2>2 DEF CallRequest
<1>2. ASSUME NEW c \in DOMAIN q.writes
      PROVE  /\ c \in Calls /\ C!Exists(c) /\ q.writes[c] \in CallWrites
             /\ call'[c] \in C!CallRow
             /\ call'[c].status = q.writes[c].status
             /\ call'[c].reason = IF q.writes[c].status = "ACCEPTED"
                                    THEN call[c].reason ELSE q.writes[c].reason
             /\ past'[c] = C!Marked(past[c], {q.writes[c].status})
  <2>1. /\ c \in Calls /\ c \in q.about /\ c \notin DOMAIN q.inserts
        /\ C!Exists(c) /\ q.writes[c] \in CallWrites
    BY <1>0 DEF CallRequest, CallPlaced, C!RequestOK
  <2>2. call[c] \in C!CallRow
    BY <1>0, <2>1 DEF C!TypeOK, C!Exists
  <2>3. call'[c] = C!Written(q.writes[c], call[c])
        /\ past'[c] = C!Marked(past[c], {call'[c].status})
    BY <2>1 DEF C!Commit
  <2> HIDE DEF q
  <2> DEFINE w == q.writes[c]
             row == C!Written(w, call[c])
  <2>4. /\ row \in C!CallRow /\ row.status = w.status
        /\ row.reason = IF w.status = "ACCEPTED" THEN call[c].reason ELSE w.reason
    BY <2>1, <2>2, CallWritten
  <2> HIDE DEF row
  <2>5. call'[c] = row
    BY <2>3 DEF row
  <2> QED
    BY <2>1, <2>3, <2>4, <2>5
<1>3. ASSUME NEW c \in Calls, c \notin q.about
      PROVE  call'[c] = call[c] /\ past'[c] = past[c]
  BY <1>0, <1>3 DEF C!Commit, CallRequest
<1>4. \A c \in Calls : c \in q.about => c \in DOMAIN q.inserts \/ c \in DOMAIN q.writes
  BY <1>0 DEF CallRequest
<1>5. C!TypeOK'
  <2>1. \A c \in Calls : call'[c] \in C!CallRow \cup {None}
    BY <1>0, <1>1, <1>2, <1>3, <1>4 DEF C!TypeOK
  <2>2. call' \in [Calls -> C!CallRow \cup {None}]
    BY <2>1 DEF C!Commit
  <2>3. \A c \in Calls : past'[c] \subseteq C!Marks
    <3>1. \A w \in CallWrites : w.status \in C!Statuses
      BY DEF CallWrites, C!Missed, C!Statuses, C!TERMINAL_STATUSES
    <3>2. \A c \in Calls : past[c] \subseteq C!Marks
      BY <1>0 DEF C!TypeOK
    <3> SUFFICES ASSUME NEW c \in Calls PROVE past'[c] \subseteq C!Marks
      OBVIOUS
    <3>3. CASE c \in DOMAIN q.inserts
      BY <1>1, <3>3 DEF C!Marks, C!Statuses
    <3>4. CASE c \in DOMAIN q.writes
      <4>1. q.writes[c].status \in C!Statuses
        BY <1>2, <3>1, <3>4
      <4>2. past'[c] \subseteq past[c] \cup {q.writes[c].status}
        BY <1>2, <3>4 DEF C!Marked
      <4> QED
        BY <3>2, <4>1, <4>2 DEF C!Marks
    <3> QED
      BY <1>3, <1>4, <3>2, <3>3, <3>4
  <2>4. past' \in [Calls -> SUBSET C!Marks]
    BY <2>3 DEF C!Commit
  <2>5. \A s \in Requests : C!RequestOK(req'[s])
    BY <1>0 DEF C!TypeOK, C!RequestOK
  <2> QED
    BY <1>0, <2>2, <2>4, <2>5 DEF C!TypeOK
<1>6. \A c \in Calls : /\ "RACED" \in past[c] => "RACED" \in past'[c]
                       /\ C!Exists(c) => C!Exists(c)'
  BY <1>1, <1>2, <1>3, <1>4 DEF C!Marked, C!Exists
<1>7. ASSUME NEW s \in Requests, s # r, req[s] # C!Idle, NEW c \in req[s].about,
             "RACED" \notin past[c]
      PROVE  c \in Calls /\ c \notin q.about
  <2>1. c \in Calls
    BY <1>7 DEF CallsInv, CallRequest, C!RequestOK
  <2> QED
    BY <1>0, <1>7, <2>1 DEF CallRacesNoted, Loaded
<1>8. (\A s \in Requests : req[s] # C!Idle => CallRequest(req[s]) /\ CallPlaced(req[s]))'
  <2> SUFFICES ASSUME NEW s \in Requests, req'[s] # C!Idle
               PROVE  CallRequest(req'[s]) /\ (CallPlaced(req[s]))'
    OBVIOUS
  <2>1. s # r /\ req'[s] = req[s] /\ CallRequest(req[s]) /\ CallPlaced(req[s])
    BY <1>0 DEF CallsInv
  <2>2. ASSUME NEW c \in DOMAIN req[s].inserts PROVE ~C!Exists(c)'
    <3>1. c \in req[s].about /\ c \in Calls /\ ~C!Exists(c) /\ past[c] = {}
      BY <2>1 DEF CallRequest, CallPlaced, C!RequestOK, CallsInv
    <3> QED
      BY <1>3, <1>7, <2>1, <3>1 DEF C!Exists
  <2>3. ASSUME NEW c \in DOMAIN req[s].writes PROVE C!Exists(c)'
    BY <1>6, <2>1 DEF CallRequest, CallPlaced, C!RequestOK
  <2> QED
    BY <2>1, <2>2, <2>3 DEF CallPlaced
<1>9. CallRacesNoted'
  <2>1. \A s \in Requests, c \in Calls :
          req'[s] # C!Idle /\ c \in req'[s].about => req[s] # C!Idle /\ c \in req[s].about
    BY <1>0
  <2> QED
    BY <1>0, <1>6, <2>1 DEF CallRacesNoted, Loaded
<1>10. ASSUME NEW c \in Calls
       PROVE  /\ ~C!Exists(c)' => past'[c] = {}
              /\ C!Exists(c)' /\ "RACED" \notin past'[c] => CallSound(c)'
  <2>1. CASE c \in DOMAIN q.inserts
    BY <1>1, <2>1 DEF C!Exists, CallSound, C!Expired, C!TERMINAL_STATUSES, C!Reasons
  <2>2. CASE c \in DOMAIN q.writes
    <3>1. C!Exists(c)'
      BY <1>2, <2>2 DEF C!Exists
    <3>2. ASSUME "RACED" \notin past'[c]
          PROVE  CallSound(c)'
      <4> DEFINE w == q.writes[c]
      <4>1. /\ "RACED" \notin past[c] /\ CallFits(w, c) /\ CallSound(c)
            /\ past'[c] = past[c] \cup {w.status}
        BY <1>0, <1>2, <1>6, <2>2, <3>2 DEF C!Marked, CallsInv
      <4>2. CASE w = C!Missed
        <5>1. call'[c].status = "MISSED" /\ call'[c].reason = "MISSED"
          <6>1. w.status = "MISSED" /\ w.reason = "MISSED"
            BY <4>2 DEF C!Missed
          <6>2. /\ call'[c].status = w.status
                /\ call'[c].reason = IF w.status = "ACCEPTED" THEN call[c].reason
                                                             ELSE w.reason
            BY <1>2, <2>2
          <6> HIDE DEF w
          <6> QED
            BY <6>1, <6>2
        <5>2. past'[c] = past[c] \cup {"MISSED"}
          BY <4>1, <4>2 DEF C!Missed
        <5>3. past[c] \cap C!TERMINAL_STATUSES = {}
          BY <4>1, <4>2 DEF CallSound, CallFits, C!Expired, C!TERMINAL_STATUSES
        <5> QED
          BY <5>1, <5>2, <5>3 DEF CallSound
      <4>3. CASE w # C!Missed
        <5>1. /\ past[c] \cap C!TERMINAL_STATUSES = {}
              /\ "SAID_MISSED" \notin past[c]
          BY <4>1, <4>3 DEF CallSound, CallFits, C!Terminal
        <5>2. /\ w.status \in {"ACCEPTED", "REJECTED", "ENDED"}
              /\ w.status = "REJECTED" => w.reason = "REJECTED"
          <6>1. \A x \in CallWrites \ {C!Missed} :
                  /\ x.status \in {"ACCEPTED", "REJECTED", "ENDED"}
                  /\ x.status = "REJECTED" => x.reason = "REJECTED"
            BY DEF CallWrites
          <6> QED
            BY <1>2, <2>2, <4>3, <6>1
        <5>3. CASE call[c].status = "RINGING"
          <6>1. "ACCEPTED" \notin past[c] /\ call[c].reason # "CALLER_CANCELLED"
            BY <4>1, <5>3 DEF CallSound, C!Terminal, C!TERMINAL_STATUSES
          <6> HIDE DEF w
          <6>2. /\ call'[c].status = w.status
                /\ call'[c].reason = IF w.status = "ACCEPTED" THEN call[c].reason
                                                             ELSE w.reason
            BY <1>2, <2>2 DEF w
          <6> QED
            BY <4>1, <5>1, <5>2, <6>1, <6>2 DEF CallSound, C!Terminal, C!TERMINAL_STATUSES
        <5>4. CASE call[c].status # "RINGING"
          <6>1. w.status = "ENDED" /\ w.reason # "CALLER_CANCELLED"
            BY <4>1, <4>3, <5>2, <5>4 DEF CallFits
          <6> QED
            BY <1>2, <2>2, <4>1, <5>1, <6>1 DEF CallSound, C!Terminal, C!TERMINAL_STATUSES
        <5> QED
          BY <5>3, <5>4
      <4> QED
        BY <4>2, <4>3
    <3> QED
      BY <3>1, <3>2
  <2>3. CASE c \notin q.about
    BY <1>3, <2>3 DEF CallsInv, C!Exists, CallSound, C!Expired
  <2> QED
    BY <1>4, <2>1, <2>2, <2>3
<1>11. ASSUME NEW c \in Calls, NEW s \in Requests, req'[s] # C!Idle,
              c \in DOMAIN req'[s].writes, "RACED" \notin past'[c]
       PROVE  CallFits(req'[s].writes[c], c) /\ (CallFits(req[s].writes[c], c))'
  <2>1. s # r /\ req'[s] = req[s] /\ req[s] # C!Idle /\ "RACED" \notin past[c]
    BY <1>0, <1>6, <1>11
  <2>2. c \in req[s].about /\ CallFits(req[s].writes[c], c)
    BY <1>11, <2>1 DEF CallsInv, CallRequest
  <2>3. call'[c] = call[c] /\ past'[c] = past[c]
    BY <1>3, <1>7, <2>1, <2>2
  <2> QED
    BY <2>1, <2>2, <2>3 DEF CallFits, C!Expired, C!Exists
<1> QED
  BY <1>5, <1>8, <1>9, <1>10, <1>11 DEF CallsInv

(* Every step.                                                             *)
LEMMA CallsNext ==
  ASSUME None \notin C!CallRow \cup C!Reasons, CallsInv, [C!Next]_C!vars
  PROVE  CallsInv'
<1>1. CASE UNCHANGED C!vars
  BY <1>1 DEF C!vars, CallsInv, C!TypeOK, CallPlaced, CallRacesNoted, Loaded, CallSound,
     CallFits, C!Exists, C!Expired
<1>2. ASSUME NEW r \in Requests, C!Handler(r)
      PROVE  CallsInv'
  BY <1>2, CallsStart, CallsAnswer, CallsEnd, CallsFlush, CallsTell, CallsCommit,
     CallsRollback DEF C!Handler
<1> QED
  BY <1>1, <1>2, CallsRing DEF C!Next

(* A call that was said to be missed is not answered later, one that is    *)
(* over stays as it ended, and the caller gave up only an unanswered one.  *)
LEMMA CallsInvariance ==
  ASSUME None \notin C!CallRow \cup C!Reasons
  PROVE  C!Spec => [](C!TypeOK /\ C!CallsAreFinal)
<1>1. C!Init => CallsInv
  BY DEF C!Init, CallsInv, C!TypeOK, CallRacesNoted, Loaded, C!Exists, C!RequestOK
<1>2. CallsInv /\ [C!Next]_C!vars => CallsInv'
  BY CallsNext
<1>3. CallsInv => C!TypeOK /\ C!CallsAreFinal
  BY DEF CallsInv, CallSound, C!CallsAreFinal
<1> QED
  BY <1>1, <1>2, <1>3, PTL DEF C!Spec

-----------------------------------------------------------------------------
(***************************************************************************)
(* Sockets.  What matters of the list of a user is which sockets are in    *)
(* it: taking one entry away leaves all other sockets in.  And a message   *)
(* owes itself only to sockets that it still has before it.                *)
(***************************************************************************)
Listed(entries) == {entries[i] : i \in DOMAIN entries}

SocketsInv ==
  /\ S!TypeOK
  /\ connections \in [Subscribers -> Seq(Sockets)]
  /\ DOMAIN send = Senders
  /\ S!ConnectionsSound
  /\ \A m \in Senders : send[m] # S!Idle => send[m].owed \subseteq Listed(send[m].rest)
  /\ ~skipped

(* Positions have a first one.                                             *)
LEMMA FirstPosition ==
  ASSUME NEW I, I \subseteq Nat, I # {}
  PROVE  S!Min(I) \in I
<1> DEFINE R == OpToRel(<, Nat)
<1>1. \A y, x \in Nat : <<y, x>> \in R <=> y < x
  BY DEF OpToRel
<1>2. IsWellFoundedOn(R, Nat)
  BY NatLessThanWellFounded
<1> HIDE DEF R
<1>3. PICK x \in I : \A y \in I : ~ (<<y, x>> \in R)
  BY <1>2, WFMin
<1>4. \A y \in I : ~ (y < x)
  BY <1>1, <1>3
<1>5. \A y \in I : x <= y
  BY <1>4
<1> QED
  BY <1>5 DEF S!Min

(* Taking away an entry of one socket keeps all other sockets.             *)
LEMMA WithoutKeepsOthers ==
  ASSUME NEW e \in Seq(Sockets), NEW s
  PROVE  /\ S!Without(e, s) \in Seq(Sockets)
         /\ Len(S!Without(e, s)) <= Len(e)
         /\ Listed(e) \ {s} \subseteq Listed(S!Without(e, s))
<1>1. CASE ~ \E i \in 1..Len(e) : e[i] = s
  BY <1>1 DEF S!Without, S!RemoveFirst
<1>2. CASE \E i \in 1..Len(e) : e[i] = s
  <2> DEFINE I == {i \in 1..Len(e) : e[i] = s}
             k == S!Min(I)
             a == SubSeq(e, 1, k - 1)
             b == SubSeq(e, k + 1, Len(e))
  <2>1. k \in 1..Len(e) /\ e[k] = s
    <3>1. I \subseteq Nat /\ I # {}
      BY <1>2
    <3> QED
      BY <3>1, FirstPosition
  <2>2. S!Without(e, s) = a \o b
    BY <1>2 DEF S!Without, S!RemoveFirst, S!RemoveAt, S!SelectInSeq
  <2> HIDE DEF k
  <2>3. /\ a \in Seq(Sockets) /\ Len(a) = k - 1 /\ \A i \in 1..k - 1 : a[i] = e[i]
        /\ b \in Seq(Sockets) /\ Len(b) = Len(e) - k
        /\ \A i \in 1..Len(e) - k : b[i] = e[k + i]
    <3>1. /\ 1 \in Int /\ k - 1 \in Int /\ k + 1 \in Int /\ Len(e) \in Int
          /\ \A i \in 1..k - 1 : e[i] \in Sockets
          /\ \A i \in k + 1..Len(e) : e[i] \in Sockets
      BY <2>1
    <3>2. /\ a \in Seq(Sockets) /\ Len(a) = IF 1 <= k - 1 THEN k - 1 - 1 + 1 ELSE 0
          /\ \A i \in 1..k - 1 - 1 + 1 : a[i] = e[1 + i - 1]
      BY <3>1, SubSeqProperties
    <3>3. /\ b \in Seq(Sockets)
          /\ Len(b) = IF k + 1 <= Len(e) THEN Len(e) - (k + 1) + 1 ELSE 0
          /\ \A i \in 1..Len(e) - (k + 1) + 1 : b[i] = e[k + 1 + i - 1]
      BY <3>1, SubSeqProperties
    <3> HIDE DEF a, b
    <3> QED
      BY <2>1, <3>2, <3>3
  <2> HIDE DEF a, b
  <2>4. /\ a \o b \in Seq(Sockets) /\ Len(a \o b) = Len(e) - 1
        /\ \A i \in 1..Len(e) - 1 :
             (a \o b)[i] = IF i <= k - 1 THEN a[i] ELSE b[i - (k - 1)]
    <3>1. /\ a \o b \in Seq(Sockets) /\ Len(a \o b) = Len(a) + Len(b)
          /\ \A i \in 1..Len(a) + Len(b) :
               (a \o b)[i] = IF i <= Len(a) THEN a[i] ELSE b[i - Len(a)]
      BY <2>3, ConcatProperties
    <3> DEFINE c == a \o b
    <3> HIDE DEF c
    <3> QED
      BY <2>1, <2>3, <3>1
  <2>5. ASSUME NEW x \in Listed(e), x # s
        PROVE  x \in Listed(S!Without(e, s))
    <3>1. PICK i \in 1..Len(e) : e[i] = x
      BY <2>5 DEF Listed
    <3>2. i # k
      BY <2>1, <2>5, <3>1
    <3>3. CASE i < k
      <4>1. i \in 1..Len(e) - 1 /\ (a \o b)[i] = x
        BY <2>1, <2>3, <2>4, <3>1, <3>3
      <4> QED
        BY <2>2, <2>4, <4>1 DEF Listed
    <3>4. CASE i > k
      <4>1. i - 1 \in 1..Len(e) - 1 /\ (a \o b)[i - 1] = b[i - k]
        BY <2>1, <2>3, <2>4, <3>1, <3>4
      <4>2. b[i - k] = x
        BY <2>1, <2>3, <3>1, <3>4
      <4>3. (a \o b)[i - 1] = x
        BY <4>1, <4>2
      <4>4. i - 1 \in DOMAIN (a \o b)
        BY <2>4, <4>1
      <4> QED
        BY <2>2, <4>3, <4>4 DEF Listed
    <3> QED
      BY <2>1, <3>1, <3>2, <3>3, <3>4
  <2> QED
    BY <2>1, <2>2, <2>4, <2>5
<1> QED
  BY <1>1, <1>2

(* Who is in a room is a user.                                             *)
LEMMA MembersAreUsers ==
  ASSUME SocketsInv, NEW x \in Rooms
  PROVE  /\ S!Members(x) \subseteq Subscribers
         /\ \A u \in S!Members(x) : connections[u] # <<>> \/ u \in left
<1>1. rooms[x] = None \/ rooms[x] \subseteq Subscribers
  BY DEF SocketsInv, S!TypeOK
<1> QED
  BY <1>1 DEF SocketsInv, S!ConnectionsSound, S!Members

(* A new entry is added to those of a user.                                *)
LEMMA SocketsConnect ==
  ASSUME SocketsInv, MaxEntries \in Nat, NEW s \in Sockets, NEW u \in Subscribers,
         S!Connect(s, u)
  PROVE  SocketsInv'
<1>1. /\ connections[u] \in Seq(Sockets) /\ Len(connections[u]) < MaxEntries
      /\ connections' = [connections EXCEPT ![u] = Append(@, s)]
      /\ socket' = [socket EXCEPT ![s].user = u]
      /\ UNCHANGED <<rooms, send, left, skipped>>
  BY DEF S!Connect, SocketsInv
<1> DEFINE e == Append(connections[u], s)
<1>2. /\ e \in Seq(Sockets) /\ Len(e) = Len(connections[u]) + 1
      /\ Listed(e) = Listed(connections[u]) \cup {s} /\ e # <<>>
  <2>1. /\ e \in Seq(Sockets) /\ Len(e) = Len(connections[u]) + 1 /\ e # <<>>
        /\ DOMAIN connections[u] = 1..Len(connections[u])
        /\ DOMAIN e = 1..Len(connections[u]) + 1
        /\ \A i \in 1..Len(connections[u]) : e[i] = connections[u][i]
        /\ e[Len(connections[u]) + 1] = s
    BY <1>1
  <2>2. Len(connections[u]) \in Nat
    BY <1>1
  <2> HIDE DEF e
  <2>3. ASSUME NEW t \in Listed(e) PROVE t \in Listed(connections[u]) \cup {s}
    <3>1. PICK i \in 1..Len(connections[u]) + 1 : e[i] = t
      BY <2>1, <2>3 DEF Listed
    <3> QED
      BY <2>1, <2>2, <3>1 DEF Listed
  <2>4. ASSUME NEW t \in Listed(connections[u]) \cup {s} PROVE t \in Listed(e)
    <3>1. CASE t = s
      <4>1. Len(connections[u]) + 1 \in DOMAIN e
        BY <2>1, <2>2
      <4> QED
        BY <2>1, <3>1, <4>1 DEF Listed
    <3>2. CASE t # s
      <4>1. PICK i \in 1..Len(connections[u]) : connections[u][i] = t
        BY <2>1, <2>4, <3>2 DEF Listed
      <4>2. i \in DOMAIN e
        BY <2>1, <2>2, <4>1
      <4> QED
        BY <2>1, <4>1, <4>2 DEF Listed
    <3> QED
      BY <3>1, <3>2
  <2> QED
    BY <2>1, <2>3, <2>4
<1>3. connections' \in [Subscribers -> Seq(Sockets)]
      /\ connections' = [v \in Subscribers |-> IF v = u THEN e ELSE connections[v]]
  BY <1>1, <1>2 DEF SocketsInv
<1> HIDE DEF e
<1>4. \A t \in Sockets : socket'[t].is = socket[t].is
        /\ socket'[t].user = IF t = s THEN u ELSE socket[t].user
  BY <1>1 DEF SocketsInv, S!TypeOK, S!Socket
<1>5. socket' \in [Sockets -> S!Socket]
  BY <1>1 DEF SocketsInv, S!TypeOK, S!Socket
<1>6. S!TypeOK'
  <2>1. Len(e) <= MaxEntries
    BY <1>1, <1>2
  <2> QED
    BY <1>1, <1>2, <1>3, <1>5, <2>1 DEF SocketsInv, S!TypeOK
<1>7. S!ConnectionsSound'
  <2>1. ASSUME NEW t \in Sockets, socket'[t].is = "open", socket'[t].user # None
        PROVE  t \in Listed(connections'[socket'[t].user])
    <3>1. CASE t = s
      BY <1>2, <1>3, <1>4, <3>1
    <3>2. CASE t # s
      <4>1. socket[t].user \in Subscribers /\ t \in Listed(connections[socket[t].user])
        BY <1>4, <2>1, <3>2
        DEF SocketsInv, S!TypeOK, S!Socket, S!ConnectionsSound, S!Entries, Listed
      <4> QED
        BY <1>2, <1>3, <1>4, <3>2, <4>1
    <3> QED
      BY <3>1, <3>2
  <2>2. ASSUME NEW x \in Rooms, NEW v \in S!Members(x)'
        PROVE  connections'[v] # <<>> \/ v \in left'
    <3>1. v \in S!Members(x)
      BY <1>1, <2>2 DEF S!Members
    <3>2. v \in Subscribers /\ (connections[v] # <<>> \/ v \in left)
      BY <3>1, MembersAreUsers
    <3> QED
      BY <1>1, <1>2, <1>3, <3>2
  <2> QED
    BY <2>1, <2>2 DEF S!ConnectionsSound, S!Entries, Listed
<1> QED
  BY <1>1, <1>3, <1>6, <1>7 DEF SocketsInv, Listed

(* A socket ends or breaks: then nothing is said of it.                    *)
LEMMA SocketsClose ==
  ASSUME SocketsInv, NEW s \in Sockets, S!Refuse(s) \/ S!Break(s)
  PROVE  SocketsInv'
<1>1. PICK w \in {"gone", "broken"} : socket' = [socket EXCEPT ![s].is = w]
  BY DEF S!Refuse, S!Break
<1>2. UNCHANGED <<connections, rooms, send, left, skipped>>
  BY DEF S!Refuse, S!Break
<1>3. socket' \in [Sockets -> S!Socket]
  BY <1>1 DEF SocketsInv, S!TypeOK, S!Socket
<1>4. \A t \in Sockets : socket'[t].user = socket[t].user
        /\ (socket'[t].is = "open" => socket[t].is = "open")
  BY <1>1 DEF SocketsInv, S!TypeOK, S!Socket
<1>5. S!TypeOK'
  BY <1>2, <1>3 DEF SocketsInv, S!TypeOK
<1>6. S!ConnectionsSound'
  BY <1>2, <1>4 DEF SocketsInv, S!ConnectionsSound, S!Entries, S!Members
<1> QED
  BY <1>2, <1>5, <1>6 DEF SocketsInv, Listed

(* Rooms change, by a user who is connected or has left.                   *)
LEMMA SocketsRooms ==
  ASSUME SocketsInv, NEW s \in Sockets, NEW x \in Rooms, S!Join(s, x) \/ S!Leave(s, x)
  PROVE  SocketsInv'
<1> DEFINE u == socket[s].user
<1>1. u \in Subscribers /\ UNCHANGED <<connections, socket, send, skipped>>
  BY DEF S!Join, S!Leave, SocketsInv, S!TypeOK, S!Socket
<1>2. /\ rooms' \in [Rooms -> (SUBSET Subscribers) \cup {None}]
      /\ \A y \in Rooms : y # x => rooms'[y] = rooms[y]
      /\ left \subseteq left' /\ left' \subseteq Subscribers
  <2>1. S!Members(x) \subseteq Subscribers /\ left \subseteq Subscribers
        /\ rooms \in [Rooms -> (SUBSET Subscribers) \cup {None}]
    BY MembersAreUsers DEF SocketsInv, S!TypeOK
  <2>2. CASE S!Join(s, x)
    <3>1. rooms' = [rooms EXCEPT ![x] = S!Members(x) \cup {u}]
          /\ left' = IF connections[u] = <<>> THEN left \cup {u} ELSE left
      BY <2>2 DEF S!Join
    <3> QED
      BY <1>1, <2>1, <3>1
  <2>3. CASE S!Leave(s, x)
    <3>1. PICK y \in (SUBSET Subscribers) \cup {None} : rooms' = [rooms EXCEPT ![x] = y]
      <4> DEFINE y == IF S!Members(x) \ {u} = {} THEN None ELSE S!Members(x) \ {u}
      <4>1. y \in (SUBSET Subscribers) \cup {None}
        BY <2>1
      <4> QED
        BY <2>3, <4>1 DEF S!Leave
    <3>2. left' = left
      BY <2>3 DEF S!Leave
    <3> QED
      BY <2>1, <3>1, <3>2
  <2> QED
    BY <2>2, <2>3
<1>3. \A v \in S!Members(x)' : v \in S!Members(x) \/ connections[v] # <<>> \/ v \in left'
  <2>1. CASE S!Join(s, x)
    <3>1. rooms'[x] = S!Members(x) \cup {u} /\ (connections[u] = <<>> => u \in left')
      BY <2>1 DEF S!Join, SocketsInv, S!TypeOK
    <3> QED
      BY <3>1 DEF S!Members
  <2>2. CASE S!Leave(s, x)
    <3>1. rooms'[x] = None \/ rooms'[x] \subseteq S!Members(x)
      BY <2>2 DEF S!Leave, SocketsInv, S!TypeOK
    <3> QED
      BY <3>1 DEF S!Members
  <2> QED
    BY <2>1, <2>2
<1>4. S!ConnectionsSound'
  <2>1. \A y \in Rooms : \A v \in S!Members(y)' : connections'[v] # <<>> \/ v \in left'
    BY <1>1, <1>2, <1>3 DEF SocketsInv, S!ConnectionsSound, S!Members
  <2> QED
    BY <1>1, <2>1 DEF SocketsInv, S!ConnectionsSound, S!Entries
<1>5. S!TypeOK'
  BY <1>1, <1>2 DEF SocketsInv, S!TypeOK
<1> QED
  BY <1>1, <1>4, <1>5 DEF SocketsInv, Listed

(* An entry of a socket that is not open any more goes; with the last one  *)
(* of a user, the user goes from all rooms.                                *)
LEMMA SocketsEntryGoes ==
  ASSUME SocketsInv, MaxEntries \in Nat, NEW s \in Sockets, NEW u \in Subscribers,
         connections[u] # <<>>,
         connections' = [connections EXCEPT ![u] = S!Without(@, s)],
         socket' \in [Sockets -> S!Socket], socket'[s].is # "open",
         \A t \in Sockets : socket'[t].user = socket[t].user
           /\ (socket'[t].is = "open" => socket[t].is = "open"),
         rooms' \in [Rooms -> (SUBSET Subscribers) \cup {None}],
         IF connections'[u] = <<>>
           THEN /\ left' = left \ {u}
                /\ \A x \in Rooms : S!Members(x)' \subseteq S!Members(x) \ {u}
           ELSE left' = left /\ rooms' = rooms
  PROVE  /\ connections' \in [Subscribers -> Seq(Sockets)]
         /\ \A v \in Subscribers : Len(connections'[v]) <= MaxEntries
         /\ left' \subseteq Subscribers
         /\ S!ConnectionsSound'
<1> DEFINE e == S!Without(connections[u], s)
<1>1. /\ e \in Seq(Sockets) /\ Len(e) <= Len(connections[u])
      /\ Listed(connections[u]) \ {s} \subseteq Listed(e)
  BY WithoutKeepsOthers DEF SocketsInv
<1>2. connections' = [v \in Subscribers |-> IF v = u THEN e ELSE connections[v]]
  BY DEF SocketsInv
<1> HIDE DEF e
<1>3. connections' \in [Subscribers -> Seq(Sockets)]
  BY <1>1, <1>2 DEF SocketsInv
<1>4. \A v \in Subscribers : Len(connections'[v]) <= MaxEntries
  <2>1. Len(connections[u]) <= MaxEntries /\ connections[u] \in Seq(Sockets)
    BY DEF SocketsInv, S!TypeOK
  <2>2. Len(e) <= MaxEntries
    BY <1>1, <2>1
  <2> QED
    BY <1>2, <2>2 DEF SocketsInv, S!TypeOK
<1>5. \A t \in Sockets : socket'[t].is = "open" /\ socket'[t].user # None =>
        t \in Listed(connections'[socket'[t].user])
  <2> SUFFICES ASSUME NEW t \in Sockets, socket'[t].is = "open", socket'[t].user # None
               PROVE  t \in Listed(connections'[socket'[t].user])
    OBVIOUS
  <2>1. socket[t].user \in Subscribers /\ t \in Listed(connections[socket[t].user]) /\ t # s
    BY DEF SocketsInv, S!TypeOK, S!Socket, S!ConnectionsSound, S!Entries, Listed
  <2> QED
    BY <1>1, <1>2, <2>1
<1>6. \A x \in Rooms : \A v \in S!Members(x)' : connections'[v] # <<>> \/ v \in left'
  <2> SUFFICES ASSUME NEW x \in Rooms, NEW v \in S!Members(x)'
               PROVE  connections'[v] # <<>> \/ v \in left'
    OBVIOUS
  <2>1. v \in S!Members(x)
    BY DEF S!Members
  <2>2. v \in Subscribers /\ (connections[v] # <<>> \/ v \in left)
    BY <2>1, MembersAreUsers
  <2> QED
    BY <1>2, <2>1, <2>2
<1> QED
  BY <1>3, <1>4, <1>5, <1>6 DEF SocketsInv, S!TypeOK, S!ConnectionsSound, S!Entries, Listed

(* disconnect, of a socket that goes with it.                              *)
LEMMA SocketsDisconnect ==
  ASSUME SocketsInv, MaxEntries \in Nat, NEW s \in Sockets, S!Disconnect(s)
  PROVE  SocketsInv'
<1> DEFINE u == socket[s].user
<1>1. /\ socket' = [socket EXCEPT ![s].is = "gone"]
      /\ UNCHANGED <<send, skipped>>
  BY DEF S!Disconnect
<1>2. socket' \in [Sockets -> S!Socket] /\ socket'[s].is = "gone"
  BY <1>1 DEF SocketsInv, S!TypeOK, S!Socket
<1>3. \A t \in Sockets : socket'[t].user = socket[t].user
        /\ (socket'[t].is = "open" => socket[t].is = "open")
  BY <1>1 DEF SocketsInv, S!TypeOK, S!Socket
<1>4. CASE u = None \/ connections[u] = <<>>
  <2>1. UNCHANGED <<connections, rooms, left>>
    BY <1>4 DEF S!Disconnect
  <2>2. S!ConnectionsSound'
    BY <1>3, <2>1 DEF SocketsInv, S!ConnectionsSound, S!Entries, S!Members
  <2> QED
    BY <1>1, <1>2, <2>1, <2>2 DEF SocketsInv, S!TypeOK, Listed
<1>5. CASE ~(u = None \/ connections[u] = <<>>)
  <2>1. u \in Subscribers /\ connections[u] # <<>>
    BY <1>5 DEF SocketsInv, S!TypeOK, S!Socket
  <2>2. /\ connections' = [connections EXCEPT ![u] = S!Without(@, s)]
        /\ IF connections'[u] = <<>>
             THEN /\ rooms' = [x \in Rooms |->
                       IF rooms[x] = None THEN None ELSE rooms[x] \ {u}]
                  /\ left' = left \ {u}
             ELSE UNCHANGED <<rooms, left>>
    BY <1>5 DEF S!Disconnect
  <2>3. rooms' \in [Rooms -> (SUBSET Subscribers) \cup {None}]
    BY <2>2 DEF SocketsInv, S!TypeOK
  <2>4. connections'[u] = <<>> =>
          \A x \in Rooms : S!Members(x)' \subseteq S!Members(x) \ {u}
    BY <2>2 DEF S!Members
  <2>5. /\ connections' \in [Subscribers -> Seq(Sockets)]
        /\ \A v \in Subscribers : Len(connections'[v]) <= MaxEntries
        /\ left' \subseteq Subscribers
        /\ S!ConnectionsSound'
    BY <1>2, <1>3, <2>1, <2>2, <2>3, <2>4, SocketsEntryGoes
  <2>6. S!TypeOK'
    BY <1>1, <1>2, <2>3, <2>5 DEF SocketsInv, S!TypeOK
  <2>7. send' = send /\ skipped' = skipped
    BY <1>1
  <2> HIDE DEF u
  <2> QED
    BY <2>5, <2>6, <2>7 DEF SocketsInv, Listed
<1> QED
  BY <1>4, <1>5

(* A message begins with the sockets that are listed, and owes itself to   *)
(* them.                                                                   *)
LEMMA SocketsStartSend ==
  ASSUME SocketsInv, NEW m \in Senders, NEW u \in Subscribers, S!StartSend(m, u)
  PROVE  SocketsInv'
<1> DEFINE q == [to |-> u, rest |-> connections[u], owed |-> S!Entries(u)]
<1>1. send' = [k \in Senders |-> IF k = m THEN q ELSE send[k]]
      /\ UNCHANGED <<connections, rooms, socket, left, skipped>>
  BY DEF S!StartSend, SocketsInv
<1>2. q.to \in Subscribers /\ q.rest \in Seq(Sockets) /\ q.owed \subseteq Sockets
      /\ q.owed = Listed(q.rest)
  BY DEF SocketsInv, S!Entries, Listed
<1> HIDE DEF q
<1>3. S!TypeOK' /\ S!ConnectionsSound'
  BY <1>1, <1>2 DEF SocketsInv, S!TypeOK, S!ConnectionsSound, S!Entries, S!Members
<1> QED
  BY <1>1, <1>2, <1>3 DEF SocketsInv, Listed

(* A message goes to the first socket before it, or fails there.           *)
LEMMA SocketsSendNext ==
  ASSUME SocketsInv, MaxEntries \in Nat, NEW m \in Senders, S!SendNext(m)
  PROVE  SocketsInv'
<1> DEFINE u == send[m].to
           s == Head(send[m].rest)
           q == [to |-> u, rest |-> Tail(send[m].rest), owed |-> send[m].owed \ {s}]
<1>1. u \in Subscribers /\ send[m].rest \in Seq(Sockets) /\ send[m].rest # <<>>
      /\ send[m].owed \subseteq Listed(send[m].rest) /\ send[m].owed \subseteq Sockets
  BY DEF S!SendNext, SocketsInv, S!TypeOK
<1>2. s \in Sockets /\ Tail(send[m].rest) \in Seq(Sockets)
      /\ Listed(send[m].rest) \ {s} \subseteq Listed(Tail(send[m].rest))
  <2>1. s \in Sockets /\ Tail(send[m].rest) \in Seq(Sockets)
        /\ Len(Tail(send[m].rest)) = Len(send[m].rest) - 1
        /\ \A i \in 1..Len(Tail(send[m].rest)) : Tail(send[m].rest)[i] = send[m].rest[i + 1]
    BY <1>1, HeadTailProperties
  <2>2. ASSUME NEW t \in Listed(send[m].rest), t # s
        PROVE  t \in Listed(Tail(send[m].rest))
    <3>1. PICK i \in 1..Len(send[m].rest) : send[m].rest[i] = t
      BY <1>1, <2>2 DEF Listed
    <3>2. i # 1
      BY <1>1, <2>2, <3>1
    <3>3. i - 1 \in 1..Len(Tail(send[m].rest)) /\ (i - 1) + 1 = i
      BY <1>1, <2>1, <3>1, <3>2
    <3>4. Tail(send[m].rest)[i - 1] = t
      BY <2>1, <3>1, <3>3
    <3>5. i - 1 \in DOMAIN Tail(send[m].rest)
      BY <2>1, <3>3
    <3> QED
      BY <3>4, <3>5 DEF Listed
  <2> QED
    BY <2>1, <2>2
<1>3. send' = [k \in Senders |-> IF k = m THEN q ELSE send[k]]
      /\ UNCHANGED <<socket, skipped>>
  BY DEF S!SendNext, S!Rest, SocketsInv
<1>4. q.to \in Subscribers /\ q.rest \in Seq(Sockets) /\ q.owed \subseteq Sockets
      /\ q.owed \subseteq Listed(q.rest)
  BY <1>1, <1>2
<1>5. IF socket[s].is = "open" THEN UNCHANGED <<connections, rooms, left>>
      ELSE S!RemoveConnection(s, u)
  BY DEF S!SendNext
<1> HIDE DEF q, s, u
<1>6. CASE UNCHANGED <<connections, rooms, left>>
  <2>1. S!TypeOK' /\ S!ConnectionsSound'
    BY <1>3, <1>4, <1>6 DEF SocketsInv, S!TypeOK, S!ConnectionsSound, S!Entries, S!Members
  <2> QED
    BY <1>3, <1>4, <1>6, <2>1 DEF SocketsInv, Listed
<1>7. CASE socket[s].is # "open" /\ connections[u] # <<>>
  <2>1. /\ connections' = [connections EXCEPT ![u] = S!Without(@, s)]
        /\ IF connections'[u] = <<>>
             THEN /\ rooms' = [x \in Rooms |-> S!RoomWithout(x, u)]
                  /\ left' = left \ {u}
             ELSE UNCHANGED <<rooms, left>>
    BY <1>5, <1>7 DEF S!RemoveConnection
  <2>2. rooms' \in [Rooms -> (SUBSET Subscribers) \cup {None}]
    <3>1. ASSUME NEW x \in Rooms PROVE S!RoomWithout(x, u) \in (SUBSET Subscribers) \cup {None}
      <4>1. rooms[x] = None => S!Members(x) = {}
        BY DEF S!Members
      <4>2. rooms[x] # None => rooms[x] \subseteq Subscribers
        BY DEF SocketsInv, S!TypeOK
      <4> QED
        BY <4>1, <4>2 DEF S!RoomWithout
    <3>2. rooms \in [Rooms -> (SUBSET Subscribers) \cup {None}]
      BY DEF SocketsInv, S!TypeOK
    <3> QED
      BY <2>1, <3>1, <3>2
  <2>3. connections'[u] = <<>> =>
          \A x \in Rooms : S!Members(x)' \subseteq S!Members(x) \ {u}
    BY <2>1 DEF S!Members, S!RoomWithout
  <2>4. socket' \in [Sockets -> S!Socket] /\ socket'[s].is # "open"
    BY <1>3, <1>7 DEF SocketsInv, S!TypeOK
  <2>5. /\ connections' \in [Subscribers -> Seq(Sockets)]
        /\ \A v \in Subscribers : Len(connections'[v]) <= MaxEntries
        /\ left' \subseteq Subscribers
        /\ S!ConnectionsSound'
    BY <1>1, <1>2, <1>3, <1>7, <2>1, <2>2, <2>3, <2>4, SocketsEntryGoes DEF s
  <2>6. S!TypeOK'
    BY <1>3, <1>4, <2>2, <2>4, <2>5 DEF SocketsInv, S!TypeOK
  <2> QED
    BY <1>3, <1>4, <2>5, <2>6 DEF SocketsInv, Listed
<1> QED
  BY <1>5, <1>6, <1>7 DEF S!RemoveConnection

(* A message that has no socket before it owes itself to none.             *)
LEMMA SocketsEndSend ==
  ASSUME SocketsInv, NEW m \in Senders, S!EndSend(m)
  PROVE  SocketsInv'
<1>1. send[m].owed = {}
  BY DEF S!EndSend, SocketsInv, Listed
<1>2. send' = [k \in Senders |-> IF k = m THEN S!Idle ELSE send[k]] /\ skipped' = skipped
      /\ UNCHANGED <<connections, rooms, socket, left>>
  BY <1>1 DEF S!EndSend, SocketsInv, S!TypeOK
<1>3. S!TypeOK' /\ S!ConnectionsSound'
  BY <1>2 DEF SocketsInv, S!TypeOK, S!ConnectionsSound, S!Entries, S!Members
<1> QED
  BY <1>2, <1>3 DEF SocketsInv, Listed

(* What is registered is right, and what is sent reaches all.              *)
LEMMA SocketsInvariance ==
  ASSUME MaxEntries \in Nat
  PROVE  S!Spec => [](S!TypeOK /\ S!ConnectionsSound /\ S!SendReachesAll)
<1>1. S!Init => SocketsInv
  <2> SUFFICES ASSUME S!Init PROVE SocketsInv
    OBVIOUS
  <2>1. S!TypeOK
    <3>1. Len(<<>>) <= MaxEntries /\ <<>> \in Seq(Sockets)
      OBVIOUS
    <3> QED
      BY <3>1 DEF S!Init, S!TypeOK, S!Socket
  <2>2. S!ConnectionsSound
    BY DEF S!Init, S!ConnectionsSound, S!Members
  <2> QED
    BY <2>1, <2>2 DEF S!Init, SocketsInv
<1>2. SocketsInv /\ [S!Next]_S!vars => SocketsInv'
  <2> SUFFICES ASSUME SocketsInv, [S!Next]_S!vars PROVE SocketsInv'
    OBVIOUS
  <2>1. CASE UNCHANGED S!vars
    BY <2>1 DEF S!vars, SocketsInv, S!TypeOK, S!ConnectionsSound, S!Entries, S!Members,
       Listed
  <2> QED
    BY <2>1, MaxEntries \in Nat, SocketsConnect, SocketsClose, SocketsRooms,
       SocketsDisconnect, SocketsStartSend, SocketsSendNext, SocketsEndSend DEF S!Next
<1>3. SocketsInv => S!TypeOK /\ S!ConnectionsSound /\ S!SendReachesAll
  BY DEF SocketsInv, S!SendReachesAll
<1> QED
  BY <1>1, <1>2, <1>3, PTL DEF S!Spec

-----------------------------------------------------------------------------
(***************************************************************************)
(* Side by side.  A step is one of a single component and leaves the       *)
(* variables of the others alone.                                          *)
(***************************************************************************)
LEMMA Alone == AllSpec => Spec /\ C!Spec /\ S!Spec
<1>1. AllInit => Init /\ C!Init /\ S!Init
  BY DEF AllInit
<1>2. [AllNext]_allVars => [Next]_vars
  BY DEF AllNext, allVars, vars
<1>3. [AllNext]_allVars => [C!Next]_C!vars
  BY DEF AllNext, allVars, callVars, C!vars
<1>4. [AllNext]_allVars => [S!Next]_S!vars
  BY DEF AllNext, allVars, socketVars, S!vars
<1> QED
  BY <1>1, <1>2, <1>3, <1>4, PTL DEF AllSpec, Spec, C!Spec, S!Spec

(* TypesOK: the variables of all components have their values.             *)
THEOREM TypeCorrect == AllSpec => []TypesOK
<1>1. ChatInv => TypeOK
  BY DEF ChatInv
<1>2. TypeOK /\ (C!TypeOK /\ C!CallsAreFinal)
        /\ (S!TypeOK /\ S!ConnectionsSound /\ S!SendReachesAll) => TypesOK
  BY DEF TypesOK
<1>3. C!Spec => [](C!TypeOK /\ C!CallsAreFinal)
  BY NoneAssumption, CallsInvariance
<1>4. S!Spec => [](S!TypeOK /\ S!ConnectionsSound /\ S!SendReachesAll)
  BY BoundAssumption, SocketsInvariance
<1> QED
  BY <1>1, <1>2, <1>3, <1>4, Alone, ChatInvariance, PTL

(* TalkStaysInOrder: what is said in an order is said, and heard, by its   *)
(* customer, the shop and drivers it had, whoever has it by then.          *)
THEOREM StaysInOrder == AllSpec => []TalkStaysInOrder
<1>1. ChatInv => TalkStaysInOrder
  BY DEF ChatInv, Sound, TalkStaysInOrder
<1> QED
  BY <1>1, Alone, ChatInvariance, PTL

(* CallsAreFinal: a call people were told they missed is never answered,   *)
(* one that is over stays as it ended, and the caller gave up only a call  *)
(* nobody had answered, unless two requests had it loaded at once.         *)
THEOREM CallsEndOnce == AllSpec => []CallsAreFinal
<1>1. C!Spec => [](C!TypeOK /\ C!CallsAreFinal)
  BY NoneAssumption, CallsInvariance
<1>2. C!TypeOK /\ C!CallsAreFinal => CallsAreFinal
  BY DEF CallsAreFinal
<1> QED
  BY <1>1, <1>2, Alone, PTL

(* ConnectionsSound: cleaning up one socket of a user leaves the others    *)
(* registered, and rooms have members who are connected.                   *)
THEOREM StaysConnected == AllSpec => []ConnectionsSound
<1>1. S!Spec => [](S!TypeOK /\ S!ConnectionsSound /\ S!SendReachesAll)
  BY BoundAssumption, SocketsInvariance
<1>2. S!TypeOK /\ S!ConnectionsSound /\ S!SendReachesAll => ConnectionsSound
  BY DEF ConnectionsSound
<1> QED
  BY <1>1, <1>2, Alone, PTL

(* SendReachesAll: sockets that fail before it make a message skip none    *)
(* that stays open.                                                        *)
THEOREM NoneSkipped == AllSpec => []SendReachesAll
<1>1. S!Spec => [](S!TypeOK /\ S!ConnectionsSound /\ S!SendReachesAll)
  BY BoundAssumption, SocketsInvariance
<1>2. S!TypeOK /\ S!ConnectionsSound /\ S!SendReachesAll => SendReachesAll
  BY DEF SendReachesAll
<1> QED
  BY <1>1, <1>2, Alone, PTL
=============================================================================
