--------------------------- MODULE Dispatch_proofs ---------------------------
(***************************************************************************)
(* Proofs about Dispatch, for every set of orders, drivers and handlers    *)
(* and every bound on assignments.                                         *)
(***************************************************************************)
EXTENDS Dispatch, TLAPS

(* What the kind of a handler says about the rest of its record.           *)
LEMMA RequestFields ==
  ASSUME TypeOK, NEW r \in Requests
  PROVE  /\ req[r].op \in {"status", "cancel", "release"} =>
              req[r].order \in Orders /\ req[r].from \in OrderStatus
         /\ req[r].op = "status" => req[r].to \in OrderStatus
         /\ req[r].op = "release" => req[r].driver \in Drivers
         /\ req[r].op = "manual" => /\ req[r].order \in Orders
                                    /\ req[r].driver \in Drivers
                                    /\ req[r].seen \in OrderSeen
         /\ req[r].op \in Answering => /\ req[r].row \in DOMAIN rows
                                       /\ req[r].driver \in Drivers
                                       /\ req[r].was = "PENDING"
         /\ req[r].op \in {"accepting", "expiring"} => req[r].seen \in OrderSeen
  BY DEF TypeOK, Request, Idle, Answering

-----------------------------------------------------------------------------
(* Lemmas about the list of assignments.                                   *)

(* What every step does to the list: it only gets longer, an assignment    *)
(* keeps its order and its driver, and an answered one stays answered.     *)
Grows(rs, rs2) ==
  /\ DOMAIN rs \subseteq DOMAIN rs2
  /\ \A a \in DOMAIN rs :
       /\ rs2[a].order = rs[a].order
       /\ rs2[a].driver = rs[a].driver
       /\ rs[a].status \in Answers => rs2[a].status \in Answers

(* Setting a status keeps the list a list of the same length.              *)
LEMMA MarkedType ==
  ASSUME rows \in Seq(Assignment), NEW S, NEW st \in Answers
  PROVE  /\ Marked(S, st) \in Seq(Assignment)
         /\ Len(Marked(S, st)) = Len(rows)
<1>1. DOMAIN rows = 1..Len(rows) /\ Len(rows) \in Nat
  OBVIOUS
<1>2. ASSUME NEW a \in DOMAIN rows
      PROVE  (IF a \in S THEN [rows[a] EXCEPT !.status = st] ELSE rows[a]) \in Assignment
  <2>1. rows[a] \in Assignment
    OBVIOUS
  <2>2. [rows[a] EXCEPT !.status = st] \in Assignment
    BY <2>1 DEF Assignment
  <2> QED
    BY <2>1, <2>2
<1> QED
  BY <1>1, <1>2 DEF Marked

(* It keeps orders and drivers, and answers what it touches.               *)
LEMMA MarkedGrows ==
  ASSUME rows \in Seq(Assignment), NEW S, NEW st \in Answers
  PROVE  Grows(rows, Marked(S, st))
  BY DEF Grows, Marked, Assignment

(* Appending an assignment keeps the list.                                 *)
LEMMA AppendGrows ==
  ASSUME NEW rs \in Seq(Assignment), NEW x \in Assignment
  PROVE  /\ Append(rs, x) \in Seq(Assignment)
         /\ Len(Append(rs, x)) = Len(rs) + 1
         /\ Grows(rs, Append(rs, x))
         /\ Append(rs, x)[Len(rs) + 1] = x
  BY DEF Grows

(* A dispatch makes the list at most one longer.                           *)
LEMMA OffersType ==
  ASSUME NEW rs \in Seq(Assignment), NEW o \in Orders, NEW ds,
         NEW rs2 \in Offers(o, rs, ds)
  PROVE  /\ rs2 \in Seq(Assignment)
         /\ Len(rs2) \in Len(rs)..(Len(rs) + 1)
         /\ Grows(rs, rs2)
<1>1. Len(rs) \in Nat /\ Grows(rs, rs)
  BY DEF Grows
<1>2. \A d \in Drivers : [order |-> o, driver |-> d, status |-> "PENDING"] \in Assignment
  BY DEF Assignment
<1>3. CASE rs2 = rs
  BY <1>1, <1>3
<1>4. ASSUME NEW d \in Drivers,
             rs2 = Append(rs, [order |-> o, driver |-> d, status |-> "PENDING"])
      PROVE  rs2 \in Seq(Assignment) /\ Len(rs2) = Len(rs) + 1 /\ Grows(rs, rs2)
  BY <1>2, <1>4, AppendGrows
<1>5. rs2 = rs \/ \E d \in Drivers :
        rs2 = Append(rs, [order |-> o, driver |-> d, status |-> "PENDING"])
  BY DEF Offers, OnLine
<1>6. CASE rs2 # rs
  <2>1. PICK d \in Drivers :
          rs2 = Append(rs, [order |-> o, driver |-> d, status |-> "PENDING"])
    BY <1>5, <1>6
  <2>2. Len(rs2) = Len(rs) + 1 /\ rs2 \in Seq(Assignment) /\ Grows(rs, rs2)
    BY <2>1, <1>4
  <2> QED
    BY <1>1, <2>2
<1> QED
  BY <1>3, <1>6

(* Growing twice is growing.                                               *)
LEMMA GrowsTwice ==
  ASSUME NEW r1, NEW r2, NEW r3, Grows(r1, r2), Grows(r2, r3)
  PROVE  Grows(r1, r3)
  BY DEF Grows

(* Who answered for an order in a list has answered in a grown one.        *)
LEMMA GrowsAsked ==
  ASSUME NEW r1, NEW r2, Grows(r1, r2), NEW o
  PROVE  Asked(o, r1) \subseteq Asked(o, r2)
  BY DEF Grows, Asked

-----------------------------------------------------------------------------
(* Every step keeps the list of assignments a list within its bound, and   *)
(* makes it grow.                                                          *)
GoodRows ==
  rows' \in Seq(Assignment) /\ Len(rows') \in Len(rows)..MaxRows /\ Grows(rows, rows')

(* A step that leaves the list alone.                                      *)
LEMMA SameRows ==
  ASSUME TypeOK, rows' = rows
  PROVE  GoodRows
  BY BoundsAssumption DEF GoodRows, TypeOK, Grows

(* A step that answers some assignments and makes none.                    *)
LEMMA MarkedRows ==
  ASSUME TypeOK, NEW S, NEW st \in Answers, rows' = Marked(S, st)
  PROVE  GoodRows
<1>1. rows \in Seq(Assignment) /\ Len(rows) \in Nat /\ Len(rows) <= MaxRows
  BY DEF TypeOK
<1>2. rows' \in Seq(Assignment) /\ Len(rows') = Len(rows)
  BY <1>1, MarkedType
<1>3. Grows(rows, rows')
  BY <1>1, MarkedGrows
<1> QED
  BY <1>1, <1>2, <1>3, BoundsAssumption DEF GoodRows

(* A step that answers some assignments, or none, and then dispatches.     *)
LEMMA OfferedRows ==
  ASSUME TypeOK, HasRoom, NEW rs \in Seq(Assignment), Len(rs) = Len(rows),
         Grows(rows, rs), NEW o \in Orders, NEW ds, rows' \in Offers(o, rs, ds)
  PROVE  GoodRows
<1>1. Len(rows) \in Nat
  BY DEF TypeOK
<1>2. /\ rows' \in Seq(Assignment)
      /\ Len(rows') \in Len(rs)..(Len(rs) + 1)
      /\ Grows(rs, rows')
  BY OffersType
<1>3. Grows(rows, rows')
  BY <1>2, GrowsTwice
<1> QED
  BY <1>1, <1>2, <1>3, BoundsAssumption DEF GoodRows, HasRoom

(* Every step of the module.                                               *)
LEMMA NextRows == TypeOK /\ [Next]_vars => GoodRows
<1> SUFFICES ASSUME TypeOK, [Next]_vars PROVE GoodRows
  OBVIOUS
<1>0. rows \in Seq(Assignment) /\ \A a \in DOMAIN rows : rows[a].order \in Orders
  <2>1. rows \in Seq(Assignment)
    BY DEF TypeOK
  <2>2. \A a \in DOMAIN rows : rows[a] \in Assignment
    BY <2>1
  <2> QED
    BY <2>1, <2>2 DEF Assignment
<1>1. ASSUME NEW r \in Requests, Read(r) \/ Rollback(r)
      PROVE  GoodRows
  BY <1>1, SameRows DEF Read, ReadForStatus, ReadForCancel, ReadForRelease,
     BeginManual, ReadForAnswer, Rollback, stored
<1>2. ASSUME NEW r \in Requests, CommitStatus(r) \/ CommitCancel(r) \/ CommitRelease(r)
      PROVE  GoodRows
  BY <1>2, MarkedRows DEF CommitStatus, CommitCancel, CommitRelease, GivenBack, Answers
<1>3. ASSUME NEW r \in Requests, CommitManual(r)
      PROVE  GoodRows
  <2>1. HandAssigned(req[r].order, req[r].driver) \in Assignment
    BY <1>3, RequestFields DEF CommitManual, HandAssigned, Assignment, Answers
  <2>2. Len(rows) \in Nat
    BY <1>0
  <2> QED
    BY <1>0, <1>3, <2>1, <2>2, AppendGrows, BoundsAssumption
       DEF CommitManual, GoodRows, HasRoom
<1>4. ASSUME NEW r \in Requests, WriteRow(r)
      PROVE  GoodRows
  BY <1>4, SameRows DEF WriteRow, stored
<1>5. ASSUME NEW r \in Requests, CommitAccept(r)
      PROVE  GoodRows
  BY <1>5, MarkedRows DEF CommitAccept, Answers
<1>6. ASSUME NEW r \in Requests, CommitReject(r)
      PROVE  GoodRows
  <2> DEFINE a == req[r].row
  <2>1. a \in DOMAIN rows
    BY <1>6, RequestFields DEF CommitReject, Answering
  <2>2. /\ Marked({a}, "REJECTED") \in Seq(Assignment)
        /\ Len(Marked({a}, "REJECTED")) = Len(rows)
        /\ Grows(rows, Marked({a}, "REJECTED"))
    BY <1>0, MarkedType, MarkedGrows DEF Answers
  <2>3. HasRoom /\ rows' \in Offers(rows[a].order, Marked({a}, "REJECTED"), driverStatus')
    BY <1>6 DEF CommitReject
  <2> QED
    BY <1>0, <2>1, <2>2, <2>3, OfferedRows
<1>7. ASSUME NEW r \in Requests, CommitExpire(r)
      PROVE  GoodRows
  <2> DEFINE a == req[r].row
  <2>1. a \in DOMAIN rows
    BY <1>7, RequestFields DEF CommitExpire, Answering
  <2>2. /\ Marked({a}, "EXPIRED") \in Seq(Assignment)
        /\ Len(Marked({a}, "EXPIRED")) = Len(rows)
        /\ Grows(rows, Marked({a}, "EXPIRED"))
    BY <1>0, MarkedType, MarkedGrows DEF Answers
  <2>3. CASE rows' = Marked({a}, "EXPIRED")
    BY <2>3, MarkedRows DEF Answers
  <2>4. CASE rows' \in Offers(rows[a].order, Marked({a}, "EXPIRED"), driverStatus')
    BY <1>0, <1>7, <2>1, <2>2, <2>4, OfferedRows DEF CommitExpire
  <2> QED
    BY <1>7, <2>3, <2>4 DEF CommitExpire
<1>8. ASSUME NEW o \in Orders, RunTask(o) \/ AdminDispatch(o)
      PROVE  GoodRows
  <2>1. Grows(rows, rows)
    BY DEF Grows
  <2> QED
    BY <1>0, <1>8, <2>1, OfferedRows DEF RunTask, AdminDispatch
<1>9. CASE \/ \E r \in Requests, a \in timers : TimerFires(r, a)
           \/ \E d \in Drivers, s \in DriverStatus : SetStatus(d, s)
           \/ Restart
           \/ UNCHANGED vars
  BY <1>9, SameRows DEF TimerFires, SetStatus, Restart, vars, stored
<1> QED
  BY <1>1, <1>2, <1>3, <1>4, <1>5, <1>6, <1>7, <1>8, <1>9 DEF Next, Commit

-----------------------------------------------------------------------------
(* Type correctness.                                                       *)

(* The part of TypeOK about handlers in flight.                            *)
ReqOK ==
  /\ req \in [Requests -> Request]
  /\ \A r \in Requests : req[r].op \in Answering => req[r].row \in DOMAIN rows

(* One handler moves on, to a record that names an assignment there is.    *)
LEMMA ReqStep ==
  ASSUME TypeOK, GoodRows, NEW r \in Requests, NEW q \in Request,
         q.op \in Answering => q.row \in DOMAIN rows,
         req' = [req EXCEPT ![r] = q]
  PROVE  ReqOK'
<1>1. req \in [Requests -> Request] /\ DOMAIN rows \subseteq DOMAIN rows'
  BY DEF TypeOK, GoodRows, Grows
<1>2. \A s \in Requests : req[s].op \in Answering => req[s].row \in DOMAIN rows
  BY DEF TypeOK, Answering
<1>3. req' \in [Requests -> Request]
  BY <1>1
<1>4. ASSUME NEW s \in Requests, req'[s].op \in Answering
      PROVE  req'[s].row \in DOMAIN rows'
  <2>1. CASE s = r
    BY <1>1, <1>4, <2>1
  <2>2. CASE s # r
    BY <1>1, <1>2, <1>4, <2>2
  <2> QED
    BY <2>1, <2>2
<1> QED
  BY <1>3, <1>4 DEF ReqOK

(* A handler that ends.                                                    *)
LEMMA ReqEnds ==
  ASSUME TypeOK, GoodRows, NEW r \in Requests, Ends(r)
  PROVE  ReqOK'
<1>1. Idle \in Request /\ Idle.op \notin Answering
  BY DEF Request, Idle, Answering
<1> QED
  BY <1>1, ReqStep DEF Ends

(* No handler moves.                                                       *)
LEMMA ReqSame ==
  ASSUME TypeOK, GoodRows, req' = req
  PROVE  ReqOK'
  BY DEF TypeOK, GoodRows, Grows, ReqOK, Answering

(* A timer is of an assignment there is.                                   *)
LEMMA TimersKept ==
  ASSUME TypeOK, GoodRows, timers' \subseteq timers \/ Watched
  PROVE  timers' \subseteq DOMAIN rows'
  BY DEF TypeOK, GoodRows, Grows, Watched

(* What the tables of orders and drivers hold.                             *)
TablesOK ==
  /\ orderStatus \in [Orders -> OrderStatus]
  /\ orderDriver \in [Orders -> Drivers \cup {None}]
  /\ driverStatus \in [Drivers -> DriverStatus]

(* TypeOK after a step follows from its parts.                             *)
LEMMA TypeFromParts ==
  ASSUME GoodRows, TablesOK', ReqOK', timers' \subseteq DOMAIN rows',
         tasks' \subseteq Orders
  PROVE  TypeOK'
<1>1. rows' \in Seq(Assignment) /\ Len(rows') <= MaxRows
  BY BoundsAssumption DEF GoodRows
<1> QED
  BY <1>1 DEF TypeOK, TablesOK, ReqOK, Answering

(* Giving an order to a driver keeps the tables.                           *)
LEMMA GivesType ==
  ASSUME TablesOK, NEW o \in Orders, NEW d \in Drivers, NEW seen, GivesOrder(o, d, seen)
  PROVE  TablesOK'
  BY DEF TablesOK, GivesOrder, DriverStatus, OrderStatus

(* A handler that starts.                                                  *)
LEMMA ReadType ==
  ASSUME TypeOK, GoodRows, TablesOK, NEW r \in Requests, Read(r)
  PROVE  ReqOK'
<1>1. ASSUME NEW o \in Orders, NEW role, NEW to \in OrderStatus, ReadForStatus(r, o, to, role)
      PROVE  ReqOK'
  <2> DEFINE q == [op |-> "status", order |-> o, from |-> orderStatus[o], to |-> to]
  <2>1. q \in Request /\ q.op \notin Answering
    BY DEF Request, Answering, TablesOK
  <2> QED
    BY <1>1, <2>1, ReqStep DEF ReadForStatus, Starts
<1>2. ASSUME NEW o \in Orders, NEW role, ReadForCancel(r, o, role)
      PROVE  ReqOK'
  <2> DEFINE q == [op |-> "cancel", order |-> o, from |-> orderStatus[o]]
  <2>1. q \in Request /\ q.op \notin Answering
    BY DEF Request, Answering, TablesOK
  <2> QED
    BY <1>2, <2>1, ReqStep DEF ReadForCancel, Starts
<1>3. ASSUME NEW o \in Orders, ReadForRelease(r, o)
      PROVE  ReqOK'
  <2> DEFINE q == [op |-> "release", order |-> o, from |-> orderStatus[o],
                   driver |-> orderDriver[o]]
  <2>1. orderDriver[o] \in Drivers
    BY <1>3 DEF ReadForRelease, TablesOK
  <2>2. q \in Request /\ q.op \notin Answering
    BY <2>1 DEF Request, Answering, TablesOK
  <2> QED
    BY <1>3, <2>2, ReqStep DEF ReadForRelease, Starts
<1>4. ASSUME NEW o \in Orders, NEW d \in Drivers, BeginManual(r, o, d)
      PROVE  ReqOK'
  <2> DEFINE q == [op |-> "manual", order |-> o, driver |-> d, seen |-> Seen(o)]
  <2>1. Seen(o) \in OrderSeen
    BY DEF Seen, OrderSeen, TablesOK
  <2>2. q \in Request /\ q.op \notin Answering
    BY <2>1 DEF Request, Answering
  <2> QED
    BY <1>4, <2>2, ReqStep DEF BeginManual, Starts
<1>5. ASSUME NEW a \in DOMAIN rows, NEW d \in Drivers, NEW answer \in {"accept", "reject"},
             ReadForAnswer(r, a, d, answer)
      PROVE  ReqOK'
  <2> DEFINE q == [op |-> answer, row |-> a, driver |-> d, was |-> rows[a].status]
  <2>1. a \in 1..MaxRows /\ rows[a].status = "PENDING"
    BY <1>5, BoundsAssumption DEF TypeOK, ReadForAnswer, Open
  <2>2. q \in Request /\ q.row \in DOMAIN rows
    BY <2>1 DEF Request
  <2> QED
    BY <1>5, <2>2, ReqStep DEF ReadForAnswer, Starts
<1> QED
  BY <1>1, <1>2, <1>3, <1>4, <1>5 DEF Read

(* A timer that fires starts a handler, or nothing.                        *)
LEMMA FiresType ==
  ASSUME TypeOK, GoodRows, NEW r \in Requests, NEW a \in timers, TimerFires(r, a)
  PROVE  ReqOK'
<1> DEFINE q == [op |-> "expire", row |-> a, driver |-> rows[a].driver, was |-> rows[a].status]
<1>1. a \in DOMAIN rows /\ a \in 1..MaxRows /\ rows[a] \in Assignment
  BY BoundsAssumption DEF TypeOK
<1>2. CASE Open(a)
  <2>1. q \in Request /\ q.row \in DOMAIN rows
    BY <1>1, <1>2 DEF Request, Assignment, Open
  <2> QED
    BY <1>2, <2>1, ReqStep DEF TimerFires
<1>3. CASE ~Open(a)
  BY <1>3, ReqSame DEF TimerFires
<1> QED
  BY <1>2, <1>3

(* A handler that has written its assignment and reads the order.          *)
LEMMA WriteType ==
  ASSUME TypeOK, GoodRows, TablesOK, NEW r \in Requests, WriteRow(r)
  PROVE  ReqOK'
<1> DEFINE a == req[r].row
           d == req[r].driver
           op == IF req[r].op = "accept" THEN "accepting" ELSE "expiring"
           seen == Seen(rows[a].order)
           q == [op |-> op, row |-> a, driver |-> d, was |-> req[r].was, seen |-> seen]
<1>1. a \in DOMAIN rows /\ d \in Drivers /\ req[r].was = "PENDING"
  BY RequestFields DEF WriteRow, Answering
<1>2. a \in 1..MaxRows /\ rows[a] \in Assignment
  BY <1>1, BoundsAssumption DEF TypeOK
<1>3. seen \in OrderSeen
  BY <1>2 DEF Seen, OrderSeen, TablesOK, Assignment
<1>4. op \in {"accepting", "expiring"}
  OBVIOUS
<1>5. req' = [req EXCEPT ![r] = q]
  BY DEF WriteRow
<1> HIDE DEF op, a, d, seen
<1>6. q \in Request /\ q.row \in DOMAIN rows
  BY <1>1, <1>2, <1>3, <1>4 DEF Request
<1> QED
  BY <1>5, <1>6, ReqStep

(* Every step keeps the types.                                             *)
LEMMA NextType == TypeOK /\ [Next]_vars => TypeOK'
<1> SUFFICES ASSUME TypeOK, [Next]_vars PROVE TypeOK'
  OBVIOUS
<1>0. /\ GoodRows /\ TablesOK
      /\ tasks \subseteq Orders
      /\ \A a \in DOMAIN rows : rows[a].order \in Orders /\ rows[a].driver \in Drivers
  <2>1. rows \in Seq(Assignment)
    BY DEF TypeOK
  <2>2. \A a \in DOMAIN rows : rows[a] \in Assignment
    BY <2>1
  <2> QED
    BY <2>2, NextRows DEF TypeOK, TablesOK, Assignment
<1>1. ASSUME NEW r \in Requests, Read(r)
      PROVE  TypeOK'
  <2>1. UNCHANGED <<stored, timers, tasks>>
    BY <1>1 DEF Read, ReadForStatus, ReadForCancel, ReadForRelease, BeginManual,
       ReadForAnswer
  <2> QED
    BY <1>0, <1>1, <2>1, ReadType, TimersKept, TypeFromParts DEF TablesOK, stored
<1>2. ASSUME NEW r \in Requests, CommitStatus(r)
      PROVE  TypeOK'
  <2>1. req[r].order \in Orders /\ req[r].to \in OrderStatus
    BY <1>2, RequestFields DEF CommitStatus
  <2>2. TablesOK' /\ tasks' \subseteq Orders
    BY <1>0, <1>2, <2>1 DEF CommitStatus, TablesOK, DriverStatus
  <2> QED
    BY <1>0, <1>2, <2>2, ReqEnds, TimersKept, TypeFromParts DEF CommitStatus
<1>3. ASSUME NEW r \in Requests, CommitCancel(r)
      PROVE  TypeOK'
  <2>1. req[r].order \in Orders
    BY <1>3, RequestFields DEF CommitCancel
  <2>2. TablesOK'
    BY <1>0, <1>3, <2>1 DEF CommitCancel, TablesOK, DriverStatus, OrderStatus
  <2> QED
    BY <1>0, <1>3, <2>2, ReqEnds, TimersKept, TypeFromParts DEF CommitCancel
<1>4. ASSUME NEW r \in Requests, CommitRelease(r)
      PROVE  TypeOK'
  <2>1. req[r].order \in Orders /\ req[r].driver \in Drivers
    BY <1>4, RequestFields DEF CommitRelease
  <2>2. TablesOK' /\ tasks' \subseteq Orders
    BY <1>0, <1>4, <2>1 DEF CommitRelease, TablesOK, DriverStatus, OrderStatus
  <2> QED
    BY <1>0, <1>4, <2>2, ReqEnds, TimersKept, TypeFromParts DEF CommitRelease
<1>5. ASSUME NEW r \in Requests, CommitManual(r)
      PROVE  TypeOK'
  <2>1. req[r].order \in Orders /\ req[r].driver \in Drivers
    BY <1>5, RequestFields DEF CommitManual
  <2>2. TablesOK'
    BY <1>0, <1>5, <2>1, GivesType DEF CommitManual
  <2> QED
    BY <1>0, <1>5, <2>2, ReqEnds, TimersKept, TypeFromParts DEF CommitManual
<1>6. ASSUME NEW r \in Requests, WriteRow(r)
      PROVE  TypeOK'
  BY <1>0, <1>6, WriteType, TimersKept, TypeFromParts DEF WriteRow, TablesOK, stored
<1>7. ASSUME NEW r \in Requests, CommitAccept(r)
      PROVE  TypeOK'
  <2>1. req[r].row \in DOMAIN rows /\ req[r].driver \in Drivers
    BY <1>7, RequestFields DEF CommitAccept, Answering
  <2>2. TablesOK'
    BY <1>0, <1>7, <2>1, GivesType DEF CommitAccept
  <2> QED
    BY <1>0, <1>7, <2>2, ReqEnds, TimersKept, TypeFromParts DEF CommitAccept
<1>8. ASSUME NEW r \in Requests, CommitReject(r) \/ CommitExpire(r)
      PROVE  TypeOK'
  <2>1. TablesOK'
    BY <1>0, <1>8, RequestFields
       DEF CommitReject, CommitExpire, TablesOK, DriverStatus, Answering
  <2> QED
    BY <1>0, <1>8, <2>1, ReqEnds, TimersKept, TypeFromParts DEF CommitReject, CommitExpire
<1>9. ASSUME NEW r \in Requests, Rollback(r)
      PROVE  TypeOK'
  <2>1. tasks' \subseteq Orders
    BY <1>0, <1>9, RequestFields DEF Rollback
  <2> QED
    BY <1>0, <1>9, <2>1, ReqEnds, TimersKept, TypeFromParts DEF Rollback, TablesOK, stored
<1>10. ASSUME NEW r \in Requests, NEW a \in timers, TimerFires(r, a)
       PROVE  TypeOK'
  BY <1>0, <1>10, FiresType, TimersKept, TypeFromParts DEF TimerFires, TablesOK, stored
<1>11. ASSUME NEW o \in Orders, RunTask(o) \/ AdminDispatch(o)
       PROVE  TypeOK'
  BY <1>0, <1>11, ReqSame, TimersKept, TypeFromParts DEF RunTask, AdminDispatch, TablesOK
<1>12. ASSUME NEW d \in Drivers, NEW s \in DriverStatus, SetStatus(d, s)
       PROVE  TypeOK'
  BY <1>0, <1>12, ReqSame, TimersKept, TypeFromParts DEF SetStatus, TablesOK
<1>13. CASE Restart
  <2>1. ReqOK'
    BY <1>13 DEF Restart, ReqOK, Request, Idle, Answering
  <2> QED
    BY <1>0, <1>13, <2>1, TimersKept, TypeFromParts DEF Restart, TablesOK, stored
<1>14. CASE UNCHANGED vars
  BY <1>0, <1>14, ReqSame, TimersKept, TypeFromParts DEF vars, TablesOK
<1> QED
  BY <1>1, <1>2, <1>3, <1>4, <1>5, <1>6, <1>7, <1>8, <1>9, <1>10, <1>11, <1>12,
     <1>13, <1>14 DEF Next, Commit

(* The first state is well typed.                                          *)
LEMMA InitType == Init => TypeOK
<1> SUFFICES ASSUME Init PROVE TypeOK
  OBVIOUS
<1>1. rows = <<>> /\ rows \in Seq(Assignment) /\ Len(rows) = 0 /\ DOMAIN rows = {}
  BY DEF Init
<1>2. Idle \in Request /\ Idle.op \notin Answering
  BY DEF Request, Idle, Answering
<1>3. FirstStatus \in OrderStatus /\ "ONLINE" \in DriverStatus
  BY FirstStatusAssumption DEF OrderStatus, DriverStatus
<1> QED
  BY <1>1, <1>2, <1>3, BoundsAssumption DEF Init, TypeOK

(* Every state reached is well typed: handlers and timers name assignments *)
(* that exist, however they overlap and whatever a restart loses.          *)
THEOREM TypeCorrect == Spec => []TypeOK
  BY InitType, NextType, PTL DEF Spec

-----------------------------------------------------------------------------
(* A driver who answered for an order stays one who did: no step drops an  *)
(* assignment, moves it to another order or driver, or opens it again.     *)
THEOREM AskedNeverShrinks == Spec => AskedGrows
<1>1. TypeOK /\ [Next]_vars => [\A o \in Orders : Asked(o, rows) \subseteq Asked(o, rows')]_vars
  BY NextRows, GrowsAsked DEF GoodRows
<1> QED
  BY <1>1, TypeCorrect, PTL DEF Spec, AskedGrows

-----------------------------------------------------------------------------
(* An order that has a driver has an answered assignment.                  *)
HasAnswer(o, rs) == \E a \in DOMAIN rs : rs[a].order = o /\ rs[a].status \in Answers

(* The same as an operator of the list of assignments.                     *)
LEMMA AnswersOf ==
  ASSUME rows \in Seq(Assignment), NEW o
  PROVE  RowsOf(o, Answers, Drivers) # {} <=> HasAnswer(o, rows)
<1>1. \A a \in DOMAIN rows : rows[a] \in Assignment
  OBVIOUS
<1>2. \A a \in DOMAIN rows : rows[a].driver \in Drivers
  BY <1>1 DEF Assignment
<1> QED
  BY <1>2 DEF RowsOf, HasAnswer

(* It is kept as the list grows.                                           *)
LEMMA AnswerKept ==
  ASSUME NEW r1, NEW r2, Grows(r1, r2), NEW o, HasAnswer(o, r1)
  PROVE  HasAnswer(o, r2)
  BY DEF Grows, HasAnswer

(* DriverByAnswer in these words.                                          *)
Backed == \A o \in Orders : orderDriver[o] # None => HasAnswer(o, rows)

(* Giving an order to a driver in a step that answers for it.              *)
LEMMA GivesBacked ==
  ASSUME TypeOK, GoodRows, Backed, NEW o \in Orders, NEW d, NEW seen,
         GivesOrder(o, d, seen), HasAnswer(o, rows')
  PROVE  Backed'
<1> SUFFICES ASSUME NEW x \in Orders, orderDriver'[x] # None
             PROVE  HasAnswer(x, rows')
  BY DEF Backed
<1>1. CASE x = o
  BY <1>1
<1>2. CASE x # o
  <2>1. orderDriver'[x] = orderDriver[x]
    BY <1>2 DEF GivesOrder, TypeOK
  <2> QED
    BY <2>1, AnswerKept DEF Backed, GoodRows
<1> QED
  BY <1>1, <1>2

(* Every step.                                                             *)
LEMMA NextBacked == TypeOK /\ Backed /\ [Next]_vars => Backed'
<1> SUFFICES ASSUME TypeOK, Backed, [Next]_vars PROVE Backed'
  OBVIOUS
<1>0. GoodRows /\ rows \in Seq(Assignment)
  BY NextRows DEF TypeOK
<1>1. CASE orderDriver' = orderDriver
  BY <1>0, <1>1, AnswerKept DEF Backed, GoodRows
<1>2. ASSUME NEW r \in Requests, CommitRelease(r)
      PROVE  Backed'
  <2>1. \A x \in Orders : orderDriver'[x] # None => orderDriver[x] # None
    BY <1>2 DEF CommitRelease, TypeOK
  <2> QED
    BY <1>0, <2>1, AnswerKept DEF Backed, GoodRows
<1>3. ASSUME NEW r \in Requests, CommitManual(r)
      PROVE  Backed'
  <2> DEFINE o == req[r].order
             d == req[r].driver
  <2>1. o \in Orders /\ d \in Drivers
    BY <1>3, RequestFields DEF CommitManual
  <2>2. rows' = Append(rows, HandAssigned(o, d))
    BY <1>3 DEF CommitManual
  <2>3. Len(rows) + 1 \in DOMAIN rows' /\ rows'[Len(rows) + 1] = HandAssigned(o, d)
    BY <1>0, <2>2
  <2>4. HasAnswer(o, rows')
    BY <2>3 DEF HasAnswer, HandAssigned, Answers
  <2> QED
    BY <1>0, <1>3, <2>1, <2>4, GivesBacked DEF CommitManual
<1>4. ASSUME NEW r \in Requests, CommitAccept(r)
      PROVE  Backed'
  <2> DEFINE a == req[r].row
             o == rows[a].order
  <2>1. a \in DOMAIN rows
    BY <1>4, RequestFields DEF CommitAccept, Answering
  <2>2. rows[a] \in Assignment
    BY <1>0, <2>1
  <2>3. a \in DOMAIN rows' /\ rows'[a] = [rows[a] EXCEPT !.status = "ACCEPTED"]
    BY <1>4, <2>1 DEF CommitAccept, Marked
  <2>4. o \in Orders /\ rows'[a].order = o /\ rows'[a].status \in Answers
    BY <2>2, <2>3 DEF Assignment, Answers
  <2>5. HasAnswer(o, rows')
    BY <2>3, <2>4 DEF HasAnswer
  <2> QED
    BY <1>0, <1>4, <2>4, <2>5, GivesBacked DEF CommitAccept
<1>5. ASSUME NEW r \in Requests, Commit(r)
      PROVE  Backed'
  BY <1>1, <1>2, <1>3, <1>4, <1>5 DEF Commit, CommitStatus, CommitCancel, WriteRow,
     CommitReject, CommitExpire, stored
<1>6. ASSUME NEW r \in Requests, Read(r) \/ Rollback(r) \/ \E a \in timers : TimerFires(r, a)
      PROVE  Backed'
  BY <1>1, <1>6 DEF Read, ReadForStatus, ReadForCancel, ReadForRelease, BeginManual,
     ReadForAnswer, Rollback, TimerFires, stored
<1>7. CASE \/ \E o \in Orders : RunTask(o) \/ AdminDispatch(o)
           \/ \E d \in Drivers, s \in DriverStatus : SetStatus(d, s)
           \/ Restart
           \/ UNCHANGED vars
  BY <1>1, <1>7 DEF RunTask, AdminDispatch, SetStatus, Restart, vars, stored
<1> QED
  BY <1>5, <1>6, <1>7 DEF Next

(* DriverByAnswer: however answers, timers and withdrawals overlap, and    *)
(* whoever answers, an order that has a driver has an assignment somebody  *)
(* answered, or that was made by hand.                                     *)
THEOREM DriversAnswered == Spec => []DriverByAnswer
<1>1. Init => Backed
  BY DEF Init, Backed
<1>2. TypeOK /\ Backed => DriverByAnswer
  BY AnswersOf DEF TypeOK, Backed, DriverByAnswer
<1> QED
  BY <1>1, <1>2, NextBacked, TypeCorrect, PTL DEF Spec

-----------------------------------------------------------------------------
(* What a step may do to the answer of an assignment: an answer is         *)
(* overwritten by a handler that had read the assignment open.             *)
Late(a) ==
  \E r \in Requests : /\ req[r].op \in Answering /\ req[r].row = a
                      /\ req[r].was = "PENDING" /\ req'[r] = Idle

Answered(a) ==
  rows'[a].status # rows[a].status =>
    \/ rows[a].status = "PENDING"
    \/ rows[a].status = "ACCEPTED" /\ rows'[a].status = "CANCELLED"
    \/ Late(a)

(* A dispatch leaves the assignments there are as they are.                *)
LEMMA OffersKeep ==
  ASSUME NEW rs \in Seq(Assignment), NEW o, NEW ds, NEW rs2 \in Offers(o, rs, ds),
         NEW a \in DOMAIN rs
  PROVE  rs2[a] = rs[a]
<1>1. rs2 = rs \/ \E x : rs2 = Append(rs, x)
  BY DEF Offers
<1>2. \A x : Append(rs, x)[a] = rs[a]
  OBVIOUS
<1> QED
  BY <1>1, <1>2

(* A handler that ends touching no assignment but the one it works on.     *)
LEMMA OwnAnswer ==
  ASSUME TypeOK, NEW r \in Requests, req[r].op \in Answering, Ends(r),
         NEW a \in DOMAIN rows, a # req[r].row => rows'[a] = rows[a]
  PROVE  Answered(a)
<1>1. req[r].was = "PENDING" /\ req'[r] = Idle
  BY RequestFields DEF Ends, TypeOK
<1> QED
  BY <1>1 DEF Answered, Late

(* Every step.                                                             *)
LEMMA NextAnswer ==
  ASSUME TypeOK, [Next]_vars, NEW a \in DOMAIN rows
  PROVE  Answered(a)
<1>0. rows \in Seq(Assignment) /\ rows[a] \in Assignment
  BY DEF TypeOK
<1>1. CASE rows'[a] = rows[a]
  BY <1>1 DEF Answered
<1>2. ASSUME NEW r \in Requests, CommitStatus(r) \/ CommitCancel(r) PROVE Answered(a)
  BY <1>2 DEF CommitStatus, CommitCancel, Marked, RowsOf, Answered
<1>3. ASSUME NEW r \in Requests, CommitRelease(r) PROVE Answered(a)
  <2> DEFINE given == RowsOf(req[r].order, {"PENDING", "ACCEPTED"}, {req[r].driver})
  <2>1. rows' = Marked(given, "CANCELLED")
    BY <1>3 DEF CommitRelease, GivenBack
  <2>2. CASE a \in given
    BY <1>0, <2>1, <2>2 DEF Marked, Assignment, RowsOf, Answered
  <2>3. CASE a \notin given
    BY <1>1, <2>1, <2>3 DEF Marked
  <2> QED
    BY <2>2, <2>3
<1>4. ASSUME NEW r \in Requests, CommitManual(r) PROVE Answered(a)
  BY <1>0, <1>1, <1>4 DEF CommitManual
<1>5. ASSUME NEW x, a # x, NEW st PROVE Marked({x}, st)[a] = rows[a]
  BY <1>5 DEF Marked
<1>6. ASSUME NEW r \in Requests, CommitAccept(r) PROVE Answered(a)
  BY <1>5, <1>6, OwnAnswer DEF CommitAccept, Answering
<1>7. ASSUME NEW r \in Requests, CommitReject(r) PROVE Answered(a)
  <2> DEFINE x == req[r].row
  <2>1. Marked({x}, "REJECTED") \in Seq(Assignment) /\ a \in DOMAIN Marked({x}, "REJECTED")
    BY <1>0, MarkedType DEF Answers, Marked
  <2>2. rows' \in Offers(rows[x].order, Marked({x}, "REJECTED"), driverStatus')
    BY <1>7 DEF CommitReject
  <2>3. rows'[a] = Marked({x}, "REJECTED")[a]
    BY <2>1, <2>2, OffersKeep
  <2> QED
    BY <1>5, <1>7, <2>3, OwnAnswer DEF CommitReject, Answering
<1>8. ASSUME NEW r \in Requests, CommitExpire(r) PROVE Answered(a)
  <2> DEFINE x == req[r].row
  <2>1. Marked({x}, "EXPIRED") \in Seq(Assignment) /\ a \in DOMAIN Marked({x}, "EXPIRED")
    BY <1>0, MarkedType DEF Answers, Marked
  <2>2. \/ rows' \in Offers(rows[x].order, Marked({x}, "EXPIRED"), driverStatus')
        \/ rows' = Marked({x}, "EXPIRED")
    BY <1>8 DEF CommitExpire
  <2>3. rows'[a] = Marked({x}, "EXPIRED")[a]
    BY <2>1, <2>2, OffersKeep
  <2> QED
    BY <1>5, <1>8, <2>3, OwnAnswer DEF CommitExpire, Answering
<1>9. ASSUME NEW r \in Requests, \/ Read(r) \/ WriteRow(r) \/ Rollback(r)
                                 \/ \E x \in timers : TimerFires(r, x)
      PROVE  Answered(a)
  BY <1>1, <1>9 DEF Read, ReadForStatus, ReadForCancel, ReadForRelease, BeginManual,
     ReadForAnswer, WriteRow, Rollback, TimerFires, stored
<1>10. ASSUME NEW o \in Orders, RunTask(o) \/ AdminDispatch(o) PROVE Answered(a)
  <2>1. rows' \in Offers(o, rows, driverStatus)
    BY <1>10 DEF RunTask, AdminDispatch
  <2> QED
    BY <1>0, <1>1, <2>1, OffersKeep
<1>11. CASE \/ \E d \in Drivers, s \in DriverStatus : SetStatus(d, s)
            \/ Restart
            \/ UNCHANGED vars
  BY <1>1, <1>11 DEF SetStatus, Restart, vars, stored
<1> QED
  BY <1>2, <1>3, <1>4, <1>6, <1>7, <1>8, <1>9, <1>10, <1>11 DEF Next, Commit

(* OneAnswer: the answer to an offer is overwritten only by a handler that *)
(* read the offer open, however answers, timers and withdrawals overlap;   *)
(* an accepted one may be given back.                                      *)
THEOREM AnswersOnce == Spec => OneAnswer
<1>1. TypeOK /\ [Next]_vars => \A a \in DOMAIN rows : Answered(a)
  BY NextAnswer
<1>2. TypeOK /\ [Next]_vars =>
        [\A a \in DOMAIN rows : rows'[a].status # rows[a].status =>
           \/ rows[a].status = "PENDING"
           \/ rows[a].status = "ACCEPTED" /\ rows'[a].status = "CANCELLED"
           \/ \E r \in Requests : /\ req[r].op \in Answering /\ req[r].row = a
                                  /\ req[r].was = "PENDING" /\ req'[r] = Idle]_vars
  BY <1>1 DEF Answered, Late
<1> QED
  BY <1>2, TypeCorrect, PTL DEF Spec, OneAnswer

-----------------------------------------------------------------------------
(***************************************************************************)
(* Orders take the edges of their life cycle, unless a late write hits     *)
(* them.  A handler decides on the status it reads, and what it read is in *)
(* its record: so what it writes is an edge from the status it read.       *)
(***************************************************************************)
Legal(q) ==
  /\ q.op = "status" => q.to \in AllowedTransitions(q.from)
  /\ q.op = "cancel" => q.from \notin Uncancellable
  /\ q.op = "release" => q.from = "PICKING_UP"

Decided == \A r \in Requests : Legal(req[r])

(* Where an order can go, seen from where it comes.                        *)
LEMMA Edges ==
  /\ \A s, t \in OrderStatus : t \in AllowedTransitions(s) => Lifecycle!Edge(s, t)
  /\ Lifecycle!Edge("READY", "PICKING_UP")
  /\ Lifecycle!Edge("PICKING_UP", "READY")
  /\ \A s \in OrderStatus \ Uncancellable : Lifecycle!Edge(s, "CANCELLED")
  BY DEF AllowedTransitions, OrderStatus, Uncancellable, Lifecycle!Edge,
         Lifecycle!AllowedTransitions

(* A step of order o along an edge, or a late write to it.                 *)
Moves(o) ==
  \E t \in OrderStatus :
    /\ orderStatus' = [orderStatus EXCEPT ![o] = t]
    /\ Lifecycle!Edge(orderStatus[o], t) \/ Overtaken(o)

(* A commit that writes t where the handler had read seen.                 *)
LEMMA LateOrLegal ==
  ASSUME NEW o \in Orders, NEW t \in OrderStatus,
         orderStatus' = [orderStatus EXCEPT ![o] = t],
         NEW seen, Lifecycle!Edge(seen, t), seen # orderStatus[o] => Overtaken(o)
  PROVE  Moves(o)
  BY DEF Moves

(* An order given to a driver by a handler that saw it.                    *)
LEMMA GivesMoves ==
  ASSUME NEW o \in Orders, NEW d, NEW seen, GivesOrder(o, d, seen),
         seen.status # orderStatus[o] => Overtaken(o)
  PROVE  Moves(o) \/ UNCHANGED orderStatus
<1>1. "PICKING_UP" \in OrderStatus
  BY DEF OrderStatus
<1>2. CASE seen.status = "READY"
  <2>1. orderStatus' = [orderStatus EXCEPT ![o] = "PICKING_UP"]
    BY <1>2 DEF GivesOrder
  <2> QED
    BY <1>1, <1>2, <2>1, Edges, LateOrLegal
<1>3. CASE seen.status # "READY"
  BY <1>3 DEF GivesOrder
<1> QED
  BY <1>2, <1>3

(* Every step takes one order along an edge, writes it late, or neither.   *)
LEMMA StatusSteps ==
  ASSUME TypeOK, Decided, [Next]_vars
  PROVE  (\E o \in Orders : Moves(o)) \/ UNCHANGED orderStatus
<1>1. ASSUME NEW r \in Requests, CommitStatus(r)
      PROVE  \E o \in Orders : Moves(o)
  <2> DEFINE o == req[r].order  t == req[r].to  seen == req[r].from
  <2>1. /\ o \in Orders /\ t \in OrderStatus /\ seen \in OrderStatus
        /\ t \in AllowedTransitions(seen)
        /\ orderStatus' = [orderStatus EXCEPT ![o] = t]
    BY <1>1, RequestFields DEF CommitStatus, Decided, Legal
  <2>2. seen # orderStatus[o] => Overtaken(o)
    BY <1>1 DEF CommitStatus, Overtaken
  <2>3. Lifecycle!Edge(seen, t)
    BY <2>1, Edges
  <2> HIDE DEF o, t, seen
  <2> QED
    BY <2>1, <2>2, <2>3, LateOrLegal
<1>2. ASSUME NEW r \in Requests, CommitCancel(r)
      PROVE  \E o \in Orders : Moves(o)
  <2> DEFINE o == req[r].order  seen == req[r].from
  <2>1. /\ o \in Orders /\ seen \in OrderStatus \ Uncancellable
        /\ orderStatus' = [orderStatus EXCEPT ![o] = "CANCELLED"]
    BY <1>2, RequestFields DEF CommitCancel, Decided, Legal
  <2>2. seen # orderStatus[o] => Overtaken(o)
    BY <1>2 DEF CommitCancel, Overtaken
  <2>3. Lifecycle!Edge(seen, "CANCELLED") /\ "CANCELLED" \in OrderStatus
    BY <2>1, Edges DEF OrderStatus
  <2> HIDE DEF o, seen
  <2> QED
    BY <2>1, <2>2, <2>3, LateOrLegal
<1>3. ASSUME NEW r \in Requests, CommitRelease(r)
      PROVE  \E o \in Orders : Moves(o)
  <2> DEFINE o == req[r].order
  <2>1. /\ o \in Orders /\ req[r].from = "PICKING_UP"
        /\ orderStatus' = [orderStatus EXCEPT ![o] = "READY"]
    BY <1>3, RequestFields DEF CommitRelease, Decided, Legal
  <2>2. "PICKING_UP" # orderStatus[o] => Overtaken(o)
    BY <1>3, <2>1 DEF CommitRelease, Overtaken
  <2>3. "READY" \in OrderStatus
    BY DEF OrderStatus
  <2> HIDE DEF o
  <2> QED
    BY <2>1, <2>2, <2>3, Edges, LateOrLegal
<1>4. ASSUME NEW r \in Requests, CommitManual(r)
      PROVE  (\E o \in Orders : Moves(o)) \/ UNCHANGED orderStatus
  <2>1. req[r].order \in Orders /\ GivesOrder(req[r].order, req[r].driver, req[r].seen)
    BY <1>4, RequestFields DEF CommitManual
  <2>2. req[r].seen.status # orderStatus[req[r].order] => Overtaken(req[r].order)
    BY <1>4 DEF CommitManual, Overtaken
  <2> QED
    BY <2>1, <2>2, GivesMoves
<1>5. ASSUME NEW r \in Requests, CommitAccept(r)
      PROVE  (\E o \in Orders : Moves(o)) \/ UNCHANGED orderStatus
  <2> DEFINE o == rows[req[r].row].order
  <2>1. req[r].row \in DOMAIN rows
    BY <1>5, RequestFields DEF CommitAccept, Answering
  <2>2. rows[req[r].row] \in Assignment
    BY <2>1 DEF TypeOK
  <2>3. o \in Orders /\ GivesOrder(o, req[r].driver, req[r].seen)
    BY <1>5, <2>2 DEF CommitAccept, Assignment
  <2>4. req[r].seen.status # orderStatus[o] => Overtaken(o)
    BY <1>5 DEF CommitAccept, Overtaken
  <2> HIDE DEF o
  <2> QED
    BY <2>3, <2>4, GivesMoves
<1>6. ASSUME NEW r \in Requests, \/ Read(r) \/ WriteRow(r) \/ CommitReject(r)
                                 \/ CommitExpire(r) \/ Rollback(r)
                                 \/ \E a \in timers : TimerFires(r, a)
      PROVE  UNCHANGED orderStatus
  BY <1>6 DEF Read, ReadForStatus, ReadForCancel, ReadForRelease, BeginManual,
     ReadForAnswer, WriteRow, CommitReject, CommitExpire, Rollback, TimerFires, stored
<1>7. CASE \/ \E o \in Orders : RunTask(o) \/ AdminDispatch(o)
           \/ \E d \in Drivers, s \in DriverStatus : SetStatus(d, s)
           \/ Restart
           \/ UNCHANGED vars
  BY <1>7 DEF RunTask, AdminDispatch, SetStatus, Restart, vars, stored
<1> QED
  BY <1>1, <1>2, <1>3, <1>4, <1>5, <1>6, <1>7 DEF Next, Commit

(* A handler decides once, on what it reads.                               *)
LEMMA NextDecided ==
  ASSUME TypeOK, Decided, [Next]_vars
  PROVE  Decided'
<1> SUFFICES ASSUME NEW r \in Requests PROVE Legal(req'[r])
  BY DEF Decided
<1>1. Legal(req[r]) /\ Legal(Idle)
  BY DEF Decided, Legal, Idle
<1>2. ASSUME NEW s \in Requests, Read(s) PROVE Legal(req'[r])
  <2>1. ASSUME NEW o \in Orders, NEW role, NEW to, ReadForStatus(s, o, to, role)
        PROVE  Legal(req'[r])
    BY <1>1, <2>1 DEF ReadForStatus, Starts, Legal, TypeOK
  <2>2. ASSUME NEW o \in Orders, NEW role, ReadForCancel(s, o, role)
        PROVE  Legal(req'[r])
    BY <1>1, <2>2 DEF ReadForCancel, MayCancel, Starts, Legal, TypeOK
  <2>3. ASSUME NEW o \in Orders, ReadForRelease(s, o)
        PROVE  Legal(req'[r])
    BY <1>1, <2>3 DEF ReadForRelease, Starts, Legal, TypeOK
  <2>4. ASSUME NEW o \in Orders, NEW d \in Drivers, BeginManual(s, o, d)
        PROVE  Legal(req'[r])
    BY <1>1, <2>4 DEF BeginManual, Starts, Legal, TypeOK
  <2>5. ASSUME NEW a \in DOMAIN rows, NEW d \in Drivers, NEW answer \in {"accept", "reject"},
               ReadForAnswer(s, a, d, answer)
        PROVE  Legal(req'[r])
    BY <1>1, <2>5 DEF ReadForAnswer, Starts, Legal, TypeOK
  <2> QED
    BY <1>2, <2>1, <2>2, <2>3, <2>4, <2>5 DEF Read
<1>3. ASSUME NEW s \in Requests, Ends(s) PROVE Legal(req'[r])
  BY <1>1, <1>3 DEF Ends, TypeOK
<1>4. ASSUME NEW s \in Requests, WriteRow(s) PROVE Legal(req'[r])
  BY <1>1, <1>4 DEF WriteRow, Legal, TypeOK
<1>5. ASSUME NEW s \in Requests, Commit(s) \/ Rollback(s) PROVE Legal(req'[r])
  BY <1>3, <1>4, <1>5 DEF Commit, CommitStatus, CommitCancel, CommitRelease, CommitManual,
     CommitAccept, CommitReject, CommitExpire, Rollback
<1>6. ASSUME NEW s \in Requests, NEW a \in timers, TimerFires(s, a) PROVE Legal(req'[r])
  BY <1>1, <1>6 DEF TimerFires, Legal, TypeOK
<1>7. CASE \/ \E o \in Orders : RunTask(o) \/ AdminDispatch(o)
           \/ \E d \in Drivers, s \in DriverStatus : SetStatus(d, s)
           \/ UNCHANGED vars
  BY <1>1, <1>7 DEF RunTask, AdminDispatch, SetStatus, vars
<1>8. CASE Restart
  BY <1>1, <1>8 DEF Restart
<1> QED
  BY <1>2, <1>5, <1>6, <1>7, <1>8 DEF Next

(* LifecycleSpec: however handlers overlap, orders move along the edges of *)
(* their life cycle, or by the late write of a handler that was overtaken. *)
THEOREM ImplementsLifecycle == Spec => LifecycleSpec
<1>1. Init => Decided
  BY DEF Init, Idle, Decided, Legal
<1>2. TypeOK /\ Decided /\ [Next]_vars => Decided'
  BY NextDecided
<1>3. Init => Lifecycle!Init
  BY DEF Init, Lifecycle!Init
<1>4. ASSUME NEW o \in Orders, Moves(o)
      PROVE  Lifecycle!Next
  <2>1. PICK t \in OrderStatus :
          /\ orderStatus' = [orderStatus EXCEPT ![o] = t]
          /\ Lifecycle!Edge(orderStatus[o], t) \/ Overtaken(o)
    BY <1>4 DEF Moves
  <2>2. Lifecycle!Step(o, t)
    BY <2>1 DEF Lifecycle!Step
  <2>3. t \in Lifecycle!OrderStatus
    BY DEF OrderStatus, Lifecycle!OrderStatus
  <2> QED
    BY <2>2, <2>3 DEF Lifecycle!Next
<1>5. TypeOK /\ Decided /\ [Next]_vars => [Lifecycle!Next]_orderStatus
  BY <1>4, StatusSteps
<1> QED
  BY <1>1, <1>2, <1>3, <1>5, TypeCorrect, PTL DEF Spec, LifecycleSpec, Lifecycle!Spec
=============================================================================
