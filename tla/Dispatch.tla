------------------------------ MODULE Dispatch ------------------------------
(***************************************************************************)
(* Offering orders to drivers: assignments, their 60 second timers, the    *)
(* background dispatch of an order that became READY, and what the status, *)
(* cancel and release endpoints do to drivers and assignments.             *)
(*                                                                         *)
(* As in OrderPayments a request, a timer that fired or any other handler  *)
(* is one database transaction in several steps, kept in req[r]: what it   *)
(* read, then the commit.  Accepting and expiring write the assignment and *)
(* the driver first, which locks those rows, and read the order after; a   *)
(* commit that writes a locked row waits.  Finding a driver reads without  *)
(* locks and inserts one row, and is part of the commit it belongs to.     *)
(*                                                                         *)
(* Timers and scheduled dispatches live in the memory of the process: a    *)
(* restart loses them.  Where drivers are is left open, so any driver on   *)
(* line may be the nearest, or be beyond the search radius.                *)
(***************************************************************************)
EXTENDS Naturals, Sequences, OrderTypes

CONSTANTS
  Orders,
  Drivers,      \* approved drivers with a known position
  Requests,     \* handlers that may be in flight at the same time
  FirstStatus,  \* where the instance joins the life of its orders
  MaxRows,      \* bound on the assignments ever made
  Operations,   \* what may happen in this instance
  Failing,      \* the handlers that may fail in this instance, by req[r].op
  None          \* no driver

ASSUME FirstStatusAssumption == FirstStatus \in {"PENDING", "CONFIRMED", "PREPARING"}
ASSUME FailingAssumption == "idle" \notin Failing
ASSUME BoundsAssumption == MaxRows \in Nat
ASSUME NoneAssumption == None \notin Drivers

VARIABLES
  orderStatus,   \* orders.status
  orderDriver,   \* orders.driver_id
  driverStatus,  \* drivers.status
  rows,          \* dispatch_assignments, in the order of their creation
  timers,        \* assignments with a timer running in this process
  tasks,         \* orders with a dispatch scheduled in this process
  req            \* what each handler in flight has read

vars == <<orderStatus, orderDriver, driverStatus, rows, timers, tasks, req>>
stored == <<orderStatus, orderDriver, driverStatus, rows>>

DriverStatus == {"OFFLINE", "ONLINE", "BUSY", "RETURNING"}
Answers == {"ACCEPTED", "REJECTED", "EXPIRED", "CANCELLED"}
Assignment == [order : Orders, driver : Drivers, status : {"PENDING"} \cup Answers]
OrderSeen == [status : OrderStatus, driver : Drivers \cup {None}]

Idle == [op |-> "idle"]
Answering == {"accept", "reject", "expire", "accepting", "expiring"}

Request ==
  {Idle}
  \cup [op : {"status"}, order : Orders, from : OrderStatus, to : OrderStatus]
  \cup [op : {"cancel"}, order : Orders, from : OrderStatus]
  \cup [op : {"release"}, order : Orders, from : OrderStatus, driver : Drivers]
  \cup [op : {"accept", "reject", "expire"}, row : 1..MaxRows, driver : Drivers,
        was : {"PENDING"}]
  \cup [op : {"accepting", "expiring"}, row : 1..MaxRows, driver : Drivers,
        was : {"PENDING"}, seen : OrderSeen]
  \cup [op : {"manual"}, order : Orders, driver : Drivers, seen : OrderSeen]

TypeOK ==
  /\ orderStatus \in [Orders -> OrderStatus]
  /\ orderDriver \in [Orders -> Drivers \cup {None}]
  /\ driverStatus \in [Drivers -> DriverStatus]
  /\ rows \in Seq(Assignment) /\ Len(rows) <= MaxRows
  /\ timers \subseteq DOMAIN rows
  /\ tasks \subseteq Orders
  /\ req \in [Requests -> Request]
  /\ \A r \in Requests : req[r].op \in Answering => req[r].row \in DOMAIN rows

Init ==
  /\ orderStatus = [o \in Orders |-> FirstStatus]
  /\ orderDriver = [o \in Orders |-> None]
  /\ driverStatus = [d \in Drivers |-> "ONLINE"]
  /\ rows = <<>>
  /\ timers = {}
  /\ tasks = {}
  /\ req = [r \in Requests |-> Idle]

-----------------------------------------------------------------------------
Seen(o) == [status |-> orderStatus[o], driver |-> orderDriver[o]]

(* Rows of order o in one of these statuses, for one of these drivers.     *)
RowsOf(o, statuses, drivers) ==
  {a \in DOMAIN rows :
     rows[a].order = o /\ rows[a].status \in statuses /\ rows[a].driver \in drivers}

Marked(S, status) ==
  [a \in DOMAIN rows |-> IF a \in S THEN [rows[a] EXCEPT !.status = status] ELSE rows[a]]

(* An accept or an expiry under way has written its assignment and driver. *)
Holds(s, a) == req[s].op \in {"accepting", "expiring"} /\ req[s].row = a

Unlocked(S) == \A s \in Requests, a \in S : ~Holds(s, a)
DriverUnlocked(d) ==
  \A s \in Requests : req[s].op \in {"accepting", "expiring"} => req[s].driver # d

Starts(r, op, local) ==
  /\ op \in Operations
  /\ req[r] = Idle
  /\ req' = [req EXCEPT ![r] = local]

Ends(r) == req' = [req EXCEPT ![r] = Idle]

(* Drivers who already answered an offer of this order.                    *)
Asked(o, rs) ==
  {d \in Drivers : \E a \in DOMAIN rs :
     rs[a].order = o /\ rs[a].driver = d /\ rs[a].status \in Answers}

(* get_nearby_drivers; which of them are near is left open.                *)
OnLine(ds) == {d \in Drivers : ds[d] = "ONLINE"}

(* dispatch_order on assignments rs and driver statuses ds: one more       *)
(* PENDING row for a driver on line who was not asked, or none.  Nobody    *)
(* is found as well when those within the radius have all been asked.      *)
Offers(o, rs, ds) ==
  LET asked == Asked(o, rs)
      offer(d) == Append(rs, [order |-> o, driver |-> d, status |-> "PENDING"])
  IN {offer(d) : d \in OnLine(ds) \ asked}
       \cup (IF OnLine(ds) = {} \/ OnLine(ds) \cap asked # {} THEN {rs} ELSE {})

WatchedNever == UNCHANGED timers  \* timer forgotten

WatchedAlways == timers' = timers \cup {Len(rows) + 1}  \* timer without a row

(* A row inserted by dispatch_order gets a timer.                          *)
Watched == timers' = timers \cup (DOMAIN rows' \ DOMAIN rows)
HasRoom == Len(rows) < MaxRows

-----------------------------------------------------------------------------
(* POST /orders/{id}/status.                                               *)
ReadForStatus(r, o, to, role) ==
  /\ role # "USER" /\ HasAccess(role, orderDriver[o] # None)
  /\ to \in AllowedTransitions(orderStatus[o])
  /\ to = "CANCELLED" => MayCancel(role, orderStatus[o], orderDriver[o] # None)
  /\ Starts(r, "status", [op |-> "status", order |-> o, from |-> orderStatus[o], to |-> to])
  /\ UNCHANGED <<stored, timers, tasks>>

(* READY schedules a dispatch, DELIVERED frees the driver the order has by *)
(* now, CANCELLED withdraws the offers nobody answered.                    *)
CommitStatus(r) ==
  /\ req[r].op = "status"
  /\ LET o == req[r].order
         to == req[r].to
         d == orderDriver[o]
         withdrawn == IF to = "CANCELLED" THEN RowsOf(o, {"PENDING"}, Drivers) ELSE {}
         freed == to = "DELIVERED" /\ d # None
     IN /\ Unlocked(withdrawn) /\ (freed => DriverUnlocked(d))
        /\ orderStatus' = [orderStatus EXCEPT ![o] = to]
        /\ driverStatus' = IF freed THEN [driverStatus EXCEPT ![d] = "ONLINE"]
                                    ELSE driverStatus
        /\ rows' = Marked(withdrawn, "CANCELLED")
        /\ tasks' = IF to = "READY" THEN tasks \cup {o} ELSE tasks
  /\ Ends(r)
  /\ UNCHANGED <<orderDriver, timers>>

(* POST /orders/{id}/cancel: withdraws the offers and frees the driver.    *)
ReadForCancel(r, o, role) ==
  /\ HasAccess(role, orderDriver[o] # None)
  /\ MayCancel(role, orderStatus[o], orderDriver[o] # None)
  /\ Starts(r, "cancel", [op |-> "cancel", order |-> o, from |-> orderStatus[o]])
  /\ UNCHANGED <<stored, timers, tasks>>

CommitCancel(r) ==
  /\ req[r].op = "cancel"
  /\ LET o == req[r].order
         d == orderDriver[o]
         withdrawn == RowsOf(o, {"PENDING"}, Drivers)
     IN /\ Unlocked(withdrawn) /\ (d # None => DriverUnlocked(d))
        /\ orderStatus' = [orderStatus EXCEPT ![o] = "CANCELLED"]
        /\ driverStatus' = IF d # None THEN [driverStatus EXCEPT ![d] = "ONLINE"]
                                       ELSE driverStatus
        /\ rows' = Marked(withdrawn, "CANCELLED")
  /\ Ends(r)
  /\ UNCHANGED <<orderDriver, timers, tasks>>

(* POST /orders/{id}/driver/cancel-pickup: the order is given back.        *)
ReadForRelease(r, o) ==
  /\ orderDriver[o] # None /\ orderStatus[o] = "PICKING_UP"
  /\ Starts(r, "release", [op |-> "release", order |-> o, from |-> orderStatus[o],
                           driver |-> orderDriver[o]])
  /\ UNCHANGED <<stored, timers, tasks>>

GivenBackMutant(S) == Marked(S, "PENDING")  \* as if never answered

GivenBack(S) == Marked(S, "CANCELLED")

CommitRelease(r) ==
  /\ req[r].op = "release"
  /\ LET o == req[r].order
         d == req[r].driver
         given == RowsOf(o, {"PENDING", "ACCEPTED"}, {d})
     IN /\ Unlocked(given) /\ DriverUnlocked(d)
        /\ orderStatus' = [orderStatus EXCEPT ![o] = "READY"]
        /\ orderDriver' = [orderDriver EXCEPT ![o] = None]
        /\ driverStatus' = [driverStatus EXCEPT ![d] = "ONLINE"]
        /\ rows' = GivenBack(given)
        /\ tasks' = tasks \cup {o}
  /\ Ends(r)
  /\ UNCHANGED <<timers>>

-----------------------------------------------------------------------------
(* _auto_dispatch, in the background.  Finding nobody ends it for good.    *)
RunTask(o) ==
  /\ o \in tasks /\ HasRoom
  /\ tasks' = tasks \ {o}
  /\ rows' \in Offers(o, rows, driverStatus)
  /\ Watched
  /\ UNCHANGED <<orderStatus, orderDriver, driverStatus, req>>

(* POST /dispatch and /dispatch/{id}/reassign, for an order in any status. *)
AdminDispatch(o) ==
  /\ "admin" \in Operations /\ HasRoom
  /\ rows' \in Offers(o, rows, driverStatus) \ {rows}
  /\ Watched
  /\ UNCHANGED <<orderStatus, orderDriver, driverStatus, tasks, req>>

(* POST /dispatch/manual.                                                  *)
BeginManual(r, o, d) ==
  /\ Starts(r, "manual", [op |-> "manual", order |-> o, driver |-> d, seen |-> Seen(o)])
  /\ UNCHANGED <<stored, timers, tasks>>

GivesOrderMutant(o, d, seen) ==  \* the order's status not looked at
  /\ orderDriver' = IF seen.driver = d THEN orderDriver
                                       ELSE [orderDriver EXCEPT ![o] = d]
  /\ orderStatus' = [orderStatus EXCEPT ![o] = "PICKING_UP"]
  /\ driverStatus' = [driverStatus EXCEPT ![d] = "BUSY"]

(* What giving order o to driver d writes over what was seen of the order. *)
GivesOrder(o, d, seen) ==
  /\ orderDriver' = IF seen.driver = d THEN orderDriver
                                       ELSE [orderDriver EXCEPT ![o] = d]
  /\ orderStatus' = IF seen.status = "READY"
                      THEN [orderStatus EXCEPT ![o] = "PICKING_UP"] ELSE orderStatus
  /\ driverStatus' = [driverStatus EXCEPT ![d] = "BUSY"]

HandAssignedMutant(o, d) == [order |-> o, driver |-> d, status |-> "PENDING"]

HandAssigned(o, d) == [order |-> o, driver |-> d, status |-> "ACCEPTED"]

CommitManual(r) ==
  /\ req[r].op = "manual" /\ HasRoom
  /\ DriverUnlocked(req[r].driver)
  /\ GivesOrder(req[r].order, req[r].driver, req[r].seen)
  /\ rows' = Append(rows, HandAssigned(req[r].order, req[r].driver))
  /\ Ends(r)
  /\ UNCHANGED <<timers, tasks>>

-----------------------------------------------------------------------------
(* POST /dispatch/assignments/{id}/respond, by any driver: nothing         *)
(* compares the caller with the driver the offer was made to.  Only a      *)
(* PENDING one is answered; another is reported back as it is.             *)
OpenMutant(a) == rows[a].status \in {"PENDING", "ACCEPTED"}  \* accepted: again

Open(a) == rows[a].status = "PENDING"

ReadForAnswer(r, a, d, answer) ==
  /\ answer \in {"accept", "reject"}
  /\ Open(a)
  /\ Starts(r, answer, [op |-> answer, row |-> a, driver |-> d, was |-> rows[a].status])
  /\ UNCHANGED <<stored, timers, tasks>>

(* A timer that fires looks whether the assignment was answered.           *)
TimerFires(r, a) ==
  /\ a \in timers /\ req[r] = Idle
  /\ timers' = timers \ {a}
  /\ req' = IF Open(a)
              THEN [req EXCEPT ![r] = [op |-> "expire", row |-> a,
                                       driver |-> rows[a].driver, was |-> rows[a].status]]
              ELSE req
  /\ UNCHANGED <<stored, tasks>>

(* The assignment and the driver are written, hence locked, and the order  *)
(* is read.                                                                *)
WriteRow(r) ==
  /\ req[r].op \in {"accept", "expire"}
  /\ LET a == req[r].row
         d == req[r].driver
     IN /\ Unlocked({a}) /\ DriverUnlocked(d)
        /\ req' = [req EXCEPT ![r] =
             [op |-> IF req[r].op = "accept" THEN "accepting" ELSE "expiring",
              row |-> a, driver |-> d, was |-> req[r].was, seen |-> Seen(rows[a].order)]]
  /\ UNCHANGED <<stored, timers, tasks>>

(* The order goes to whoever answered.                                     *)
CommitAccept(r) ==
  /\ req[r].op = "accepting"
  /\ LET a == req[r].row
         o == rows[a].order
     IN /\ rows' = Marked({a}, "ACCEPTED")
        /\ GivesOrder(o, req[r].driver, req[r].seen)
  /\ Ends(r)
  /\ UNCHANGED <<timers, tasks>>

(* A rejected offer goes on to the next driver, whatever the order became. *)
CommitReject(r) ==
  /\ req[r].op = "reject" /\ HasRoom
  /\ LET a == req[r].row
         d == req[r].driver
     IN /\ Unlocked({a}) /\ DriverUnlocked(d)
        /\ driverStatus' = [driverStatus EXCEPT ![d] = "ONLINE"]
        /\ rows' \in Offers(rows[a].order, Marked({a}, "REJECTED"), driverStatus')
  /\ Watched
  /\ Ends(r)
  /\ UNCHANGED <<orderStatus, orderDriver, tasks>>

(* An expired one does if the order was READY.                             *)
CommitExpire(r) ==
  /\ req[r].op = "expiring" /\ HasRoom
  /\ LET a == req[r].row
         expired == Marked({a}, "EXPIRED")
     IN /\ driverStatus' = [driverStatus EXCEPT ![req[r].driver] = "ONLINE"]
        /\ rows' \in IF req[r].seen.status = "READY"
                       THEN Offers(rows[a].order, expired, driverStatus')
                       ELSE {expired}
  /\ Watched
  /\ Ends(r)
  /\ UNCHANGED <<orderStatus, orderDriver, tasks>>

-----------------------------------------------------------------------------
(* POST /drivers/profile/status: drivers set what they like; the instance  *)
(* names, among its Operations, the statuses they do set.                  *)
SetStatus(d, s) ==
  /\ s \in Operations
  /\ DriverUnlocked(d)
  /\ driverStatus' = [driverStatus EXCEPT ![d] = s]
  /\ UNCHANGED <<orderStatus, orderDriver, rows, timers, tasks, req>>

(* A handler fails: its transaction rolls back, and a timer does not run   *)
(* again.  A dispatch scheduled late in the request may still run.         *)
Rollback(r) ==
  /\ req[r].op \in Failing
  /\ \/ UNCHANGED tasks
     \/ /\ \/ req[r].op = "release"
           \/ req[r].op = "status" /\ req[r].to = "READY"
        /\ tasks' = tasks \cup {req[r].order}
  /\ Ends(r)
  /\ UNCHANGED <<stored, timers>>

Restart ==
  /\ "restart" \in Operations
  /\ timers' = {} /\ tasks' = {}
  /\ req' = [r \in Requests |-> Idle]
  /\ UNCHANGED <<stored>>

Commit(r) ==
  \/ CommitStatus(r) \/ CommitCancel(r) \/ CommitRelease(r) \/ CommitManual(r)
  \/ WriteRow(r) \/ CommitAccept(r) \/ CommitReject(r) \/ CommitExpire(r)

Read(r) ==
  \/ \E o \in Orders :
       \/ \E role \in Roles :
            \/ \E to \in OrderStatus : ReadForStatus(r, o, to, role)
            \/ ReadForCancel(r, o, role)
       \/ ReadForRelease(r, o)
       \/ \E d \in Drivers : BeginManual(r, o, d)
  \/ \E a \in DOMAIN rows, d \in Drivers, answer \in {"accept", "reject"} :
       ReadForAnswer(r, a, d, answer)

Next ==
  \/ \E r \in Requests :
       Read(r) \/ Commit(r) \/ Rollback(r) \/ \E a \in timers : TimerFires(r, a)
  \/ \E o \in Orders : RunTask(o) \/ AdminDispatch(o)
  \/ \E d \in Drivers, s \in DriverStatus : SetStatus(d, s)
  \/ Restart

Spec == Init /\ [][Next]_vars

(* Handlers under way end, scheduled dispatches run and timers fire.  The  *)
(* process runs any number of handlers at once: a timer is not kept from   *)
(* firing because the elements of Requests are busy now and then (SF).     *)
FairSpec ==
  /\ Spec
  /\ \A r \in Requests : WF_vars(Commit(r))
  /\ \A o \in Orders : WF_vars(RunTask(o))
  /\ \A a \in 1..MaxRows : SF_vars(\E r \in Requests : TimerFires(r, a))

-----------------------------------------------------------------------------
(* An order has a driver only if an assignment of it was answered or made  *)
(* by hand, also when answers, timers and withdrawals overlap, and whoever *)
(* answered.                                                               *)
DriverByAnswer ==
  \A o \in Orders : orderDriver[o] # None => RowsOf(o, Answers, Drivers) # {}

(* A driver who answered for an order is never again one who did not: the  *)
(* offers of an order end.                                                 *)
AskedGrows == [][\A o \in Orders : Asked(o, rows) \subseteq Asked(o, rows')]_vars

(* An answer is overwritten only by a handler that read the assignment     *)
(* before it was answered; an accepted one may be given back.              *)
OneAnswer ==
  [][\A a \in DOMAIN rows : rows'[a].status # rows[a].status =>
       \/ rows[a].status = "PENDING"
       \/ rows[a].status = "ACCEPTED" /\ rows'[a].status = "CANCELLED"
       \/ \E r \in Requests : /\ req[r].op \in Answering /\ req[r].row = a
                              /\ req[r].was = "PENDING" /\ req'[r] = Idle]_vars

(* The driver of an order holds an accepted assignment for it.             *)
DriverHoldsAssignment ==
  \A o \in Orders : orderDriver[o] # None =>
    RowsOf(o, {"ACCEPTED"}, {orderDriver[o]}) # {}

(* A handler at work read the order in a status it has left since.         *)
Overtaken(o) ==
  \E r \in Requests :
    \/ /\ req[r].op \in {"status", "cancel", "release"} /\ req[r].order = o
       /\ req[r].from # orderStatus[o]
    \/ /\ req[r].op = "accepting" /\ rows[req[r].row].order = o
       /\ req[r].seen.status # orderStatus[o]
    \/ /\ req[r].op = "manual" /\ req[r].order = o
       /\ req[r].seen.status # orderStatus[o]

(* However many handlers overlap, an order leaves its life cycle only by   *)
(* the late write of a handler that read it in a status it has left since. *)
Lifecycle == INSTANCE OrderLifecycle WITH
               status <- orderStatus, First <- FirstStatus,
               Exceptions <- {<<"PICKING_UP", "CANCELLED">>, <<"DELIVERING", "CANCELLED">>,
                              <<"PICKING_UP", "READY">>},
               loose <- {o \in Orders : Overtaken(o)}
LifecycleSpec == Lifecycle!Spec

(* Every offer is answered, withdrawn or expires, as long as no handler    *)
(* fails and the process is not restarted.                                 *)
Waiting(a) == a \in DOMAIN rows /\ rows[a].status = "PENDING"
OffersEnd == \A a \in 1..MaxRows : Waiting(a) ~> ~Waiting(a)
=============================================================================
