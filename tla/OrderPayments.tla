---------------------------- MODULE OrderPayments ----------------------------
(***************************************************************************)
(* Orders, payments, refunds, gateway webhooks and idempotency records.    *)
(*                                                                         *)
(* Every HTTP request runs in a database transaction of its own: it reads  *)
(* rows without locking them (READ COMMITTED), decides on what it read,    *)
(* and at its end writes the columns it changed, by primary key, over      *)
(* whatever is stored by then (core/database.py).  A request is therefore  *)
(* two or three steps here: the reads leave what was seen in req[r], and   *)
(* the last step is the commit.  Requests interleave freely.               *)
(*                                                                         *)
(* Two handlers lock: process_refund looks its key up without a lock, then *)
(* holds the payment row from its read to its commit (a request in         *)
(* "refund" or "refunding" is the holder), and handle_webhook locks the    *)
(* payment and then the order, reads nothing else, and so is one atomic    *)
(* step, enabled while nobody holds the payment.                           *)
(*                                                                         *)
(* Every order costs the same, Amount; a payment is always for the whole   *)
(* total.  A refund row is kept as what it adds to its payment: rows, and  *)
(* the sums in status COMPLETED (done) and PENDING (open); refund rows are *)
(* never updated or deleted by the program.                                *)
(***************************************************************************)
EXTENDS Naturals, FiniteSets, OrderTypes

CONSTANTS
  Orders,       \* orders placed
  Payments,     \* payment rows, by transaction id, that may come to exist
  Requests,     \* requests that may be in flight at the same time
  PayKeys,      \* (scope, idempotency key) pairs used with POST /payments
  RefundKeys,   \* (scope, idempotency key) pairs used with POST /payments/refund
  TxnNos,       \* transaction number and date the gateway puts on a callback
  MaxEvents,    \* bound on the event rows ever stored
  Amount,       \* order total, in refundable units
  Operations,   \* endpoints the clients of this instance call
  None          \* no payment, no record

ASSUME AmountAssumption == Amount \in Nat \ {0}

VARIABLES
  orderStatus,  \* orders.status
  hasDriver,    \* orders.driver_id is not null
  pay,          \* payments: the row, or None before it is inserted
  refunds,      \* refunds, per payment
  events,       \* webhook_events, by event id: the row, or None
  payIdem,      \* idempotency_keys of POST /payments: payment in the response
  refundIdem,   \* idempotency_keys of POST /payments/refund: payment and amount
  req,          \* what each request in flight has read
  repeated      \* payments of which a verified success was answered "duplicate"
                \* when none had been carried out (history)

stored == <<orderStatus, hasDriver, pay, refunds, events, payIdem, refundIdem>>
vars == <<stored, req, repeated>>

(* The id of a gateway event joins transaction, response code, number and  *)
(* date; the code is kept as whether it is that of a success.  A success   *)
(* has a transaction status besides, which is not part of the id.          *)
Events == Payments \X BOOLEAN \X TxnNos

Methods == {"VNPAY", "CASH_ON_DELIVERY"}
PaymentRow == [order : Orders, method : Methods, status : PaymentStatus]
RefundSums == [rows : Nat, done : Nat, open : Nat]
RefundRecord == [payment : Payments, amount : Nat]

(* What an event reported, as far as the handler could tell: success or    *)
(* failure of the payment, or nothing it could verify or find.             *)
EventRow == [status : {"PROCESSED", "FAILED"},
             report : {"success", "failure", "refused"}]

ASSUME NoneAssumption ==
  None \notin Payments \cup PaymentRow \cup RefundRecord \cup EventRow

Idle == [op |-> "idle"]

Request ==
  {Idle}
  \cup [op : {"status"}, order : Orders, from : OrderStatus, to : OrderStatus]
  \cup [op : {"cancel"}, order : Orders, from : OrderStatus]
  \cup [op : {"cancelling"}, order : Orders, from : OrderStatus,
        refund : Payments \cup {None}, rows : Nat]
  \cup [op : {"pay"}, order : Orders, from : OrderStatus, method : Methods,
        key : PayKeys]
  \cup [op : {"keyed"}, payment : Payments, amount : Nat, key : RefundKeys]
  \cup [op : {"refund"}, payment : Payments, amount : Nat, key : RefundKeys,
        before : Nat]
  \cup [op : {"refunding"}, payment : Payments, amount : Nat, key : RefundKeys,
        before : Nat, full : BOOLEAN, cancelled : BOOLEAN]
  \cup [op : {"assign"}, order : Orders, from : OrderStatus, again : BOOLEAN]
  \cup [op : {"release"}, order : Orders]

TypeOK ==
  /\ orderStatus \in [Orders -> OrderStatus]
  /\ hasDriver \in [Orders -> BOOLEAN]
  /\ pay \in [Payments -> PaymentRow \cup {None}]
  /\ refunds \in [Payments -> RefundSums]
  /\ events \in [Events -> EventRow \cup {None}]
  /\ payIdem \in [PayKeys -> Payments \cup {None}]
  /\ refundIdem \in [RefundKeys -> RefundRecord \cup {None}]
  /\ req \in [Requests -> Request]
  /\ repeated \subseteq Payments

(* Orders as create_order leaves them; no payment yet.                     *)
Init ==
  /\ orderStatus = [o \in Orders |-> "PENDING"]
  /\ hasDriver = [o \in Orders |-> FALSE]
  /\ pay = [p \in Payments |-> None]
  /\ refunds = [p \in Payments |-> [rows |-> 0, done |-> 0, open |-> 0]]
  /\ events = [e \in Events |-> None]
  /\ payIdem = [k \in PayKeys |-> None]
  /\ refundIdem = [k \in RefundKeys |-> None]
  /\ req = [r \in Requests |-> Idle]
  /\ repeated = {}

-----------------------------------------------------------------------------
Exists(p) == pay[p] # None

HasMoney(p) == Exists(p) /\ pay[p].status \in {"COMPLETED", "REFUNDED"}

CompletedOf(o) ==
  {p \in Payments : Exists(p) /\ pay[p].order = o /\ pay[p].status = "COMPLETED"}

(* Refunds in any status but FAILED, which nothing sets.                   *)
Refunded(p) == refunds[p].done + refunds[p].open

(* SELECT ... FOR UPDATE on the payment, held by a refund in flight.       *)
HoldsPayment(r, p) == req[r].op \in {"refund", "refunding"} /\ req[r].payment = p

LockedMutant(p) == FALSE  \* FOR UPDATE forgotten

Locked(p) == \E r \in Requests : HoldsPayment(r, p)

Starts(r, op, local) ==
  /\ op \in Operations
  /\ req[r] = Idle
  /\ req' = [req EXCEPT ![r] = local]
  /\ UNCHANGED repeated

Ends(r) ==
  /\ req' = [req EXCEPT ![r] = Idle]
  /\ UNCHANGED repeated

-----------------------------------------------------------------------------
(* POST /orders/{id}/status by a merchant, a driver or an administrator.   *)
ReadForStatus(r, o, to, role) ==
  /\ role # "USER" /\ HasAccess(role, hasDriver[o])
  /\ to \in AllowedTransitions(orderStatus[o])
  /\ to = "CANCELLED" => MayCancel(role, orderStatus[o], hasDriver[o])
  /\ Starts(r, "status",
            [op |-> "status", order |-> o, from |-> orderStatus[o], to |-> to])
  /\ UNCHANGED stored

CommitStatus(r) ==
  /\ req[r].op = "status"
  /\ orderStatus' = [orderStatus EXCEPT ![req[r].order] = req[r].to]
  /\ Ends(r)
  /\ UNCHANGED <<hasDriver, pay, refunds, events, payIdem, refundIdem>>

-----------------------------------------------------------------------------
(* POST /orders/{id}/cancel.  The order is read first, its completed       *)
(* payment and that payment's refund later, the writes come last.          *)
ReadForCancel(r, o, role) ==
  /\ HasAccess(role, hasDriver[o])
  /\ MayCancel(role, orderStatus[o], hasDriver[o])
  /\ Starts(r, "cancel", [op |-> "cancel", order |-> o, from |-> orderStatus[o]])
  /\ UNCHANGED stored

(* The payment to refund: the completed one, if it has no refund row.  Two *)
(* completed payments or two refund rows raise, and the request rolls back.*)
OwesRefundMutant(o, x) ==  \* existing refund rows not looked up
  IF CompletedOf(o) = {} THEN x = None ELSE x \in CompletedOf(o)

OwesRefund(o, x) ==
  \/ x \in CompletedOf(o) /\ refunds[x].rows = 0
  \/ x = None /\ \A p \in CompletedOf(o) : refunds[p].rows = 1

ReadPaymentForCancel(r) ==
  /\ req[r].op = "cancel"
  /\ \A p, q \in CompletedOf(req[r].order) : p = q
  /\ \E x \in Payments \cup {None} :
       /\ OwesRefund(req[r].order, x)
       /\ req' = [req EXCEPT ![r] =
            [op |-> "cancelling", order |-> req[r].order, from |-> req[r].from,
             refund |-> x, rows |-> IF x = None THEN 0 ELSE refunds[x].rows]]
  /\ UNCHANGED <<stored, repeated>>

CommitCancel(r) ==
  /\ req[r].op = "cancelling"
  /\ orderStatus' = [orderStatus EXCEPT ![req[r].order] = "CANCELLED"]
  /\ IF req[r].refund = None
       THEN UNCHANGED refunds
       ELSE refunds' = [refunds EXCEPT ![req[r].refund] =
                          [rows |-> @.rows + 1, done |-> @.done,
                           open |-> @.open + Amount]]
  /\ Ends(r)
  /\ UNCHANGED <<hasDriver, pay, events, payIdem, refundIdem>>

-----------------------------------------------------------------------------
(* POST /payments.  A key already recorded replays the stored response, or *)
(* is refused for another body: nothing changes either way.  Nothing is    *)
(* locked between this look-up and the reading of the order, so a key that *)
(* is recorded in between still fails at the insert.                       *)
ReadForPayment(r, o, method, k) ==
  /\ payIdem[k] = None
  /\ orderStatus[o] \notin NotPayable
  /\ CompletedOf(o) = {}
  /\ Starts(r, "pay", [op |-> "pay", order |-> o, from |-> orderStatus[o],
                       method |-> method, key |-> k])
  /\ UNCHANGED stored

(* The unique (scope, key) is enforced by the last insert: a request that  *)
(* comes second rolls back everything it did, its payment included.        *)
PayKeyFreeMutant(r) == TRUE  \* no unique constraint

PayKeyFree(r) == payIdem[req[r].key] = None

StatusWhenCreatedMutant(method) ==  \* the order's new status, not the payment's
  IF method = "CASH_ON_DELIVERY" THEN "CONFIRMED" ELSE "PROCESSING"

StatusWhenCreated(method) ==
  IF method = "CASH_ON_DELIVERY" THEN "PENDING" ELSE "PROCESSING"

CommitPayment(r, p) ==
  /\ req[r].op = "pay"
  /\ PayKeyFree(r)
  /\ ~Exists(p)
  /\ pay' = [pay EXCEPT ![p] = [order |-> req[r].order, method |-> req[r].method,
                               status |-> StatusWhenCreated(req[r].method)]]
  /\ orderStatus' = IF req[r].method = "CASH_ON_DELIVERY" /\ req[r].from = "PENDING"
                      THEN [orderStatus EXCEPT ![req[r].order] = "CONFIRMED"]
                      ELSE orderStatus
  /\ payIdem' = [payIdem EXCEPT ![req[r].key] = p]
  /\ Ends(r)
  /\ UNCHANGED <<hasDriver, refunds, events, refundIdem>>

-----------------------------------------------------------------------------
(* POST /payments/refund by an administrator.  The key is looked up first; *)
(* one already recorded replays its response, or is refused.               *)
LookUpRefundKey(r, p, amount, k) ==
  /\ refundIdem[k] = None
  /\ Starts(r, "refund", [op |-> "keyed", payment |-> p, amount |-> amount, key |-> k])
  /\ UNCHANGED stored

(* Then the payment is locked, which may have to wait, and its refunds are *)
(* added up.                                                               *)
LockForRefund(r) ==
  /\ req[r].op = "keyed"
  /\ LET p == req[r].payment
     IN /\ Exists(p) /\ ~Locked(p)
        /\ pay[p].status \in {"COMPLETED", "REFUNDED"}
        /\ req[r].amount > 0 /\ Refunded(p) + req[r].amount <= Amount
        /\ req' = [req EXCEPT ![r] =
             [op |-> "refund", payment |-> p, amount |-> req[r].amount,
              key |-> req[r].key, before |-> Refunded(p)]]
  /\ UNCHANGED <<stored, repeated>>

CompletesMutant(before, amount) == before + amount >= amount  \* wrong operand

Completes(before, amount) == before + amount >= Amount

(* The order is read when this refund completes the payment.               *)
ReadOrderForRefund(r) ==
  /\ req[r].op = "refund"
  /\ LET full == Completes(req[r].before, req[r].amount)
     IN req' = [req EXCEPT ![r] =
          [op |-> "refunding", payment |-> req[r].payment, amount |-> req[r].amount,
           key |-> req[r].key, before |-> req[r].before, full |-> full,
           cancelled |-> full /\ orderStatus[pay[req[r].payment].order] = "CANCELLED"]]
  /\ UNCHANGED <<stored, repeated>>

RefundKeyFreeMutant(r) == TRUE  \* no unique constraint

RefundKeyFree(r) == refundIdem[req[r].key] = None

CommitRefund(r) ==
  /\ req[r].op = "refunding"
  /\ RefundKeyFree(r)
  /\ LET p == req[r].payment
     IN /\ refunds' = [refunds EXCEPT ![p] =
              [rows |-> @.rows + 1, done |-> @.done + req[r].amount,
               open |-> @.open]]
        /\ pay' = IF req[r].full THEN [pay EXCEPT ![p].status = "REFUNDED"] ELSE pay
        /\ orderStatus' = IF req[r].cancelled
                            THEN [orderStatus EXCEPT ![pay[p].order] = "REFUNDED"]
                            ELSE orderStatus
        /\ refundIdem' = [refundIdem EXCEPT ![req[r].key] =
                            [payment |-> p, amount |-> req[r].amount]]
  /\ Ends(r)
  /\ UNCHANGED <<hasDriver, events, payIdem>>

-----------------------------------------------------------------------------
(* The gateway calls back.  The event row is inserted before anything else *)
(* is looked at.  This is a callback whose signature is right, about a     *)
(* payment that is there, whose event id is new.                           *)
Delivers(p, code, n) ==
  /\ "webhook" \in Operations
  /\ Exists(p) /\ pay[p].method = "VNPAY"
  /\ events[<<p, code, n>>] = None
  /\ ~Locked(p)

Records(p, code, n, status, report) ==
  /\ Cardinality({e \in Events : events[e] # None}) < MaxEvents
  /\ events' = [events EXCEPT ![<<p, code, n>>] = [status |-> status, report |-> report]]

(* The order is in a status in which a first success is accepted.          *)
Confirmable(s) == s \notin {"CANCELLED", "REFUNDED"}

FirstSuccessMutant(p) == pay[p].status = "PROCESSING"  \* failed before: skipped

FirstSuccess(p) == pay[p].status # "COMPLETED"

(* Success.  For an order that was cancelled the handler raises after it   *)
(* set the payment, marks the event FAILED and commits both.               *)
WebhookSuccess(p, n) ==
  /\ Delivers(p, TRUE, n)
  /\ LET o == pay[p].order
         first == FirstSuccess(p)
     IN /\ pay' = [pay EXCEPT ![p].status = "COMPLETED"]
        /\ orderStatus' = IF first /\ orderStatus[o] = "PENDING"
                            THEN [orderStatus EXCEPT ![o] = "CONFIRMED"]
                            ELSE orderStatus
        /\ Records(p, TRUE, n,
                   IF first /\ ~Confirmable(orderStatus[o]) THEN "FAILED"
                                                            ELSE "PROCESSED",
                   "success")
  /\ UNCHANGED <<hasDriver, refunds, payIdem, refundIdem, req, repeated>>

SettledMutant(p) == pay[p].status = "COMPLETED"  \* refunded payments overlooked

Settled(p) == pay[p].status \in {"COMPLETED", "REFUNDED"}

(* Failure: another response code, or that of a success with a transaction *)
(* status that is not.                                                     *)
WebhookFailure(p, code, n) ==
  /\ Delivers(p, code, n)
  /\ pay' = IF Settled(p) THEN pay ELSE [pay EXCEPT ![p].status = "FAILED"]
  /\ Records(p, code, n, "PROCESSED", "failure")
  /\ UNCHANGED <<orderStatus, hasDriver, refunds, payIdem, refundIdem, req, repeated>>

(* A callback is refused when its signature does not verify, or when the   *)
(* payment it is about is not there, or not yet: create_payment answers    *)
(* with the address to pay at before its transaction commits.  The event   *)
(* row is committed all the same, FAILED, under the id of the callback.    *)
WebhookRefused(p, code, n) ==
  /\ "webhook" \in Operations
  /\ events[<<p, code, n>>] = None
  /\ Records(p, code, n, "FAILED", "refused")
  /\ UNCHANGED <<orderStatus, hasDriver, pay, refunds, payIdem, refundIdem, req, repeated>>

(* A success whose event id is stored is answered "duplicate", unchecked.  *)
WebhookDuplicate(p, n) ==
  /\ "webhook" \in Operations
  /\ Exists(p) /\ pay[p].method = "VNPAY"
  /\ events[<<p, TRUE, n>>] # None
  /\ repeated' = IF HasMoney(p) THEN repeated ELSE repeated \cup {p}
  /\ UNCHANGED <<stored, req>>

-----------------------------------------------------------------------------
(* A driver accepts the order, or an administrator assigns one: what       *)
(* dispatch does to the order row.  If the order was seen to have that     *)
(* driver already (again), driver_id does not change and is not written.   *)
ReadForAssign(r, o, again) ==
  /\ again => hasDriver[o]
  /\ Starts(r, "assign", [op |-> "assign", order |-> o, from |-> orderStatus[o],
                          again |-> again])
  /\ UNCHANGED stored

CommitAssign(r) ==
  /\ req[r].op = "assign"
  /\ hasDriver' = IF req[r].again THEN hasDriver
                                  ELSE [hasDriver EXCEPT ![req[r].order] = TRUE]
  /\ orderStatus' = IF req[r].from = "READY"
                      THEN [orderStatus EXCEPT ![req[r].order] = "PICKING_UP"]
                      ELSE orderStatus
  /\ Ends(r)
  /\ UNCHANGED <<pay, refunds, events, payIdem, refundIdem>>

(* The assigned driver gives the order back before picking it up.          *)
ReadForRelease(r, o) ==
  /\ hasDriver[o] /\ orderStatus[o] = "PICKING_UP"
  /\ Starts(r, "release", [op |-> "release", order |-> o])
  /\ UNCHANGED stored

CommitRelease(r) ==
  /\ req[r].op = "release"
  /\ hasDriver' = [hasDriver EXCEPT ![req[r].order] = FALSE]
  /\ orderStatus' = [orderStatus EXCEPT ![req[r].order] = "READY"]
  /\ Ends(r)
  /\ UNCHANGED <<pay, refunds, events, payIdem, refundIdem>>

-----------------------------------------------------------------------------
(* An exception, a key recorded meanwhile, a lost connection or a crash:   *)
(* the transaction rolls back and its locks are gone.                      *)
Rollback(r) ==
  /\ req[r] # Idle
  /\ Ends(r)
  /\ UNCHANGED stored

OrderRequest(r) ==
  \/ \E o \in Orders, role \in Roles :
       \/ \E to \in OrderStatus : ReadForStatus(r, o, to, role)
       \/ ReadForCancel(r, o, role)
  \/ CommitStatus(r)
  \/ ReadPaymentForCancel(r)
  \/ CommitCancel(r)

PaymentRequest(r) ==
  \/ \E o \in Orders, m \in Methods, k \in PayKeys : ReadForPayment(r, o, m, k)
  \/ \E p \in Payments : CommitPayment(r, p)
  \/ \E p \in Payments, a \in 1..Amount, k \in RefundKeys : LookUpRefundKey(r, p, a, k)
  \/ LockForRefund(r)
  \/ ReadOrderForRefund(r)
  \/ CommitRefund(r)

DispatchRequest(r) ==
  \/ \E o \in Orders, again \in BOOLEAN : ReadForAssign(r, o, again)
  \/ \E o \in Orders : ReadForRelease(r, o)
  \/ CommitAssign(r)
  \/ CommitRelease(r)

Webhook ==
  \E p \in Payments, n \in TxnNos :
    \/ WebhookSuccess(p, n)
    \/ \E code \in BOOLEAN : WebhookRefused(p, code, n) \/ WebhookFailure(p, code, n)
    \/ WebhookDuplicate(p, n)

Next ==
  \/ \E r \in Requests :
       OrderRequest(r) \/ PaymentRequest(r) \/ DispatchRequest(r) \/ Rollback(r)
  \/ Webhook

Spec == Init /\ [][Next]_vars

-----------------------------------------------------------------------------
(***************************************************************************)
(* Properties that hold whatever requests overlap.                         *)
(***************************************************************************)
(* Money and callbacks agree: a payment counts as collected exactly when a *)
(* success the handler verified is among its stored events, whatever other *)
(* callbacks, refused ones included, come before or after it and even when *)
(* the handler ended in an error.                                          *)
CollectedIffEvent ==
  \A p \in Payments :
    HasMoney(p) <=> \E n \in TxnNos :
      events[<<p, TRUE, n>>] # None /\ events[<<p, TRUE, n>>].report = "success"

(* A payment shown as REFUNDED has refund rows for at least what it cost,  *)
(* although the rows were added up before other requests added theirs.     *)
RefundedIsCovered ==
  \A p \in Payments :
    Exists(p) /\ pay[p].status = "REFUNDED" => Refunded(p) >= Amount

(* One payment row per idempotency key and one key per payment row, also   *)
(* when two requests with the same key run at once.                        *)
PaymentsKeyed ==
  /\ \A p \in Payments : Exists(p) <=> \E k \in PayKeys : payIdem[k] = p
  /\ \A j, k \in PayKeys : payIdem[j] = payIdem[k] /\ payIdem[k] # None => j = k

(* Every unit that completed refunds paid back is recorded under one key:  *)
(* the amounts kept with the keys add up to what the refund rows say, so a *)
(* repeated key never pays back twice.                                     *)
UnitsKeyed(p) ==
  UNION {{k} \X (1 .. refundIdem[k].amount) :
           k \in {j \in RefundKeys : refundIdem[j] # None /\ refundIdem[j].payment = p}}

RefundsKeyed == \A p \in Payments : refunds[p].done = Cardinality(UnitsKeyed(p))

(* An order somebody paid for has left PENDING, and no request working on  *)
(* an older reading of the order can bring it back.                        *)
PaidOrderConfirmed ==
  \A p \in Payments : HasMoney(p) => orderStatus[pay[p].order] # "PENDING"

(* The payment component implements the abstract ledger.                   *)
Ledger == INSTANCE PaymentLedger WITH
            captured <- {p \in Payments : HasMoney(p)},
            paidBack <- [p \in Payments |-> refunds[p].done]
LedgerSpec == Ledger!Spec

(* The order has left the status in which a request at work on it read it. *)
(* That a callback confirmed a PENDING order meanwhile does not count: no  *)
(* request minds.                                                          *)
SeenBy(q) ==
  CASE q.op \in {"status", "cancel", "cancelling", "pay", "assign"} -> q.from
    [] q.op = "release" -> "PICKING_UP"
    [] q.op = "refunding" /\ q.cancelled -> "CANCELLED"

Works(r, o) ==
  \/ /\ req[r].op \in {"status", "cancel", "cancelling", "pay", "assign", "release"}
     /\ req[r].order = o
  \/ /\ req[r].op = "refunding" /\ req[r].cancelled
     /\ pay[req[r].payment].order = o

Overtaken(o) ==
  \E r \in Requests :
    /\ Works(r, o)
    /\ SeenBy(req[r]) # orderStatus[o]
    /\ ~(SeenBy(req[r]) = "PENDING" /\ orderStatus[o] = "CONFIRMED")

(* However many requests overlap, an order leaves its life cycle only by   *)
(* the late write of a request that read it in a status it has left since. *)
Lifecycle == INSTANCE OrderLifecycle WITH
               status <- orderStatus, First <- "PENDING",
               Exceptions <- {<<"PICKING_UP", "CANCELLED">>, <<"DELIVERING", "CANCELLED">>,
                              <<"PICKING_UP", "READY">>},
               loose <- {o \in Orders : Overtaken(o)}
LifecycleSpec == Lifecycle!Spec

(* A request has added up, or looked for, refunds that are not all there   *)
(* are by now.                                                             *)
Miscounted(p) ==
  \E r \in Requests :
    \/ req[r].op = "cancelling" /\ req[r].refund = p /\ req[r].rows # refunds[p].rows
    \/ HoldsPayment(r, p) /\ req[r].before # Refunded(p)

(* However many requests overlap, completed and pending refunds of a       *)
(* payment exceed it only by a request that counted them before another    *)
(* one's were stored: a cancellation beside a refund or a cancellation.    *)
RefundsWithinPayment ==
  [][\A p \in Payments :
       Refunded(p) <= Amount /\ ~Miscounted(p) => Refunded(p)' <= Amount]_vars

-----------------------------------------------------------------------------
(***************************************************************************)
(* What the repository's financial contract says and the code does not     *)
(* keep: each is the property of a run that refutes it.                    *)
(***************************************************************************)

(* Orders take the transitions the contract lists and no others (contract, *)
(* 4): a cancelled order can only become refunded, and none leaves         *)
(* PICKING_UP but for DELIVERING.                                          *)
Contract == INSTANCE OrderLifecycle WITH
              status <- orderStatus, First <- "PENDING", Exceptions <- {}, loose <- {}
ContractSpec == Contract!Spec

(* A request that finds the order in one of the statuses from which a      *)
(* cancellation is a full refund of a completed payment (contract, 5), and *)
(* cancels it.                                                             *)
Cancels(r) ==
  /\ req[r].op = "cancelling" \/ (req[r].op = "status" /\ req[r].to = "CANCELLED")
  /\ req[r].from \in {"CONFIRMED", "PREPARING", "READY"}
  /\ orderStatus[req[r].order] # "CANCELLED"
  /\ orderStatus'[req[r].order] = "CANCELLED"
  /\ req'[r] = Idle

(* It leaves refunds for all of the payment, also at the status endpoint.  *)
CancelledWithRefund ==
  [][\A r \in Requests : Cancels(r) =>
       \A p \in CompletedOf(req[r].order) : Refunded(p)' >= Amount]_vars

(* A success delivered twice is one payment transition (contract, 9): when *)
(* the gateway is told "duplicate" the payment has been collected.         *)
DuplicateWasCollected == \A p \in repeated : HasMoney(p)
=============================================================================
