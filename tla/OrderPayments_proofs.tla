------------------------- MODULE OrderPayments_proofs -------------------------
(***************************************************************************)
(* Proofs about OrderPayments, for every set of orders, payments, requests *)
(* and keys, and every order total.                                        *)
(***************************************************************************)
EXTENDS OrderPayments, TLAPS, FiniteSetTheorems

(* A refund in flight works on a payment row that exists: rows are never   *)
(* deleted.  Without it TypeOK alone is not inductive.                     *)
RefundHolds ==
  \A r \in Requests :
    req[r].op \in {"refund", "refunding"} => Exists(req[r].payment)

(* What the kind of a request says about the rest of its record.           *)
LEMMA RequestFields ==
  ASSUME TypeOK, NEW r \in Requests
  PROVE  /\ req[r].op = "status" =>
              /\ req[r].order \in Orders /\ req[r].from \in OrderStatus
              /\ req[r].to \in OrderStatus
         /\ req[r].op = "cancel" =>
              req[r].order \in Orders /\ req[r].from \in OrderStatus
         /\ req[r].op = "cancelling" =>
              /\ req[r].order \in Orders /\ req[r].from \in OrderStatus
              /\ req[r].refund \in Payments \cup {None} /\ req[r].rows \in Nat
         /\ req[r].op = "pay" =>
              /\ req[r].order \in Orders /\ req[r].from \in OrderStatus
              /\ req[r].method \in Methods /\ req[r].key \in PayKeys
         /\ req[r].op \in {"keyed", "refund", "refunding"} =>
              /\ req[r].payment \in Payments /\ req[r].amount \in Nat
              /\ req[r].key \in RefundKeys
         /\ req[r].op \in {"refund", "refunding"} => req[r].before \in Nat
         /\ req[r].op = "refunding" =>
              req[r].full \in BOOLEAN /\ req[r].cancelled \in BOOLEAN
         /\ req[r].op = "assign" =>
              req[r].order \in Orders /\ req[r].from \in OrderStatus
         /\ req[r].op = "release" => req[r].order \in Orders
  BY DEF TypeOK, Request, Idle

(* No transition of the table leads back to PENDING.                       *)
LEMMA TransitionTargets ==
  ASSUME NEW s \in OrderStatus, NEW to \in AllowedTransitions(s)
  PROVE  to \in OrderStatus /\ to # "PENDING"
  BY DEF AllowedTransitions, OrderStatus

-----------------------------------------------------------------------------
(* Type correctness, action by action.                                     *)

(* The initial state has the types.                                        *)
LEMMA InitType == Init => TypeOK
  BY DEF Init, TypeOK, OrderStatus, Request, RefundSums

(* Ending a request keeps the type of req.                                 *)
LEMMA IdleType ==
  ASSUME TypeOK, NEW r \in Requests, Ends(r)
  PROVE  req' \in [Requests -> Request] /\ repeated' = repeated
  BY DEF TypeOK, Ends, Request

(* The steps of POST /orders/{id}/status and /cancel keep the types.       *)
LEMMA OrderRequestType ==
  ASSUME TypeOK, NEW r \in Requests, OrderRequest(r)
  PROVE  TypeOK'
<1>1. ASSUME NEW o \in Orders, NEW role \in Roles, NEW to \in OrderStatus,
             ReadForStatus(r, o, to, role)
      PROVE  TypeOK'
  BY <1>1 DEF ReadForStatus, Starts, TypeOK, Request, stored
<1>2. ASSUME NEW o \in Orders, NEW role \in Roles, ReadForCancel(r, o, role)
      PROVE  TypeOK'
  BY <1>2 DEF ReadForCancel, Starts, TypeOK, Request, stored
<1>3. CASE CommitStatus(r)
  BY <1>3, RequestFields, IdleType DEF CommitStatus, TypeOK
<1>4. CASE ReadPaymentForCancel(r)
  <2>1. PICK x \in Payments \cup {None} :
          req' = [req EXCEPT ![r] =
            [op |-> "cancelling", order |-> req[r].order, from |-> req[r].from,
             refund |-> x, rows |-> IF x = None THEN 0 ELSE refunds[x].rows]]
    BY <1>4 DEF ReadPaymentForCancel, stored
  <2>2. (IF x = None THEN 0 ELSE refunds[x].rows) \in Nat
    BY <2>1 DEF TypeOK, RefundSums
  <2>3. req' \in [Requests -> Request]
    BY <1>4, <2>1, <2>2, RequestFields DEF ReadPaymentForCancel, TypeOK, Request, stored
  <2> QED
    BY <1>4, <2>3 DEF ReadPaymentForCancel, TypeOK, stored
<1>5. CASE CommitCancel(r)
  BY <1>5, RequestFields, IdleType, AmountAssumption
     DEF CommitCancel, TypeOK, OrderStatus, RefundSums
<1> QED
  BY <1>1, <1>2, <1>3, <1>4, <1>5 DEF OrderRequest

(* The steps of POST /payments and /payments/refund keep the types.        *)
LEMMA PaymentRequestType ==
  ASSUME TypeOK, RefundHolds, NEW r \in Requests, PaymentRequest(r)
  PROVE  TypeOK'
<1>1. ASSUME NEW o \in Orders, NEW m \in Methods, NEW k \in PayKeys,
             ReadForPayment(r, o, m, k)
      PROVE  TypeOK'
  BY <1>1 DEF ReadForPayment, Starts, TypeOK, Request, stored
<1>2. ASSUME NEW p \in Payments, CommitPayment(r, p)
      PROVE  TypeOK'
  <2>1. [order |-> req[r].order, method |-> req[r].method,
         status |-> IF req[r].method = "CASH_ON_DELIVERY"
                      THEN "PENDING" ELSE "PROCESSING"] \in PaymentRow
    BY <1>2, RequestFields DEF CommitPayment, PaymentRow, PaymentStatus
  <2> QED
    BY <1>2, <2>1, RequestFields, IdleType DEF CommitPayment,
       StatusWhenCreated, TypeOK, OrderStatus
<1>3. ASSUME NEW p \in Payments, NEW a \in 1..Amount, NEW k \in RefundKeys,
             LookUpRefundKey(r, p, a, k)
      PROVE  TypeOK'
  BY <1>3, AmountAssumption DEF LookUpRefundKey, Starts, TypeOK, Request, stored
<1>3a. CASE LockForRefund(r)
  <2>1. Refunded(req[r].payment) \in Nat
    BY <1>3a, RequestFields DEF LockForRefund, Refunded, TypeOK, RefundSums, stored
  <2> QED
    BY <1>3a, <2>1, RequestFields DEF LockForRefund, TypeOK, Request, stored
<1>4. CASE ReadOrderForRefund(r)
  <2> DEFINE full == Completes(req[r].before, req[r].amount)
             cancelled == full /\ orderStatus[pay[req[r].payment].order] = "CANCELLED"
  <2>1. full \in BOOLEAN /\ cancelled \in BOOLEAN
    BY DEF Completes
  <2>2. /\ req[r].payment \in Payments /\ req[r].amount \in Nat
        /\ req[r].key \in RefundKeys /\ req[r].before \in Nat
    BY <1>4, RequestFields DEF ReadOrderForRefund, stored
  <2>3. req' = [req EXCEPT ![r] =
          [op |-> "refunding", payment |-> req[r].payment, amount |-> req[r].amount,
           key |-> req[r].key, before |-> req[r].before, full |-> full,
           cancelled |-> cancelled]]
    BY <1>4 DEF ReadOrderForRefund, stored
  <2> HIDE DEF full, cancelled
  <2>4. req' \in [Requests -> Request]
    BY <2>1, <2>2, <2>3 DEF TypeOK, Request
  <2> QED
    BY <1>4, <2>4 DEF ReadOrderForRefund, TypeOK, stored
<1>5. CASE CommitRefund(r)
  <2> DEFINE p == req[r].payment
  <2>1. p \in Payments /\ req[r].amount \in Nat /\ req[r].key \in RefundKeys
    BY <1>5, RequestFields DEF CommitRefund
  <2>2. pay' \in [Payments -> PaymentRow \cup {None}]
    <3>1. pay[p] \in PaymentRow
      BY <1>5, <2>1 DEF CommitRefund, RefundHolds, Exists, TypeOK
    <3>2. [pay[p] EXCEPT !.status = "REFUNDED"] \in PaymentRow
      BY <3>1 DEF PaymentRow, PaymentStatus
    <3> QED
      BY <1>5, <2>1, <3>2 DEF CommitRefund, TypeOK
  <2>3. orderStatus' \in [Orders -> OrderStatus]
    BY <1>5 DEF CommitRefund, TypeOK, OrderStatus
  <2>4. refunds' \in [Payments -> RefundSums]
    BY <1>5, <2>1 DEF CommitRefund, TypeOK, RefundSums
  <2>5. refundIdem' \in [RefundKeys -> RefundRecord \cup {None}]
    BY <1>5, <2>1 DEF CommitRefund, TypeOK, RefundRecord
  <2> QED
    BY <1>5, <2>2, <2>3, <2>4, <2>5, IdleType DEF CommitRefund, TypeOK
<1> QED
  BY <1>1, <1>2, <1>3, <1>3a, <1>4, <1>5 DEF PaymentRequest

(* The steps that give an order to a driver and back keep the types.       *)
LEMMA DispatchRequestType ==
  ASSUME TypeOK, NEW r \in Requests, DispatchRequest(r)
  PROVE  TypeOK'
<1>1. ASSUME NEW o \in Orders, NEW again \in BOOLEAN, ReadForAssign(r, o, again)
      PROVE  TypeOK'
  BY <1>1 DEF ReadForAssign, Starts, TypeOK, Request, stored
<1>2. ASSUME NEW o \in Orders, ReadForRelease(r, o)
      PROVE  TypeOK'
  BY <1>2 DEF ReadForRelease, Starts, TypeOK, Request, stored
<1>3. CASE CommitAssign(r)
  BY <1>3, RequestFields, IdleType DEF CommitAssign, TypeOK, OrderStatus
<1>4. CASE CommitRelease(r)
  BY <1>4, RequestFields, IdleType DEF CommitRelease, TypeOK, OrderStatus
<1> QED
  BY <1>1, <1>2, <1>3, <1>4 DEF DispatchRequest

(* The gateway callbacks keep the types.                                   *)
LEMMA WebhookType ==
  ASSUME TypeOK, Webhook
  PROVE  TypeOK'
<1>1. ASSUME NEW p \in Payments, NEW n \in TxnNos, WebhookSuccess(p, n)
      PROVE  TypeOK'
  <2>1. events' \in [Events -> EventRow \cup {None}]
    BY <1>1 DEF WebhookSuccess, Records, EventRow, TypeOK
  <2> QED
    BY <1>1, <2>1 DEF WebhookSuccess, Delivers, Exists, TypeOK, PaymentRow, PaymentStatus,
                      OrderStatus
<1>2. ASSUME NEW p \in Payments, NEW code \in BOOLEAN, NEW n \in TxnNos,
             WebhookFailure(p, code, n)
      PROVE  TypeOK'
  <2>1. events' \in [Events -> EventRow \cup {None}]
    BY <1>2 DEF WebhookFailure, Records, EventRow, TypeOK
  <2> QED
    BY <1>2, <2>1 DEF WebhookFailure, Delivers, Exists, TypeOK, PaymentRow, PaymentStatus
<1>3. ASSUME NEW p \in Payments, NEW code \in BOOLEAN, NEW n \in TxnNos,
             WebhookRefused(p, code, n)
      PROVE  TypeOK'
  <2>1. events' \in [Events -> EventRow \cup {None}]
    BY <1>3 DEF WebhookRefused, Records, EventRow, TypeOK
  <2> QED
    BY <1>3, <2>1 DEF WebhookRefused, TypeOK
<1>4. ASSUME NEW p \in Payments, NEW n \in TxnNos, WebhookDuplicate(p, n)
      PROVE  TypeOK'
  BY <1>4 DEF WebhookDuplicate, TypeOK, stored
<1> QED
  BY <1>1, <1>2, <1>3, <1>4 DEF Webhook

(* Every step keeps the types.                                             *)
LEMMA NextType == TypeOK /\ RefundHolds /\ [Next]_vars => TypeOK'
<1> SUFFICES ASSUME TypeOK, RefundHolds, [Next]_vars PROVE TypeOK'
  OBVIOUS
<1>1. ASSUME NEW r \in Requests, Rollback(r) PROVE TypeOK'
  BY <1>1, IdleType DEF Rollback, TypeOK, stored
<1>2. CASE UNCHANGED vars
  BY <1>2 DEF vars, TypeOK, stored
<1> QED
  BY <1>1, <1>2, OrderRequestType, PaymentRequestType, DispatchRequestType,
     WebhookType DEF Next

-----------------------------------------------------------------------------
(***************************************************************************)
(* The inductive invariant.  A refund in flight decided on sums it read    *)
(* under the payment's lock: what it decided is still true when it         *)
(* commits, because nobody else holds that lock (LockExclusive) and        *)
(* nothing but a lock holder adds a completed refund.  Pending refunds may *)
(* have been added meanwhile, so only a lower bound of the total survives. *)
(* One that has only looked its key up has decided nothing.                *)
(***************************************************************************)
LockExclusive ==
  \A r, s \in Requests, p \in Payments : HoldsPayment(r, p) /\ HoldsPayment(s, p) => r = s

SoundRefund(r) ==
  LET p == req[r].payment
  IN /\ HasMoney(p)
     /\ req[r].amount > 0
     /\ refunds[p].done <= req[r].before /\ req[r].before <= Refunded(p)
     /\ req[r].before + req[r].amount <= Amount
     /\ req[r].op = "refunding" /\ req[r].full => req[r].before + req[r].amount >= Amount

RefundInFlight ==
  \A r \in Requests : req[r].op \in {"refund", "refunding"} => SoundRefund(r)

(* No request in flight will write PENDING.                                *)
StatusTarget == \A r \in Requests : req[r].op = "status" => req[r].to # "PENDING"

Inv ==
  /\ TypeOK
  /\ LockExclusive
  /\ RefundInFlight
  /\ StatusTarget
  /\ CollectedIffEvent
  /\ RefundedIsCovered
  /\ PaymentsKeyed
  /\ PaidOrderConfirmed

(* A refund in flight works on a payment row that exists.                  *)
LEMMA RefundsHold == RefundInFlight => RefundHolds
  BY DEF RefundInFlight, RefundHolds, SoundRefund, HasMoney

(* The steps that touch payments, refunds, events or payment keys.         *)
LEMMA MoneySteps ==
  ASSUME [Next]_vars
  PROVE  \/ \E r \in Requests, p \in Payments : CommitPayment(r, p)
         \/ \E r \in Requests : CommitRefund(r)
         \/ \E r \in Requests : CommitCancel(r)
         \/ \E p \in Payments, n \in TxnNos : WebhookSuccess(p, n)
         \/ \E p \in Payments, code \in BOOLEAN, n \in TxnNos : WebhookFailure(p, code, n)
         \/ /\ UNCHANGED <<pay, refunds, payIdem>>
            /\ \/ UNCHANGED events
               \/ \E p \in Payments, code \in BOOLEAN, n \in TxnNos :
                    WebhookRefused(p, code, n)
<1>1. ASSUME NEW r \in Requests, OrderRequest(r)
      PROVE  CommitCancel(r) \/ UNCHANGED <<pay, refunds, events, payIdem>>
  BY <1>1 DEF OrderRequest, ReadForStatus, CommitStatus, ReadForCancel,
              ReadPaymentForCancel, stored
<1>2. ASSUME NEW r \in Requests, PaymentRequest(r)
      PROVE  \/ \E p \in Payments : CommitPayment(r, p)
             \/ CommitRefund(r)
             \/ UNCHANGED <<pay, refunds, events, payIdem>>
  BY <1>2 DEF PaymentRequest, ReadForPayment, LookUpRefundKey, LockForRefund,
              ReadOrderForRefund, stored
<1>3. ASSUME NEW r \in Requests, DispatchRequest(r) \/ Rollback(r)
      PROVE  UNCHANGED <<pay, refunds, events, payIdem>>
  BY <1>3 DEF DispatchRequest, ReadForAssign, CommitAssign, ReadForRelease,
              CommitRelease, Rollback, stored
<1>4. ASSUME NEW p \in Payments, NEW code \in BOOLEAN, NEW n \in TxnNos,
             WebhookRefused(p, code, n)
      PROVE  UNCHANGED <<pay, refunds, payIdem>>
  BY <1>4 DEF WebhookRefused
<1>5. ASSUME NEW p \in Payments, NEW n \in TxnNos, WebhookDuplicate(p, n)
      PROVE  UNCHANGED <<pay, refunds, events, payIdem>>
  BY <1>5 DEF WebhookDuplicate, stored
<1>6. CASE UNCHANGED vars
  BY <1>6 DEF vars, stored
<1> QED
  BY <1>1, <1>2, <1>3, <1>4, <1>5, <1>6 DEF Next, Webhook

(* A callback is no request, and waits for none to be read.                *)
LEMMA WebhookAlone == Webhook => UNCHANGED <<req, hasDriver, refunds, payIdem, refundIdem>>
  BY DEF Webhook, WebhookSuccess, WebhookFailure, WebhookRefused, WebhookDuplicate, stored

(* The steps after which a request holds a lock it did not hold before in  *)
(* the same way.                                                           *)
LEMMA LockSteps ==
  ASSUME TypeOK, [Next]_vars, NEW s \in Requests,
         req'[s].op \in {"refund", "refunding"}, req'[s] # req[s]
  PROVE  LockForRefund(s) \/ ReadOrderForRefund(s)
<1>1. ASSUME NEW r \in Requests, OrderRequest(r) PROVE FALSE
  BY <1>1 DEF OrderRequest, ReadForStatus, CommitStatus, ReadForCancel, Starts, Ends,
              ReadPaymentForCancel, CommitCancel, Idle, TypeOK, stored
<1>2. ASSUME NEW r \in Requests, PaymentRequest(r)
      PROVE  LockForRefund(s) \/ ReadOrderForRefund(s)
  <2>1. ASSUME NEW o \in Orders, NEW m \in Methods, NEW k \in PayKeys,
               ReadForPayment(r, o, m, k)
        PROVE  FALSE
    BY <2>1 DEF ReadForPayment, Starts, TypeOK, stored
  <2>2. ASSUME NEW p \in Payments, CommitPayment(r, p) PROVE FALSE
    BY <2>2 DEF CommitPayment, Ends, Idle, TypeOK
  <2>3. ASSUME NEW p \in Payments, NEW a \in 1..Amount, NEW k \in RefundKeys,
               LookUpRefundKey(r, p, a, k)
        PROVE  FALSE
    BY <2>3 DEF LookUpRefundKey, Starts, TypeOK, stored
  <2>4. CASE LockForRefund(r) \/ ReadOrderForRefund(r)
    BY <2>4 DEF LockForRefund, ReadOrderForRefund, TypeOK, stored
  <2>5. CASE CommitRefund(r)
    BY <2>5 DEF CommitRefund, Ends, Idle, TypeOK
  <2> QED
    BY <1>2, <2>1, <2>2, <2>3, <2>4, <2>5 DEF PaymentRequest
<1>3. ASSUME NEW r \in Requests, DispatchRequest(r) \/ Rollback(r) PROVE FALSE
  BY <1>3 DEF DispatchRequest, ReadForAssign, CommitAssign, ReadForRelease,
              CommitRelease, Rollback, Starts, Ends, Idle, TypeOK, stored
<1>4. CASE Webhook \/ UNCHANGED vars
  BY <1>4, WebhookAlone DEF vars, stored
<1> QED
  BY <1>1, <1>2, <1>3, <1>4 DEF Next

(* What a step does to money: a row stays, keeps its order and, once money *)
(* was collected, keeps it; refunds only grow.                             *)
MoneyGrows(p) ==
  /\ Exists(p) => Exists(p)' /\ pay'[p].order = pay[p].order
  /\ HasMoney(p) => HasMoney(p)'
  /\ refunds'[p].done >= refunds[p].done
  /\ refunds'[p].open >= refunds[p].open

(* Collected payments stay collected, refund sums only grow.               *)
LEMMA MoneyMonotone ==
  ASSUME Inv, [Next]_vars, NEW p \in Payments
  PROVE  MoneyGrows(p)
<1> USE DEF MoneyGrows
<1>0. TypeOK
  BY DEF Inv
<1>1. refunds[p].done \in Nat /\ refunds[p].open \in Nat
  BY <1>0 DEF TypeOK, RefundSums
<1>2. ASSUME NEW r \in Requests, NEW q \in Payments, CommitPayment(r, q)
      PROVE  MoneyGrows(p)
  BY <1>0, <1>1, <1>2 DEF CommitPayment, Exists, HasMoney, TypeOK
<1>3. ASSUME NEW r \in Requests, CommitRefund(r)
      PROVE  MoneyGrows(p)
  <2> DEFINE q == req[r].payment
  <2>1. q \in Payments /\ req[r].amount \in Nat
    BY <1>0, <1>3, RequestFields DEF CommitRefund
  <2>2. pay[q] \in PaymentRow
    BY <1>0, <1>3, <2>1 DEF CommitRefund, Inv, RefundInFlight, SoundRefund, HasMoney,
                            Exists, TypeOK
  <2>3. [pay[q] EXCEPT !.status = "REFUNDED"] \in PaymentRow
    BY <2>2 DEF PaymentRow, PaymentStatus
  <2>4. [pay[q] EXCEPT !.status = "REFUNDED"] # None
    BY <2>3, NoneAssumption
  <2>5. pay'[p] = IF req[r].full /\ p = q THEN [pay[q] EXCEPT !.status = "REFUNDED"]
                                          ELSE pay[p]
    BY <1>0, <1>3, <2>1 DEF CommitRefund, TypeOK
  <2>6. refunds'[p].done >= refunds[p].done /\ refunds'[p].open >= refunds[p].open
    BY <1>0, <1>1, <1>3, <2>1 DEF CommitRefund, TypeOK
  <2> QED
    BY <2>2, <2>4, <2>5, <2>6 DEF Exists, HasMoney, PaymentRow
<1>4. ASSUME NEW r \in Requests, CommitCancel(r)
      PROVE  MoneyGrows(p)
  BY <1>0, <1>1, <1>4, RequestFields, AmountAssumption
     DEF CommitCancel, Exists, HasMoney, TypeOK
<1>5. ASSUME NEW q \in Payments, NEW n \in TxnNos, WebhookSuccess(q, n)
      PROVE  MoneyGrows(p)
  <2>1. pay[q] \in PaymentRow
    BY <1>0, <1>5 DEF WebhookSuccess, Delivers, Exists, TypeOK
  <2>2. [pay[q] EXCEPT !.status = "COMPLETED"] \in PaymentRow
    BY <2>1 DEF PaymentRow, PaymentStatus
  <2>3. pay'[p] = IF p = q THEN [pay[q] EXCEPT !.status = "COMPLETED"] ELSE pay[p]
    BY <1>0, <1>5 DEF WebhookSuccess, TypeOK
  <2>4. UNCHANGED refunds
    BY <1>5 DEF WebhookSuccess
  <2> QED
    BY <1>1, <2>1, <2>2, <2>3, <2>4, NoneAssumption DEF Exists, HasMoney, PaymentRow
<1>6. ASSUME NEW q \in Payments, NEW code \in BOOLEAN, NEW n \in TxnNos,
             WebhookFailure(q, code, n)
      PROVE  MoneyGrows(p)
  <2>1. pay[q] \in PaymentRow
    BY <1>0, <1>6 DEF WebhookFailure, Delivers, Exists, TypeOK
  <2>2. [pay[q] EXCEPT !.status = "FAILED"] \in PaymentRow
    BY <2>1 DEF PaymentRow, PaymentStatus
  <2>3. pay'[p] = IF p = q /\ pay[q].status \notin {"COMPLETED", "REFUNDED"}
                    THEN [pay[q] EXCEPT !.status = "FAILED"] ELSE pay[p]
    BY <1>0, <1>6 DEF Settled, WebhookFailure, TypeOK
  <2>4. UNCHANGED refunds
    BY <1>6 DEF WebhookFailure
  <2> QED
    BY <1>1, <2>1, <2>2, <2>3, <2>4, NoneAssumption DEF Exists, HasMoney, PaymentRow
<1>7. CASE UNCHANGED <<pay, refunds, payIdem>>
  BY <1>1, <1>7 DEF Exists, HasMoney
<1> QED
  BY <1>2, <1>3, <1>4, <1>5, <1>6, <1>7, MoneySteps

(* Completed refunds of a payment change by the commit of a lock holder.   *)
LEMMA DoneByHolder ==
  ASSUME Inv, [Next]_vars, NEW p \in Payments, refunds'[p].done # refunds[p].done
  PROVE  \E r \in Requests : CommitRefund(r) /\ HoldsPayment(r, p)
<1>0. TypeOK
  BY DEF Inv
<1>1. ASSUME NEW r \in Requests, NEW q \in Payments, CommitPayment(r, q) PROVE FALSE
  BY <1>1 DEF CommitPayment
<1>2. ASSUME NEW r \in Requests, CommitRefund(r) PROVE HoldsPayment(r, p)
  BY <1>0, <1>2, RequestFields DEF CommitRefund, HoldsPayment, TypeOK
<1>3. ASSUME NEW r \in Requests, CommitCancel(r) PROVE FALSE
  BY <1>0, <1>3, RequestFields DEF CommitCancel, TypeOK
<1>4. ASSUME NEW q \in Payments, NEW code \in BOOLEAN, NEW n \in TxnNos,
             WebhookSuccess(q, n) \/ WebhookFailure(q, code, n)
      PROVE  FALSE
  BY <1>4 DEF WebhookSuccess, WebhookFailure
<1> QED
  BY <1>1, <1>2, <1>3, <1>4, MoneySteps

-----------------------------------------------------------------------------
(* Each conjunct of the invariant is preserved.                            *)

(* The invariant holds initially.                                          *)
LEMMA InitInv == Init => Inv
<1> SUFFICES ASSUME Init PROVE Inv
  OBVIOUS
<1>1. \A r \in Requests : req[r].op = "idle"
  BY DEF Init, Idle
<1>2. \A p \in Payments : ~Exists(p)
  BY DEF Init, Exists
<1>3. \A p \in Payments, n \in TxnNos : events[<<p, TRUE, n>>] = None
  BY DEF Init, Events
<1>4. \A k \in PayKeys : payIdem[k] = None
  BY DEF Init
<1>5. \A p \in Payments : p # None
  BY NoneAssumption
<1>6. LockExclusive /\ RefundInFlight /\ StatusTarget
  BY <1>1 DEF LockExclusive, HoldsPayment, RefundInFlight, StatusTarget
<1>7. CollectedIffEvent /\ RefundedIsCovered /\ PaidOrderConfirmed
  BY <1>2, <1>3 DEF CollectedIffEvent, RefundedIsCovered, PaidOrderConfirmed, HasMoney
<1>8. PaymentsKeyed
  BY <1>2, <1>4, <1>5 DEF PaymentsKeyed
<1> QED
  BY <1>6, <1>7, <1>8, InitType DEF Inv

(* Two refunds never hold the same payment row.                            *)
LEMMA NextLockExclusive == Inv /\ [Next]_vars => LockExclusive'
<1> SUFFICES ASSUME Inv, [Next]_vars,
                    NEW r \in Requests, NEW s \in Requests, NEW p \in Payments,
                    HoldsPayment(r, p)', HoldsPayment(s, p)'
             PROVE  r = s
  BY DEF LockExclusive
<1>0. TypeOK /\ LockExclusive
  BY DEF Inv
<1>1. ASSUME NEW t \in Requests, HoldsPayment(t, p)'
      PROVE  \/ HoldsPayment(t, p)
             \/ /\ \A u \in Requests : ~HoldsPayment(u, p)
                /\ \A u \in Requests \ {t} : req'[u] = req[u]
  <2>1. CASE req'[t] = req[t]
    BY <1>1, <2>1 DEF HoldsPayment
  <2>2. ASSUME LockForRefund(t)
        PROVE  /\ \A u \in Requests : ~HoldsPayment(u, p)
               /\ \A u \in Requests \ {t} : req'[u] = req[u]
    BY <1>0, <1>1, <2>2 DEF LockForRefund, Locked, HoldsPayment, TypeOK, stored
  <2>3. CASE ReadOrderForRefund(t)
    BY <1>0, <1>1, <2>3 DEF ReadOrderForRefund, HoldsPayment, TypeOK, stored
  <2> QED
    BY <1>0, <1>1, <2>1, <2>2, <2>3, LockSteps DEF HoldsPayment
<1>2. CASE HoldsPayment(r, p) /\ HoldsPayment(s, p)
  BY <1>0, <1>2 DEF LockExclusive
<1> QED
  BY <1>1, <1>2 DEF HoldsPayment

(* What a refund in flight decided still holds until it commits.           *)
LEMMA NextRefundInFlight == Inv /\ [Next]_vars => RefundInFlight'
<1> SUFFICES ASSUME Inv, [Next]_vars, NEW r \in Requests,
                    req'[r].op \in {"refund", "refunding"}
             PROVE  SoundRefund(r)'
  BY DEF RefundInFlight
<1>0. TypeOK /\ LockExclusive /\ RefundInFlight
  BY DEF Inv
<1>1. TypeOK'
  BY NextType, RefundsHold DEF Inv
<1>2. PICK p \in Payments : /\ p = req'[r].payment /\ req'[r].amount \in Nat
                            /\ req'[r].before \in Nat
  BY <1>1 DEF TypeOK, Request, Idle
<1>3. /\ refunds[p].done \in Nat /\ refunds'[p].done \in Nat
      /\ refunds[p].open \in Nat /\ refunds'[p].open \in Nat
  BY <1>0, <1>1, <1>2 DEF TypeOK, RefundSums
<1>4. MoneyGrows(p)
  BY <1>2, MoneyMonotone
<1>5. CASE req'[r] = req[r]
  <2>1. SoundRefund(r) /\ HoldsPayment(r, p)
    BY <1>0, <1>2, <1>5 DEF RefundInFlight, HoldsPayment
  <2>2. refunds'[p].done = refunds[p].done
    <3>1. SUFFICES ASSUME NEW s \in Requests, CommitRefund(s), HoldsPayment(s, p)
                   PROVE  FALSE
      BY <1>2, DoneByHolder
    <3>2. s = r
      BY <1>0, <1>2, <2>1, <3>1 DEF LockExclusive
    <3> QED
      BY <1>0, <3>1, <3>2 DEF CommitRefund, Ends, Idle, TypeOK
  <2> QED
    BY <1>2, <1>3, <1>4, <1>5, <2>1, <2>2, AmountAssumption
       DEF SoundRefund, MoneyGrows, Refunded
<1>6. CASE LockForRefund(r)
  <2>1. /\ p = req[r].payment /\ req'[r].amount = req[r].amount
        /\ req'[r].before = Refunded(p) /\ req'[r].op = "refund"
    BY <1>0, <1>2, <1>6 DEF LockForRefund, TypeOK, stored
  <2>2. UNCHANGED <<pay, refunds>>
    BY <1>6 DEF LockForRefund, stored
  <2>3. /\ HasMoney(p) /\ req[r].amount > 0
        /\ Refunded(p) + req[r].amount <= Amount
    BY <1>6, <2>1 DEF LockForRefund, HasMoney, stored
  <2> QED
    BY <1>2, <1>3, <2>1, <2>2, <2>3, AmountAssumption
       DEF SoundRefund, HasMoney, Exists, Refunded
<1>7. CASE ReadOrderForRefund(r)
  <2>1. /\ req'[r].payment = req[r].payment /\ req'[r].amount = req[r].amount
        /\ req'[r].before = req[r].before
        /\ req'[r].full => req[r].before + req[r].amount >= Amount
    BY <1>0, <1>7 DEF ReadOrderForRefund, Completes, TypeOK, stored
  <2>2. UNCHANGED <<pay, refunds>>
    BY <1>7 DEF ReadOrderForRefund, stored
  <2>3. SoundRefund(r)
    BY <1>0, <1>7 DEF ReadOrderForRefund, RefundInFlight, stored
  <2> QED
    BY <2>1, <2>2, <2>3 DEF SoundRefund, HasMoney, Exists, Refunded
<1> QED
  BY <1>0, <1>5, <1>6, <1>7, LockSteps

(* No request in flight is about to write PENDING to an order.             *)
LEMMA NextStatusTarget == Inv /\ [Next]_vars => StatusTarget'
<1> SUFFICES ASSUME Inv, [Next]_vars, NEW r \in Requests, req'[r].op = "status"
             PROVE  req'[r].to # "PENDING"
  BY DEF StatusTarget
<1>0. TypeOK /\ StatusTarget
  BY DEF Inv
<1>1. ASSUME NEW s \in Requests, OrderRequest(s) PROVE req'[r].to # "PENDING"
  <2>1. ASSUME NEW o \in Orders, NEW role \in Roles, NEW to \in OrderStatus,
               ReadForStatus(s, o, to, role)
        PROVE  req'[r].to # "PENDING"
    <3>1. to # "PENDING"
      BY <1>0, <2>1, TransitionTargets DEF ReadForStatus, TypeOK, stored
    <3> QED
      BY <1>0, <2>1, <3>1 DEF ReadForStatus, Starts, TypeOK, StatusTarget, stored
  <2>2. ASSUME NEW o \in Orders, NEW role \in Roles, ReadForCancel(s, o, role)
        PROVE  req'[r].to # "PENDING"
    BY <1>0, <2>2 DEF ReadForCancel, Starts, TypeOK, StatusTarget, stored
  <2>3. CASE CommitStatus(s) \/ CommitCancel(s)
    BY <1>0, <2>3 DEF CommitStatus, CommitCancel, Ends, Idle, TypeOK, StatusTarget
  <2>4. CASE ReadPaymentForCancel(s)
    BY <1>0, <2>4 DEF ReadPaymentForCancel, TypeOK, StatusTarget, stored
  <2> QED
    BY <1>1, <2>1, <2>2, <2>3, <2>4 DEF OrderRequest
<1>2. ASSUME NEW s \in Requests, PaymentRequest(s) PROVE req'[r] = req[r]
  BY <1>0, <1>2 DEF PaymentRequest, ReadForPayment, CommitPayment, LookUpRefundKey,
     LockForRefund, ReadOrderForRefund, CommitRefund, Starts, Ends, Idle, TypeOK, stored
<1>3. ASSUME NEW s \in Requests, DispatchRequest(s) \/ Rollback(s)
      PROVE  req'[r] = req[r]
  BY <1>0, <1>3 DEF DispatchRequest, ReadForAssign, CommitAssign, ReadForRelease,
     CommitRelease, Rollback, Starts, Ends, Idle, TypeOK, stored
<1>4. CASE Webhook \/ UNCHANGED vars
  BY <1>0, <1>4, WebhookAlone DEF vars, StatusTarget, stored
<1> QED
  BY <1>0, <1>1, <1>2, <1>3, <1>4 DEF Next, StatusTarget

(* A payment is collected in the step that stores a verified success; what *)
(* is stored stays, and no callback is stored under an id that is taken.   *)
LEMMA NextCollectedIffEvent == Inv /\ [Next]_vars => CollectedIffEvent'
<1> DEFINE Success(e) == events[e] # None /\ events[e].report = "success"
           Collected(x) == \E n \in TxnNos : Success(<<x, TRUE, n>>)
<1> SUFFICES ASSUME Inv, [Next]_vars, NEW p \in Payments
             PROVE  (HasMoney(p) <=> Collected(p))'
  BY DEF CollectedIffEvent
<1>0. TypeOK /\ CollectedIffEvent
  BY DEF Inv
<1>1. HasMoney(p) <=> Collected(p)
  BY <1>0 DEF CollectedIffEvent
<1>2. HasMoney(p) => HasMoney(p)'
  BY MoneyMonotone DEF MoneyGrows
<1>3. ASSUME UNCHANGED events PROVE Collected(p)' <=> Collected(p)
  BY <1>3
<1>4. ASSUME NEW q \in Payments, NEW code \in BOOLEAN, NEW n \in TxnNos, NEW s, NEW report,
             events[<<q, code, n>>] = None, Records(q, code, n, s, report),
             [status |-> s, report |-> report] \in EventRow
      PROVE  /\ report # "success" => (Collected(p)' <=> Collected(p))
             /\ p # q => (Collected(p)' <=> Collected(p))
             /\ report = "success" /\ p = q /\ code = TRUE => Collected(p)'
  <2> DEFINE row == [status |-> s, report |-> report]
  <2>1. <<q, code, n>> \in Events /\ events' = [events EXCEPT ![<<q, code, n>>] = row]
    BY <1>4 DEF Events, Records
  <2>2. row # None /\ row.report = report
    BY <1>4, NoneAssumption
  <2> HIDE DEF row
  <2>3. \A m \in TxnNos : events'[<<p, TRUE, m>>] =
          IF p = q /\ code = TRUE /\ m = n THEN row ELSE events[<<p, TRUE, m>>]
    BY <1>0, <2>1 DEF Events, TypeOK
  <2>4. \A m \in TxnNos : Success(<<p, TRUE, m>>)' <=>
          \/ Success(<<p, TRUE, m>>)
          \/ report = "success" /\ p = q /\ code = TRUE /\ m = n
    BY <1>4, <2>2, <2>3
  <2> HIDE DEF Success
  <2> QED
    BY <2>4
<1> HIDE DEF Collected
<1>4a. ASSUME NEW q \in Payments, NEW code \in BOOLEAN, NEW n \in TxnNos, NEW s,
              NEW report \in {"failure", "refused"},
              events[<<q, code, n>>] = None, Records(q, code, n, s, report),
              [status |-> s, report |-> report] \in EventRow
       PROVE  Collected(p)' <=> Collected(p)
  <2>1. report # "success"
    OBVIOUS
  <2> QED
    BY <1>4, <1>4a, <2>1
<1>5. ASSUME NEW r \in Requests, NEW q \in Payments, CommitPayment(r, q)
      PROVE  (HasMoney(p) <=> Collected(p))'
  <2>1. UNCHANGED events
    BY <1>5 DEF CommitPayment
  <2>2. HasMoney(p)' => HasMoney(p)
    BY <1>0, <1>5 DEF StatusWhenCreated, CommitPayment, HasMoney, Exists, TypeOK
  <2> QED
    BY <1>1, <1>2, <1>3, <2>1, <2>2
<1>6. ASSUME NEW r \in Requests, CommitRefund(r)
      PROVE  (HasMoney(p) <=> Collected(p))'
  <2>1. UNCHANGED events
    BY <1>6 DEF CommitRefund
  <2>2. req[r].payment \in Payments /\ HasMoney(req[r].payment)
    BY <1>0, <1>6, RequestFields DEF CommitRefund, Inv, RefundInFlight, SoundRefund
  <2>3. HasMoney(p)' => HasMoney(p)
    BY <1>0, <1>6, <2>2 DEF CommitRefund, HasMoney, Exists, TypeOK
  <2> QED
    BY <1>1, <1>2, <1>3, <2>1, <2>3
<1>7. ASSUME NEW r \in Requests, CommitCancel(r)
      PROVE  (HasMoney(p) <=> Collected(p))'
  BY <1>1, <1>3, <1>7 DEF CommitCancel, HasMoney, Exists
<1>8. ASSUME NEW q \in Payments, NEW n \in TxnNos, WebhookSuccess(q, n)
      PROVE  (HasMoney(p) <=> Collected(p))'
  <2>1. PICK s \in {"PROCESSED", "FAILED"} :
          Records(q, TRUE, n, s, "success") /\ events[<<q, TRUE, n>>] = None
    BY <1>8 DEF WebhookSuccess, Delivers
  <2>2. [status |-> s, report |-> "success"] \in EventRow
    BY DEF EventRow
  <2>3. IF p = q THEN Collected(p)' ELSE Collected(p)' <=> Collected(p)
    BY <1>4, <2>1, <2>2
  <2>4. pay[q] \in PaymentRow
    BY <1>0, <1>8 DEF WebhookSuccess, Delivers, Exists, TypeOK
  <2>5. [pay[q] EXCEPT !.status = "COMPLETED"] \in PaymentRow
    BY <2>4 DEF PaymentRow, PaymentStatus
  <2>6. pay'[p] = IF p = q THEN [pay[q] EXCEPT !.status = "COMPLETED"] ELSE pay[p]
    BY <1>0, <1>8 DEF WebhookSuccess, TypeOK
  <2>7. p = q => HasMoney(p)'
    BY <2>4, <2>5, <2>6, NoneAssumption DEF HasMoney, Exists, PaymentRow
  <2>8. p # q => (HasMoney(p)' <=> HasMoney(p))
    BY <2>6 DEF HasMoney, Exists
  <2> QED
    BY <1>1, <2>3, <2>7, <2>8
<1>9. ASSUME NEW q \in Payments, NEW code \in BOOLEAN, NEW n \in TxnNos,
             WebhookFailure(q, code, n)
      PROVE  (HasMoney(p) <=> Collected(p))'
  <2>1. Records(q, code, n, "PROCESSED", "failure") /\ events[<<q, code, n>>] = None
    BY <1>9 DEF WebhookFailure, Delivers
  <2>2. [status |-> "PROCESSED", report |-> "failure"] \in EventRow
    BY DEF EventRow
  <2>3. Collected(p)' <=> Collected(p)
    BY <1>4a, <2>1, <2>2
  <2>4. HasMoney(p)' => HasMoney(p)
    BY <1>0, <1>9 DEF WebhookFailure, Delivers, HasMoney, Exists, TypeOK, PaymentRow
  <2> QED
    BY <1>1, <1>2, <2>3, <2>4
<1>10. ASSUME NEW q \in Payments, NEW code \in BOOLEAN, NEW n \in TxnNos,
              WebhookRefused(q, code, n)
       PROVE  (HasMoney(p) <=> Collected(p))'
  <2>1. Records(q, code, n, "FAILED", "refused") /\ events[<<q, code, n>>] = None
    BY <1>10 DEF WebhookRefused
  <2>2. [status |-> "FAILED", report |-> "refused"] \in EventRow
    BY DEF EventRow
  <2>3. Collected(p)' <=> Collected(p)
    BY <1>4a, <2>1, <2>2
  <2> QED
    BY <1>1, <1>10, <2>3 DEF WebhookRefused, HasMoney, Exists
<1>11. CASE UNCHANGED <<pay, refunds, payIdem>> /\ UNCHANGED events
  BY <1>1, <1>3, <1>11 DEF HasMoney, Exists
<1> QED
  BY <1>5, <1>6, <1>7, <1>8, <1>9, <1>10, <1>11, MoneySteps

(* REFUNDED is written together with the last refund row.                  *)
LEMMA NextRefundedIsCovered == Inv /\ [Next]_vars => RefundedIsCovered'
<1> SUFFICES ASSUME Inv, [Next]_vars, NEW p \in Payments,
                    Exists(p)', pay'[p].status = "REFUNDED"
             PROVE  Refunded(p)' >= Amount
  BY DEF RefundedIsCovered
<1>0. TypeOK /\ RefundInFlight /\ RefundedIsCovered
  BY DEF Inv
<1>1. TypeOK'
  BY NextType, RefundsHold DEF Inv
<1>2. /\ refunds[p].done \in Nat /\ refunds'[p].done \in Nat
      /\ refunds[p].open \in Nat /\ refunds'[p].open \in Nat
  BY <1>0, <1>1 DEF TypeOK, RefundSums
<1>3. CASE Exists(p) /\ pay[p].status = "REFUNDED"
  BY <1>0, <1>2, <1>3, MoneyMonotone, AmountAssumption
     DEF RefundedIsCovered, MoneyGrows, Refunded
<1>4. ASSUME ~(Exists(p) /\ pay[p].status = "REFUNDED")
      PROVE  \E r \in Requests : CommitRefund(r) /\ req[r].payment = p /\ req[r].full
  <2>1. pay'[p] # pay[p]
    BY <1>4 DEF Exists
  <2>2. ASSUME NEW r \in Requests, NEW q \in Payments, CommitPayment(r, q) PROVE FALSE
    BY <1>0, <2>1, <2>2 DEF StatusWhenCreated, CommitPayment, TypeOK
  <2>3. ASSUME NEW r \in Requests, CommitRefund(r)
        PROVE  req[r].payment = p /\ req[r].full
    BY <1>0, <2>1, <2>3 DEF CommitRefund, TypeOK
  <2>4. ASSUME NEW q \in Payments, NEW code \in BOOLEAN, NEW n \in TxnNos,
               WebhookSuccess(q, n) \/ WebhookFailure(q, code, n)
        PROVE  FALSE
    <3>1. pay[q] \in PaymentRow
      BY <1>0, <2>4 DEF WebhookSuccess, WebhookFailure, Delivers, Exists, TypeOK
    <3>2. PICK s \in {"COMPLETED", "FAILED"} :
            pay'[p] = [pay[q] EXCEPT !.status = s] /\ p = q
      BY <1>0, <2>1, <2>4 DEF WebhookSuccess, WebhookFailure, TypeOK
    <3> QED
      BY <3>1, <3>2 DEF PaymentRow
  <2>5. ASSUME NEW r \in Requests, CommitCancel(r) PROVE FALSE
    BY <2>1, <2>5 DEF CommitCancel
  <2> QED
    BY <2>1, <2>2, <2>3, <2>4, <2>5, MoneySteps
<1>5. ASSUME NEW r \in Requests, CommitRefund(r), req[r].payment = p, req[r].full
      PROVE  Refunded(p)' >= Amount
  <2>1. req[r].amount \in Nat
    BY <1>0, <1>5, RequestFields DEF CommitRefund
  <2>2. Refunded(p) + req[r].amount >= Amount
    BY <1>0, <1>2, <1>5, <2>1, RequestFields, AmountAssumption
       DEF CommitRefund, RefundInFlight, SoundRefund, Refunded
  <2>3. /\ refunds'[p].done = refunds[p].done + req[r].amount
        /\ refunds'[p].open = refunds[p].open
    BY <1>0, <1>5 DEF CommitRefund, TypeOK
  <2> QED
    BY <1>2, <2>1, <2>2, <2>3, AmountAssumption DEF Refunded
<1> QED
  BY <1>3, <1>4, <1>5

(* A payment row is inserted together with its idempotency record.         *)
LEMMA NextPaymentsKeyed == Inv /\ [Next]_vars => PaymentsKeyed'
<1> SUFFICES ASSUME Inv, [Next]_vars PROVE PaymentsKeyed'
  OBVIOUS
<1>0. TypeOK /\ PaymentsKeyed
  BY DEF Inv
<1>1. ASSUME NEW r \in Requests, NEW q \in Payments, CommitPayment(r, q)
      PROVE  PaymentsKeyed'
  <2>1. PICK k \in PayKeys : k = req[r].key
    BY <1>0, <1>1, RequestFields DEF CommitPayment
  <2>2. payIdem[k] = None /\ payIdem' = [payIdem EXCEPT ![k] = q] /\ ~Exists(q)
    BY <1>1, <2>1 DEF PayKeyFree, CommitPayment
  <2>3. q # None
    BY NoneAssumption
  <2>4. \A p \in Payments : Exists(p)' <=> Exists(p) \/ p = q
    <3>1. \A p \in Payments : p # q => (Exists(p)' <=> Exists(p))
      BY <1>0, <1>1 DEF CommitPayment, Exists, TypeOK
    <3>2. pay'[q] \in PaymentRow
      <4>1. [order |-> req[r].order, method |-> req[r].method,
             status |-> StatusWhenCreated(req[r].method)] \in PaymentRow
        BY <1>0, <1>1, RequestFields
           DEF CommitPayment, StatusWhenCreated, PaymentRow, PaymentStatus
      <4> QED
        BY <1>0, <1>1, <4>1 DEF CommitPayment, TypeOK
    <3>3. Exists(q)'
      BY <3>2, NoneAssumption DEF Exists
    <3> QED
      BY <3>1, <3>3
  <2>5. \A j \in PayKeys : payIdem'[j] = IF j = k THEN q ELSE payIdem[j]
    BY <1>0, <2>2 DEF TypeOK
  <2>6. \A j \in PayKeys : payIdem[j] # q
    BY <1>0, <2>2 DEF PaymentsKeyed
  <2>7. ASSUME NEW p \in Payments
        PROVE  (Exists(p) <=> \E j \in PayKeys : payIdem[j] = p)'
    <3>1. CASE p = q
      BY <2>4, <2>5, <3>1
    <3>2. CASE p # q
      <4>1. Exists(p) <=> \E j \in PayKeys : payIdem[j] = p
        BY <1>0 DEF PaymentsKeyed
      <4>2. p # None
        BY NoneAssumption
      <4>3. \A j \in PayKeys : payIdem'[j] = p <=> payIdem[j] = p
        BY <2>2, <2>5, <3>2, <4>2
      <4> QED
        BY <2>4, <3>2, <4>1, <4>3
    <3> QED
      BY <3>1, <3>2
  <2>8. ASSUME NEW i \in PayKeys, NEW j \in PayKeys,
               payIdem'[i] = payIdem'[j], payIdem'[i] # None
        PROVE  i = j
    BY <1>0, <2>5, <2>6, <2>8 DEF PaymentsKeyed
  <2> QED
    BY <2>7, <2>8 DEF PaymentsKeyed
<1>2. ASSUME NEW r \in Requests, CommitRefund(r)
      PROVE  PaymentsKeyed'
  <2>1. UNCHANGED payIdem
    BY <1>2 DEF CommitRefund
  <2>2. \A p \in Payments : Exists(p) => Exists(p)'
    BY MoneyMonotone DEF MoneyGrows
  <2>3. req[r].payment \in Payments /\ Exists(req[r].payment)
    BY <1>0, <1>2, RequestFields
       DEF CommitRefund, Inv, RefundInFlight, SoundRefund, HasMoney
  <2>4. \A p \in Payments : Exists(p)' => Exists(p)
    BY <1>0, <1>2, <2>3 DEF CommitRefund, Exists, TypeOK
  <2> QED
    BY <1>0, <2>1, <2>2, <2>4 DEF PaymentsKeyed
<1>3. ASSUME NEW q \in Payments, NEW code \in BOOLEAN, NEW n \in TxnNos,
             WebhookSuccess(q, n) \/ WebhookFailure(q, code, n)
      PROVE  PaymentsKeyed'
  <2>1. UNCHANGED payIdem
    BY <1>3 DEF WebhookSuccess, WebhookFailure
  <2>2. \A p \in Payments : Exists(p) => Exists(p)'
    BY MoneyMonotone DEF MoneyGrows
  <2>3. \A p \in Payments : Exists(p)' => Exists(p)
    BY <1>0, <1>3 DEF WebhookSuccess, WebhookFailure, Delivers, Exists, TypeOK
  <2> QED
    BY <1>0, <2>1, <2>2, <2>3 DEF PaymentsKeyed
<1>4. ASSUME NEW r \in Requests, CommitCancel(r)
      PROVE  PaymentsKeyed'
  BY <1>0, <1>4 DEF CommitCancel, PaymentsKeyed, Exists
<1>5. CASE UNCHANGED <<pay, refunds, payIdem>>
  BY <1>0, <1>5 DEF PaymentsKeyed, Exists
<1> QED
  BY <1>1, <1>2, <1>3, <1>4, <1>5, MoneySteps

(* Nothing writes PENDING, so an order that left it does not come back.    *)
LEMMA NeverBackToPending ==
  ASSUME Inv, [Next]_vars, NEW o \in Orders, orderStatus[o] # "PENDING"
  PROVE  orderStatus'[o] # "PENDING"
<1>0. TypeOK /\ StatusTarget
  BY DEF Inv
<1>1. ASSUME NEW r \in Requests, OrderRequest(r) PROVE orderStatus'[o] # "PENDING"
  BY <1>0, <1>1 DEF OrderRequest, ReadForStatus, ReadForCancel, CommitStatus,
     ReadPaymentForCancel, CommitCancel, StatusTarget, TypeOK, stored
<1>2. ASSUME NEW r \in Requests, PaymentRequest(r) PROVE orderStatus'[o] # "PENDING"
  BY <1>0, <1>2 DEF PaymentRequest, ReadForPayment, CommitPayment, LookUpRefundKey,
     LockForRefund, ReadOrderForRefund, CommitRefund, TypeOK, stored
<1>3. ASSUME NEW r \in Requests, DispatchRequest(r) \/ Rollback(r)
      PROVE  orderStatus'[o] # "PENDING"
  BY <1>0, <1>3 DEF DispatchRequest, ReadForAssign, CommitAssign, ReadForRelease,
     CommitRelease, Rollback, TypeOK, stored
<1>4. CASE Webhook \/ UNCHANGED vars
  BY <1>0, <1>4 DEF Webhook, WebhookSuccess, WebhookFailure, WebhookRefused,
     WebhookDuplicate, vars, TypeOK, stored
<1> QED
  BY <1>1, <1>2, <1>3, <1>4 DEF Next

(* The callback that collects a payment moves the order out of PENDING.    *)
LEMMA NextPaidOrderConfirmed == Inv /\ [Next]_vars => PaidOrderConfirmed'
<1> SUFFICES ASSUME Inv, [Next]_vars, NEW p \in Payments, HasMoney(p)'
             PROVE  orderStatus'[pay'[p].order] # "PENDING"
  BY DEF PaidOrderConfirmed
<1>0. TypeOK /\ PaidOrderConfirmed
  BY DEF Inv
<1>1. CASE HasMoney(p)
  <2>1. pay'[p].order = pay[p].order /\ pay[p].order \in Orders
    BY <1>0, <1>1, MoneyMonotone DEF MoneyGrows, HasMoney, Exists, TypeOK, PaymentRow
  <2>2. orderStatus[pay[p].order] # "PENDING"
    BY <1>0, <1>1 DEF PaidOrderConfirmed
  <2> QED
    BY <2>1, <2>2, NeverBackToPending
<1>2. CASE ~HasMoney(p)
  <2>1. \E n \in TxnNos : WebhookSuccess(p, n)
    <3>1. ASSUME NEW r \in Requests, NEW q \in Payments, CommitPayment(r, q)
          PROVE  FALSE
      BY <1>0, <1>2, <3>1 DEF StatusWhenCreated, CommitPayment, HasMoney, Exists, TypeOK
    <3>2. ASSUME NEW r \in Requests, CommitRefund(r)
          PROVE  FALSE
      <4>1. req[r].payment \in Payments /\ HasMoney(req[r].payment)
        BY <1>0, <3>2, RequestFields DEF CommitRefund, Inv, RefundInFlight, SoundRefund
      <4> QED
        BY <1>0, <1>2, <3>2, <4>1 DEF CommitRefund, HasMoney, Exists, TypeOK
    <3>3. ASSUME NEW r \in Requests, CommitCancel(r) PROVE FALSE
      BY <1>2, <3>3 DEF CommitCancel, HasMoney, Exists
    <3>4. ASSUME NEW q \in Payments, NEW n \in TxnNos, WebhookSuccess(q, n)
          PROVE  q = p
      BY <1>0, <1>2, <3>4 DEF WebhookSuccess, HasMoney, Exists, TypeOK
    <3>5. ASSUME NEW q \in Payments, NEW code \in BOOLEAN, NEW n \in TxnNos,
             WebhookFailure(q, code, n)
          PROVE  FALSE
      BY <1>0, <1>2, <3>5 DEF WebhookFailure, Delivers, HasMoney, Exists, TypeOK,
                              PaymentRow
    <3>6. CASE UNCHANGED <<pay, refunds, payIdem>>
      BY <1>2, <3>6 DEF HasMoney, Exists
    <3> QED
      BY <3>1, <3>2, <3>3, <3>4, <3>5, <3>6, MoneySteps
  <2>2. PICK n \in TxnNos : WebhookSuccess(p, n)
    BY <2>1
  <2>3. pay[p] \in PaymentRow
    BY <1>0, <2>2 DEF WebhookSuccess, Delivers, Exists, TypeOK
  <2>4. pay[p].status # "COMPLETED" /\ pay[p].order \in Orders
    BY <1>2, <2>2, <2>3 DEF WebhookSuccess, Delivers, HasMoney, PaymentRow
  <2>5. pay'[p].order = pay[p].order
    BY <1>0, <2>2, <2>3 DEF WebhookSuccess, TypeOK, PaymentRow
  <2> QED
    BY <1>0, <2>2, <2>4, <2>5 DEF FirstSuccess, WebhookSuccess, TypeOK
<1> QED
  BY <1>1, <1>2

(* Every step preserves the invariant.                                     *)
LEMMA NextInv == Inv /\ [Next]_vars => Inv'
  BY NextType, RefundsHold, NextLockExclusive, NextRefundInFlight, NextStatusTarget,
     NextCollectedIffEvent, NextRefundedIsCovered, NextPaymentsKeyed,
     NextPaidOrderConfirmed DEF Inv

-----------------------------------------------------------------------------
(* The invariant holds in every reachable state.                           *)
THEOREM Invariance == Spec => []Inv
  BY InitInv, NextInv, PTL DEF Spec

(* Every variable always has its type.  (Needs the whole invariant: a      *)
(* refund writes into a payment row it has to know exists.)                *)
THEOREM TypeCorrect == Spec => []TypeOK
<1>1. Inv => TypeOK
  BY DEF Inv
<1> QED
  BY <1>1, Invariance, PTL

(* CollectedIffEvent: a payment counts as collected exactly when a success *)
(* that verified is stored for it, whatever refused callbacks, failures    *)
(* and refunds come between, and whichever event ids those have taken.     *)
THEOREM CollectedOnlyByEvent == Spec => []CollectedIffEvent
<1>1. Inv => CollectedIffEvent
  BY DEF Inv
<1> QED
  BY <1>1, Invariance, PTL

(* A payment shown as REFUNDED is covered by its refund rows.              *)
THEOREM RefundedCovered == Spec => []RefundedIsCovered
<1>1. Inv => RefundedIsCovered
  BY DEF Inv
<1> QED
  BY <1>1, Invariance, PTL

(* One payment row per idempotency key, however requests overlap.          *)
THEOREM OnePaymentPerKey == Spec => []PaymentsKeyed
<1>1. Inv => PaymentsKeyed
  BY DEF Inv
<1> QED
  BY <1>1, Invariance, PTL

(* An order somebody paid for is never PENDING.                            *)
THEOREM PaidOrderLeavesPending == Spec => []PaidOrderConfirmed
<1>1. Inv => PaidOrderConfirmed
  BY DEF Inv
<1> QED
  BY <1>1, Invariance, PTL

-----------------------------------------------------------------------------
(* What a refund of n units adds under its key.                            *)
LEMMA UnitsOfKey ==
  ASSUME NEW k, NEW n \in Nat
  PROVE  IsFiniteSet({k} \X (1 .. n)) /\ Cardinality({k} \X (1 .. n)) = n
<1> DEFINE f == [i \in 1 .. n |-> <<k, i>>]
<1>1. IsFiniteSet(1 .. n) /\ Cardinality(1 .. n) = n
  BY FS_Interval
<1>2. f \in Bijection(1 .. n, {k} \X (1 .. n))
  <2>1. f \in [1 .. n -> {k} \X (1 .. n)]
    OBVIOUS
  <2>2. \A i, j \in 1 .. n : f[i] = f[j] => i = j
    OBVIOUS
  <2>3. \A u \in {k} \X (1 .. n) : \E i \in 1 .. n : f[i] = u
    OBVIOUS
  <2> HIDE DEF f
  <2> QED
    BY <2>1, <2>2, <2>3 DEF Bijection, Injection, Surjection, IsInjective
<1>3. ExistsBijection(1 .. n, {k} \X (1 .. n))
  BY <1>2 DEF ExistsBijection
<1> QED
  BY <1>1, <1>3, FS_Bijection

(* Sets that have nothing in common.                                       *)
LEMMA ApartAddUp ==
  ASSUME NEW S, NEW T, IsFiniteSet(S), IsFiniteSet(T), S \cap T = {}
  PROVE  IsFiniteSet(S \cup T) /\ Cardinality(S \cup T) = Cardinality(S) + Cardinality(T)
<1>1. /\ IsFiniteSet(S \cup T)
      /\ Cardinality(S \cup T) = Cardinality(S) + Cardinality(T) - Cardinality({})
  BY FS_Union
<1>2. Cardinality(S) \in Nat /\ Cardinality(T) \in Nat /\ Cardinality({}) = 0
  BY FS_CardinalityType, FS_EmptySet
<1> QED
  BY <1>1, <1>2

(* The units under the keys of a payment are finitely many, as many as its *)
(* completed refunds say, for infinitely many keys too: a refund commits   *)
(* under a key that is free, and so adds its own units only.               *)
UnitsCounted ==
  \A p \in Payments :
    IsFiniteSet(UnitsKeyed(p)) /\ refunds[p].done = Cardinality(UnitsKeyed(p))

(* Only the commit of a refund pays back, and only it stores a key.        *)
LEMMA KeySteps ==
  ASSUME TypeOK, [Next]_vars
  PROVE  \/ \E r \in Requests : CommitRefund(r)
         \/ /\ refundIdem' = refundIdem
            /\ \A p \in Payments : refunds'[p].done = refunds[p].done
<1>1. ASSUME NEW r \in Requests, OrderRequest(r)
      PROVE  refundIdem' = refundIdem /\ (CommitCancel(r) \/ refunds' = refunds)
  BY <1>1 DEF OrderRequest, ReadForStatus, CommitStatus, ReadForCancel,
              ReadPaymentForCancel, CommitCancel, stored
<1>2. ASSUME NEW r \in Requests, PaymentRequest(r)
      PROVE  CommitRefund(r) \/ UNCHANGED <<refundIdem, refunds>>
  BY <1>2 DEF PaymentRequest, ReadForPayment, LookUpRefundKey, LockForRefund,
              ReadOrderForRefund, CommitPayment, stored
<1>3. ASSUME NEW r \in Requests, DispatchRequest(r) \/ Rollback(r)
      PROVE  UNCHANGED <<refundIdem, refunds>>
  BY <1>3 DEF DispatchRequest, ReadForAssign, CommitAssign, ReadForRelease,
              CommitRelease, Rollback, stored
<1>4. ASSUME Webhook
      PROVE  UNCHANGED <<refundIdem, refunds>>
  BY <1>4, WebhookAlone
<1>5. CASE UNCHANGED vars
  BY <1>5 DEF vars, stored
<1>6. ASSUME NEW r \in Requests, CommitCancel(r), NEW p \in Payments
      PROVE  refunds'[p].done = refunds[p].done
  BY <1>6 DEF CommitCancel, TypeOK, RefundSums
<1> QED
  BY <1>1, <1>2, <1>3, <1>4, <1>5, <1>6 DEF Next

(* Every step.                                                             *)
LEMMA NextUnits ==
  ASSUME Inv, UnitsCounted, [Next]_vars
  PROVE  UnitsCounted'
<1>0. TypeOK
  BY DEF Inv
<1>1. CASE refundIdem' = refundIdem /\ \A p \in Payments : refunds'[p].done = refunds[p].done
  <2>1. \A p \in Payments : UnitsKeyed(p)' = UnitsKeyed(p)
    BY <1>1 DEF UnitsKeyed
  <2> QED
    BY <1>1, <2>1 DEF UnitsCounted
<1>2. ASSUME NEW r \in Requests, CommitRefund(r), NEW p \in Payments
      PROVE  IsFiniteSet(UnitsKeyed(p)') /\ refunds'[p].done = Cardinality(UnitsKeyed(p)')
  <2> DEFINE k == req[r].key
             q == req[r].payment
             n == req[r].amount
             new == {k} \X (1 .. n)
             KeysOf(x) == {j \in RefundKeys :
                             refundIdem[j] # None /\ refundIdem[j].payment = x}
             NewKeysOf(x) == {j \in RefundKeys :
                                refundIdem'[j] # None /\ refundIdem'[j].payment = x}
  <2>1. /\ q \in Payments /\ n \in Nat /\ k \in RefundKeys
        /\ refundIdem[k] = None
        /\ refundIdem' = [refundIdem EXCEPT ![k] = [payment |-> q, amount |-> n]]
    BY <1>0, <1>2, RequestFields DEF CommitRefund, RefundKeyFree
  <2>2. /\ refundIdem'[k] = [payment |-> q, amount |-> n]
        /\ \A j \in RefundKeys \ {k} : refundIdem'[j] = refundIdem[j]
        /\ [payment |-> q, amount |-> n] # None
    BY <1>0, <2>1, NoneAssumption DEF TypeOK, RefundRecord
  <2>3. CASE p # q
    <3>1. NewKeysOf(p) = KeysOf(p) /\ k \notin KeysOf(p)
      BY <2>1, <2>2, <2>3
    <3>2. UnitsKeyed(p)' = UnitsKeyed(p)
      BY <2>2, <3>1 DEF UnitsKeyed
    <3>3. refunds'[p].done = refunds[p].done
      BY <1>0, <1>2, <2>3 DEF CommitRefund, TypeOK
    <3> QED
      BY <3>2, <3>3 DEF UnitsCounted
  <2>4. CASE p = q
    <3>1. NewKeysOf(p) = KeysOf(p) \cup {k} /\ k \notin KeysOf(p)
      BY <2>1, <2>2, <2>4
    <3>2. UnitsKeyed(p)' = UnitsKeyed(p) \cup new
      BY <2>2, <3>1 DEF UnitsKeyed
    <3>3. UnitsKeyed(p) \cap new = {}
      BY <3>1 DEF UnitsKeyed
    <3>4. IsFiniteSet(new) /\ Cardinality(new) = n
      BY <2>1, UnitsOfKey
    <3>5. refunds'[p].done = refunds[p].done + n
      BY <1>0, <1>2, <2>4 DEF CommitRefund, TypeOK, RefundSums
    <3>6. IsFiniteSet(UnitsKeyed(p)) /\ refunds[p].done = Cardinality(UnitsKeyed(p))
      BY DEF UnitsCounted
    <3>7. /\ IsFiniteSet(UnitsKeyed(p) \cup new)
          /\ Cardinality(UnitsKeyed(p) \cup new) = Cardinality(UnitsKeyed(p)) + n
      BY <3>3, <3>4, <3>6, ApartAddUp
    <3> HIDE DEF new
    <3> QED
      BY <3>2, <3>5, <3>6, <3>7
  <2> QED
    BY <2>3, <2>4
<1>3. ASSUME NEW r \in Requests, CommitRefund(r)
      PROVE  UnitsCounted'
  BY <1>2, <1>3 DEF UnitsCounted
<1> QED
  BY <1>0, <1>1, <1>3, KeySteps

(* RefundsKeyed: what was paid back of a payment is what the keys record,  *)
(* so no key pays back twice, however requests with it overlap.            *)
THEOREM PaidBackOnce == Spec => []RefundsKeyed
<1>1. Init => UnitsCounted
  <2> SUFFICES ASSUME Init, NEW p \in Payments
               PROVE  IsFiniteSet(UnitsKeyed(p)) /\ refunds[p].done = Cardinality(UnitsKeyed(p))
    BY DEF UnitsCounted
  <2>1. UnitsKeyed(p) = {}
    BY DEF Init, UnitsKeyed
  <2>2. refunds[p].done = 0
    BY DEF Init
  <2> QED
    BY <2>1, <2>2, FS_EmptySet
<1>2. UnitsCounted => RefundsKeyed
  BY DEF UnitsCounted, RefundsKeyed
<1> QED
  BY <1>1, <1>2, NextUnits, Invariance, PTL DEF Spec

-----------------------------------------------------------------------------
(***************************************************************************)
(* Orders, requests and webhooks together implement the abstract ledger: a *)
(* first success callback captures, a refund's commit pays back, every     *)
(* other step leaves money alone.                                          *)
(***************************************************************************)
LEMMA LedgerInit == Init => Ledger!Init
<1> SUFFICES ASSUME Init PROVE Ledger!Init
  OBVIOUS
<1>1. {p \in Payments : HasMoney(p)} = {}
  BY DEF Init, HasMoney, Exists
<1>2. \A p \in Payments : refunds[p].done = 0
  BY DEF Init
<1> QED
  BY <1>1, <1>2 DEF Ledger!Init

(* Every step is a capture, a pay back, or changes neither.                *)
LEMMA LedgerNext == Inv /\ [Next]_vars => [Ledger!Next]_(Ledger!vars)
<1> SUFFICES ASSUME Inv, [Next]_vars PROVE [Ledger!Next]_(Ledger!vars)
  OBVIOUS
<1> DEFINE captured == {p \in Payments : HasMoney(p)}
           paidBack == [p \in Payments |-> refunds[p].done]
<1>0. TypeOK /\ RefundInFlight
  BY DEF Inv
<1>1. ASSUME NEW r \in Requests, CommitRefund(r)
      PROVE  Ledger!Next
  <2>1. PICK p \in Payments : p = req[r].payment /\ req[r].amount \in Nat
    BY <1>0, <1>1, RequestFields DEF CommitRefund
  <2>2. SoundRefund(r)
    BY <1>0, <1>1 DEF CommitRefund, RefundInFlight
  <2>4. refunds[p].done \in Nat
    BY <1>0 DEF TypeOK, RefundSums
  <2>3. /\ HasMoney(p) /\ req[r].amount > 0
        /\ refunds[p].done + req[r].amount <= Amount
    <3>1. req[r].before \in Nat
      BY <1>0, <1>1, RequestFields DEF CommitRefund
    <3> QED
      BY <2>1, <2>2, <2>4, <3>1, AmountAssumption DEF SoundRefund
  <2>5. PICK a \in 1..Amount : a = req[r].amount
    BY <2>1, <2>3, <2>4, AmountAssumption
  <2>6. captured' = captured
    <3>1. \A q \in Payments : HasMoney(q) => HasMoney(q)'
      BY MoneyMonotone DEF MoneyGrows
    <3>2. \A q \in Payments : HasMoney(q)' => HasMoney(q)
      BY <1>0, <1>1, <2>1, <2>3 DEF CommitRefund, HasMoney, Exists, TypeOK
    <3> QED
      BY <3>1, <3>2
  <2>7. paidBack' = [paidBack EXCEPT ![p] = @ + a]
    BY <1>0, <1>1, <2>1, <2>5 DEF CommitRefund, TypeOK
  <2>8. p \in captured /\ a > 0 /\ paidBack[p] + a <= Amount
    BY <2>3, <2>5
  <2>9. Ledger!PayBack(p, a)
    BY <2>6, <2>7, <2>8 DEF Ledger!PayBack
  <2> QED
    BY <2>9 DEF Ledger!Next
<1>2. ASSUME NEW p \in Payments, NEW n \in TxnNos, WebhookSuccess(p, n)
      PROVE  Ledger!Capture(p) \/ UNCHANGED Ledger!vars
  <2>1. paidBack' = paidBack
    BY <1>2 DEF WebhookSuccess
  <2>2. captured' = captured \cup {p}
    <3>1. \A q \in Payments : HasMoney(q) => HasMoney(q)'
      BY MoneyMonotone DEF MoneyGrows
    <3>2. \A q \in Payments : q # p => (HasMoney(q)' => HasMoney(q))
      BY <1>0, <1>2 DEF WebhookSuccess, HasMoney, Exists, TypeOK
    <3>3. HasMoney(p)'
      <4>1. pay[p] \in PaymentRow
        BY <1>0, <1>2 DEF WebhookSuccess, Delivers, Exists, TypeOK
      <4>2. [pay[p] EXCEPT !.status = "COMPLETED"] \in PaymentRow
        BY <4>1 DEF PaymentRow, PaymentStatus
      <4>3. pay'[p] = [pay[p] EXCEPT !.status = "COMPLETED"]
        BY <1>0, <1>2 DEF WebhookSuccess, TypeOK
      <4> QED
        BY <4>1, <4>2, <4>3, NoneAssumption DEF HasMoney, Exists, PaymentRow
    <3> QED
      BY <3>1, <3>2, <3>3
  <2>3. CASE p \in captured
    BY <2>1, <2>2, <2>3 DEF Ledger!vars
  <2>4. CASE p \notin captured
    BY <2>1, <2>2, <2>4 DEF Ledger!Capture
  <2> QED
    BY <2>3, <2>4
<1>3. ASSUME \A p \in Payments : HasMoney(p)' <=> HasMoney(p),
             \A p \in Payments : refunds'[p].done = refunds[p].done
      PROVE  UNCHANGED Ledger!vars
  BY <1>3 DEF Ledger!vars
<1>4. ASSUME NEW r \in Requests, NEW q \in Payments, CommitPayment(r, q)
      PROVE  UNCHANGED Ledger!vars
  <2>1. \A p \in Payments : HasMoney(p)' <=> HasMoney(p)
    BY <1>0, <1>4 DEF StatusWhenCreated, CommitPayment, HasMoney, Exists, TypeOK
  <2> QED
    BY <1>3, <1>4, <2>1 DEF CommitPayment
<1>5. ASSUME NEW r \in Requests, CommitCancel(r) PROVE UNCHANGED Ledger!vars
  <2>1. \A p \in Payments : HasMoney(p)' <=> HasMoney(p)
    BY <1>5 DEF CommitCancel, HasMoney, Exists
  <2>2. \A p \in Payments : refunds'[p].done = refunds[p].done
    BY <1>0, <1>5, RequestFields DEF CommitCancel, TypeOK
  <2> QED
    BY <1>3, <2>1, <2>2
<1>6. ASSUME NEW q \in Payments, NEW code \in BOOLEAN, NEW n \in TxnNos,
             WebhookFailure(q, code, n)
      PROVE  UNCHANGED Ledger!vars
  <2>1. \A p \in Payments : HasMoney(p) => HasMoney(p)'
    BY MoneyMonotone DEF MoneyGrows
  <2>2. \A p \in Payments : HasMoney(p)' => HasMoney(p)
    BY <1>0, <1>6 DEF WebhookFailure, Delivers, HasMoney, Exists, TypeOK, PaymentRow
  <2> QED
    BY <1>3, <1>6, <2>1, <2>2 DEF WebhookFailure
<1>7. CASE UNCHANGED <<pay, refunds, payIdem>>
  BY <1>3, <1>7 DEF HasMoney, Exists
<1> QED
  BY <1>1, <1>2, <1>4, <1>5, <1>6, <1>7, MoneySteps DEF Ledger!Next

(* A payment is captured once and stays captured, and is never paid back   *)
(* beyond its amount, whatever requests and callbacks overlap.             *)
THEOREM ImplementsLedger == Spec => LedgerSpec
  BY LedgerInit, LedgerNext, Invariance, PTL DEF Spec, LedgerSpec, Ledger!Spec
-----------------------------------------------------------------------------
(***************************************************************************)
(* Refunds of a payment.  A cancellation asks for a refund only where it   *)
(* found no row, and where no row is nothing was refunded.  So it pays too *)
(* much only when a row was added behind its back.                         *)
(***************************************************************************)
RowsCounted ==
  \A p \in Payments : refunds[p].rows = 0 => refunds[p].done = 0 /\ refunds[p].open = 0

FoundNoRow ==
  \A r \in Requests :
    req[r].op = "cancelling" /\ req[r].refund # None => req[r].rows = 0

(* The steps that add a refund.                                            *)
LEMMA RefundSteps ==
  ASSUME [Next]_vars
  PROVE  \/ \E r \in Requests : CommitRefund(r) \/ CommitCancel(r)
         \/ UNCHANGED refunds
  BY MoneySteps DEF CommitPayment, WebhookSuccess, WebhookFailure

(* What a refund adds.                                                     *)
LEMMA RefundAdds ==
  ASSUME TypeOK, NEW r \in Requests, CommitRefund(r)
  PROVE  LET q == req[r].payment
             n == req[r].amount
         IN /\ q \in Payments /\ n \in Nat
            /\ refunds' = [refunds EXCEPT ![q] =
                 [rows |-> refunds[q].rows + 1, done |-> refunds[q].done + n,
                  open |-> refunds[q].open]]
  BY RequestFields DEF CommitRefund

(* What a cancellation adds, if anything.                                  *)
LEMMA CancelAdds ==
  ASSUME TypeOK, NEW r \in Requests, CommitCancel(r)
  PROVE  LET q == req[r].refund
         IN IF q = None THEN UNCHANGED refunds
            ELSE /\ q \in Payments
                 /\ refunds' = [refunds EXCEPT ![q] =
                      [rows |-> refunds[q].rows + 1, done |-> refunds[q].done,
                       open |-> refunds[q].open + Amount]]
  BY RequestFields DEF CommitCancel

(* A refund comes with its row.                                            *)
LEMMA NextRowsCounted ==
  ASSUME TypeOK, RowsCounted, [Next]_vars
  PROVE  RowsCounted'
<1>1. \A p \in Payments :
        refunds[p].rows \in Nat /\ refunds[p].done \in Nat /\ refunds[p].open \in Nat
  BY DEF TypeOK, RefundSums
<1>2. ASSUME NEW q \in Payments, NEW done, NEW open,
             refunds' = [refunds EXCEPT ![q] =
               [rows |-> refunds[q].rows + 1, done |-> done, open |-> open]]
      PROVE  RowsCounted'
  <2>1. \A p \in Payments : refunds'[p] =
          IF p = q THEN [rows |-> refunds[q].rows + 1, done |-> done, open |-> open]
                   ELSE refunds[p]
    BY <1>2 DEF TypeOK
  <2> QED
    BY <1>1, <2>1 DEF RowsCounted
<1>3. CASE UNCHANGED refunds
  BY <1>3 DEF RowsCounted
<1> QED
  BY <1>2, <1>3, RefundSteps, RefundAdds, CancelAdds

(* A request becomes a cancellation in one step only.                      *)
LEMMA NextFoundNoRow ==
  ASSUME TypeOK, FoundNoRow, [Next]_vars
  PROVE  FoundNoRow'
<1> SUFFICES ASSUME NEW r \in Requests, req'[r].op = "cancelling", req'[r].refund # None
             PROVE  req'[r].rows = 0
  BY DEF FoundNoRow
<1>1. CASE req'[r] = req[r]
  BY <1>1 DEF FoundNoRow
<1>2. CASE req'[r] # req[r]
  <2>1. ASSUME NEW s \in Requests, OrderRequest(s) PROVE ReadPaymentForCancel(r)
    BY <1>2, <2>1 DEF OrderRequest, ReadForStatus, CommitStatus, ReadForCancel, Starts,
       Ends, ReadPaymentForCancel, CommitCancel, Idle, TypeOK, stored
  <2>2. ASSUME NEW s \in Requests, PaymentRequest(s) PROVE FALSE
    BY <1>2, <2>2 DEF PaymentRequest, ReadForPayment, CommitPayment, LookUpRefundKey,
       LockForRefund, ReadOrderForRefund, CommitRefund, Starts, Ends, Idle, TypeOK, stored
  <2>3. ASSUME NEW s \in Requests, DispatchRequest(s) \/ Rollback(s) PROVE FALSE
    BY <1>2, <2>3 DEF DispatchRequest, ReadForAssign, CommitAssign, ReadForRelease,
       CommitRelease, Rollback, Starts, Ends, Idle, TypeOK, stored
  <2>4. ReadPaymentForCancel(r)
    BY <1>2, <2>1, <2>2, <2>3, WebhookAlone DEF Next, vars
  <2>5. PICK x \in Payments \cup {None} :
          /\ OwesRefund(req[r].order, x)
          /\ req'[r].refund = x
          /\ req'[r].rows = IF x = None THEN 0 ELSE refunds[x].rows
    BY <2>4 DEF ReadPaymentForCancel, TypeOK
  <2> QED
    BY <2>5 DEF OwesRefund
<1> QED
  BY <1>1, <1>2

(* Who refunds no more than there is left, refunds no more than there is.  *)
LEMMA NextWithin ==
  ASSUME Inv, RowsCounted, FoundNoRow, [Next]_vars, NEW p \in Payments,
         Refunded(p) <= Amount, ~Miscounted(p)
  PROVE  Refunded(p)' <= Amount
<1>0. TypeOK
  BY DEF Inv
<1>1. refunds[p].done \in Nat /\ refunds[p].open \in Nat
  BY <1>0 DEF TypeOK, RefundSums
<1>2. ASSUME NEW r \in Requests, CommitRefund(r)
      PROVE  Refunded(p)' <= Amount
  <2>1. CASE req[r].payment # p
    BY <1>0, <1>2, <2>1, RefundAdds DEF Refunded, TypeOK
  <2>2. CASE req[r].payment = p
    <3>1. /\ refunds'[p].done = refunds[p].done + req[r].amount
          /\ refunds'[p].open = refunds[p].open /\ req[r].amount \in Nat
      <4>1. /\ req[r].amount \in Nat
            /\ refunds' = [refunds EXCEPT ![p] =
                 [rows |-> refunds[p].rows + 1, done |-> refunds[p].done + req[r].amount,
                  open |-> refunds[p].open]]
        BY <1>0, <1>2, <2>2, RefundAdds
      <4> QED
        BY <1>0, <4>1 DEF TypeOK
    <3>2. req[r].before = Refunded(p)
      BY <1>2, <2>2 DEF CommitRefund, Miscounted, HoldsPayment
    <3>3. req[r].before + req[r].amount <= Amount
      BY <1>2 DEF CommitRefund, Inv, RefundInFlight, SoundRefund
    <3> QED
      BY <1>1, <3>1, <3>2, <3>3, AmountAssumption DEF Refunded
  <2> QED
    BY <2>1, <2>2
<1>3. ASSUME NEW r \in Requests, CommitCancel(r)
      PROVE  Refunded(p)' <= Amount
  <2>1. CASE req[r].refund # p
    BY <1>0, <1>3, <2>1, CancelAdds DEF Refunded, TypeOK
  <2>2. CASE req[r].refund = p
    <3>1. p # None
      BY NoneAssumption
    <3>2. /\ refunds'[p].done = refunds[p].done
          /\ refunds'[p].open = refunds[p].open + Amount
      <4>1. refunds' = [refunds EXCEPT ![p] =
              [rows |-> refunds[p].rows + 1, done |-> refunds[p].done,
               open |-> refunds[p].open + Amount]]
        BY <1>0, <1>3, <2>2, <3>1, CancelAdds
      <4> QED
        BY <1>0, <4>1 DEF TypeOK
    <3>3. refunds[p].rows = 0
      BY <1>3, <2>2, <3>1 DEF CommitCancel, Miscounted, FoundNoRow
    <3>4. refunds[p].done = 0 /\ refunds[p].open = 0
      BY <3>3 DEF RowsCounted
    <3> QED
      BY <3>2, <3>4, AmountAssumption DEF Refunded
  <2> QED
    BY <2>1, <2>2
<1>4. CASE UNCHANGED refunds
  BY <1>4 DEF Refunded
<1> QED
  BY <1>2, <1>3, <1>4, RefundSteps

(* RefundsWithinPayment: however requests overlap, a payment is refunded   *)
(* beyond its amount only in the presence of a request that counted its    *)
(* refunds before another one's were stored.                               *)
THEOREM RefundsStayWithin == Spec => RefundsWithinPayment
<1> DEFINE Counted == RowsCounted /\ FoundNoRow
           Within == \A p \in Payments :
                       Refunded(p) <= Amount /\ ~Miscounted(p) => Refunded(p)' <= Amount
<1>1. Init => Counted
  BY DEF Init, Idle, RowsCounted, FoundNoRow
<1>2. Inv /\ Counted /\ [Next]_vars => Counted'
  BY NextRowsCounted, NextFoundNoRow DEF Inv
<1>3. Inv /\ Counted /\ [Next]_vars => [Within]_vars
  BY NextWithin
<1> HIDE DEF Counted
<1> QED
  BY <1>1, <1>2, <1>3, Invariance, PTL DEF Spec, RefundsWithinPayment

-----------------------------------------------------------------------------
(***************************************************************************)
(* The life of an order.  What a request does at its commit is an edge     *)
(* from the status it read.  If the order is no longer in it, the request  *)
(* was overtaken; but every edge from PENDING that a request can take is   *)
(* one from CONFIRMED too, or none.                                        *)
(***************************************************************************)
Legal(q) ==
  /\ q.op = "status" => q.to \in AllowedTransitions(q.from)
  /\ q.op \in {"cancel", "cancelling"} => q.from \notin Uncancellable

Decided == \A r \in Requests : Legal(req[r])

(* Where an order can go, seen from where it comes.                        *)
LEMMA Edges ==
  /\ \A s, t \in OrderStatus : t \in AllowedTransitions(s) => Lifecycle!Edge(s, t)
  /\ \A t \in AllowedTransitions("PENDING") : t \in {"CONFIRMED", "CANCELLED"}
  /\ Lifecycle!Edge("PENDING", "CONFIRMED")
  /\ Lifecycle!Edge("CONFIRMED", "CANCELLED")
  /\ Lifecycle!Edge("CANCELLED", "REFUNDED")
  /\ Lifecycle!Edge("READY", "PICKING_UP")
  /\ Lifecycle!Edge("PICKING_UP", "READY")
  /\ \A s \in OrderStatus \ Uncancellable : Lifecycle!Edge(s, "CANCELLED")
  BY DEF AllowedTransitions, OrderStatus, Uncancellable, Lifecycle!Edge,
         Lifecycle!AllowedTransitions

(* A step of order o along an edge, a late write to it, or neither.        *)
Moves(o) ==
  \E t \in OrderStatus :
    /\ orderStatus' = [orderStatus EXCEPT ![o] = t]
    /\ Lifecycle!Edge(orderStatus[o], t) \/ Overtaken(o) \/ t = orderStatus[o]

(* A commit that writes t where the request had read seen.                 *)
LEMMA LateOrLegal ==
  ASSUME TypeOK, NEW r \in Requests, NEW o \in Orders, NEW t \in OrderStatus,
         Works(r, o), orderStatus' = [orderStatus EXCEPT ![o] = t],
         NEW seen \in OrderStatus, SeenBy(req[r]) = seen, Lifecycle!Edge(seen, t),
         seen = "PENDING" => t \in {"CONFIRMED", "CANCELLED"}
  PROVE  Moves(o)
<1>1. CASE seen = orderStatus[o]
  BY <1>1 DEF Moves
<1>2. CASE seen = "PENDING" /\ orderStatus[o] = "CONFIRMED"
  BY <1>2, Edges DEF Moves
<1>3. CASE seen # orderStatus[o] /\ ~(seen = "PENDING" /\ orderStatus[o] = "CONFIRMED")
  <2>1. Overtaken(o)
    BY <1>3 DEF Overtaken
  <2> QED
    BY <2>1 DEF Moves
<1> QED
  BY <1>1, <1>2, <1>3

(* Every step takes one order along an edge, writes it late, or neither.   *)
LEMMA StatusSteps ==
  ASSUME Inv, Decided, [Next]_vars
  PROVE  (\E o \in Orders : Moves(o)) \/ UNCHANGED orderStatus
<1>0. TypeOK /\ RefundInFlight
  BY DEF Inv
<1>1. ASSUME NEW r \in Requests, OrderRequest(r)
      PROVE  (\E o \in Orders : Moves(o)) \/ UNCHANGED orderStatus
  <2>1. CASE CommitStatus(r)
    <3> DEFINE o == req[r].order  t == req[r].to  seen == req[r].from
    <3>1. /\ o \in Orders /\ t \in OrderStatus /\ seen \in OrderStatus
          /\ t \in AllowedTransitions(seen)
          /\ orderStatus' = [orderStatus EXCEPT ![o] = t]
      BY <1>0, <2>1, RequestFields DEF CommitStatus, Decided, Legal
    <3>2. Works(r, o) /\ SeenBy(req[r]) = seen
      BY <2>1 DEF CommitStatus, Works, SeenBy
    <3>3. Lifecycle!Edge(seen, t) /\ (seen = "PENDING" => t \in {"CONFIRMED", "CANCELLED"})
      BY <3>1, Edges
    <3> HIDE DEF o, t, seen
    <3> QED
      BY <1>0, <3>1, <3>2, <3>3, LateOrLegal
  <2>2. CASE CommitCancel(r)
    <3> DEFINE o == req[r].order  seen == req[r].from
    <3>1. /\ o \in Orders /\ seen \in OrderStatus \ Uncancellable
          /\ orderStatus' = [orderStatus EXCEPT ![o] = "CANCELLED"]
      BY <1>0, <2>2, RequestFields DEF CommitCancel, Decided, Legal
    <3>2. Works(r, o) /\ SeenBy(req[r]) = seen
      BY <2>2 DEF CommitCancel, Works, SeenBy
    <3>3. Lifecycle!Edge(seen, "CANCELLED") /\ "CANCELLED" \in OrderStatus
      BY <3>1, Edges DEF OrderStatus
    <3> HIDE DEF o, seen
    <3> QED
      BY <1>0, <3>1, <3>2, <3>3, LateOrLegal
  <2> QED
    BY <1>1, <2>1, <2>2
       DEF OrderRequest, ReadForStatus, ReadForCancel, ReadPaymentForCancel, stored
<1>2. ASSUME NEW r \in Requests, PaymentRequest(r)
      PROVE  (\E o \in Orders : Moves(o)) \/ UNCHANGED orderStatus
  <2>1. ASSUME NEW p \in Payments, CommitPayment(r, p)
        PROVE  (\E o \in Orders : Moves(o)) \/ UNCHANGED orderStatus
    <3>1. CASE req[r].method = "CASH_ON_DELIVERY" /\ req[r].from = "PENDING"
      <4> DEFINE o == req[r].order
      <4>1. o \in Orders /\ orderStatus' = [orderStatus EXCEPT ![o] = "CONFIRMED"]
        BY <1>0, <2>1, <3>1, RequestFields DEF CommitPayment
      <4>2. Works(r, o) /\ SeenBy(req[r]) = "PENDING"
        BY <2>1, <3>1 DEF CommitPayment, Works, SeenBy
      <4>3. "PENDING" \in OrderStatus /\ "CONFIRMED" \in OrderStatus
        BY DEF OrderStatus
      <4> HIDE DEF o
      <4> QED
        BY <1>0, <4>1, <4>2, <4>3, LateOrLegal, Edges
    <3> QED
      BY <2>1, <3>1 DEF CommitPayment
  <2>2. CASE CommitRefund(r)
    <3>1. CASE req[r].cancelled
      <4> DEFINE o == pay[req[r].payment].order
      <4>1. pay[req[r].payment] \in PaymentRow
        BY <1>0, <2>2, RequestFields
           DEF CommitRefund, RefundInFlight, SoundRefund, HasMoney, Exists, TypeOK
      <4>2. o \in Orders /\ orderStatus' = [orderStatus EXCEPT ![o] = "REFUNDED"]
        BY <2>2, <3>1, <4>1 DEF CommitRefund, PaymentRow
      <4>3. Works(r, o) /\ SeenBy(req[r]) = "CANCELLED"
        BY <2>2, <3>1 DEF CommitRefund, Works, SeenBy
      <4>4. "CANCELLED" \in OrderStatus /\ "REFUNDED" \in OrderStatus
        BY DEF OrderStatus
      <4> HIDE DEF o
      <4> QED
        BY <1>0, <4>2, <4>3, <4>4, LateOrLegal, Edges
    <3> QED
      BY <2>2, <3>1 DEF CommitRefund
  <2> QED
    BY <1>2, <2>1, <2>2
       DEF PaymentRequest, ReadForPayment, LookUpRefundKey, LockForRefund,
           ReadOrderForRefund, stored
<1>3. ASSUME NEW r \in Requests, DispatchRequest(r) \/ Rollback(r)
      PROVE  (\E o \in Orders : Moves(o)) \/ UNCHANGED orderStatus
  <2>1. CASE CommitAssign(r)
    <3>1. CASE req[r].from = "READY"
      <4> DEFINE o == req[r].order
      <4>1. o \in Orders /\ orderStatus' = [orderStatus EXCEPT ![o] = "PICKING_UP"]
        BY <1>0, <2>1, <3>1, RequestFields DEF CommitAssign
      <4>2. Works(r, o) /\ SeenBy(req[r]) = "READY"
        BY <2>1, <3>1 DEF CommitAssign, Works, SeenBy
      <4>3. "READY" \in OrderStatus /\ "PICKING_UP" \in OrderStatus
        BY DEF OrderStatus
      <4> HIDE DEF o
      <4> QED
        BY <1>0, <4>1, <4>2, <4>3, LateOrLegal, Edges
    <3> QED
      BY <2>1, <3>1 DEF CommitAssign
  <2>2. CASE CommitRelease(r)
    <3> DEFINE o == req[r].order
    <3>1. o \in Orders /\ orderStatus' = [orderStatus EXCEPT ![o] = "READY"]
      BY <1>0, <2>2, RequestFields DEF CommitRelease
    <3>2. Works(r, o) /\ SeenBy(req[r]) = "PICKING_UP"
      BY <2>2 DEF CommitRelease, Works, SeenBy
    <3>3. "READY" \in OrderStatus /\ "PICKING_UP" \in OrderStatus
      BY DEF OrderStatus
    <3> HIDE DEF o
    <3> QED
      BY <1>0, <3>1, <3>2, <3>3, LateOrLegal, Edges
  <2> QED
    BY <1>3, <2>1, <2>2
       DEF DispatchRequest, ReadForAssign, ReadForRelease, Rollback, stored
<1>4. ASSUME NEW p \in Payments, NEW n \in TxnNos, WebhookSuccess(p, n)
      PROVE  (\E o \in Orders : Moves(o)) \/ UNCHANGED orderStatus
  <2>1. PICK o \in Orders : o = pay[p].order
    BY <1>0, <1>4 DEF WebhookSuccess, Delivers, Exists, TypeOK, PaymentRow
  <2>2. CASE FirstSuccess(p) /\ orderStatus[o] = "PENDING"
    BY <1>4, <2>1, <2>2, Edges DEF WebhookSuccess, Moves, OrderStatus
  <2> QED
    BY <1>4, <2>1, <2>2 DEF WebhookSuccess
<1>5. ASSUME NEW p \in Payments, NEW n \in TxnNos,
             \/ \E code \in BOOLEAN : WebhookFailure(p, code, n) \/ WebhookRefused(p, code, n)
             \/ WebhookDuplicate(p, n)
      PROVE  UNCHANGED orderStatus
  BY <1>5 DEF WebhookFailure, WebhookRefused, WebhookDuplicate, stored
<1>6. CASE UNCHANGED vars
  BY <1>6 DEF vars, stored
<1> QED
  BY <1>1, <1>2, <1>3, <1>4, <1>5, <1>6 DEF Next, Webhook

(* A request decides once, on what it reads.                               *)
LEMMA NextDecided ==
  ASSUME TypeOK, Decided, [Next]_vars
  PROVE  Decided'
<1> SUFFICES ASSUME NEW r \in Requests PROVE Legal(req'[r])
  BY DEF Decided
<1>1. Legal(req[r]) /\ Legal(Idle)
  BY DEF Decided, Legal, Idle
<1>2. ASSUME NEW s \in Requests, OrderRequest(s) PROVE Legal(req'[r])
  <2>1. ASSUME NEW o \in Orders, NEW role \in Roles, NEW to \in OrderStatus,
               ReadForStatus(s, o, to, role)
        PROVE  Legal(req'[r])
    BY <1>1, <2>1 DEF ReadForStatus, Starts, Legal, TypeOK
  <2>2. ASSUME NEW o \in Orders, NEW role \in Roles, ReadForCancel(s, o, role)
        PROVE  Legal(req'[r])
    BY <1>1, <2>2 DEF ReadForCancel, MayCancel, Starts, Legal, TypeOK
  <2>3. CASE ReadPaymentForCancel(s)
    <3>1. Legal(req[s])
      BY DEF Decided
    <3> QED
      BY <1>1, <2>3, <3>1 DEF ReadPaymentForCancel, Legal, TypeOK
  <2>4. CASE CommitStatus(s) \/ CommitCancel(s)
    BY <1>1, <2>4 DEF CommitStatus, CommitCancel, Ends, TypeOK
  <2> QED
    BY <1>2, <2>1, <2>2, <2>3, <2>4 DEF OrderRequest
<1>3. ASSUME NEW s \in Requests, PaymentRequest(s) PROVE Legal(req'[r])
  BY <1>1, <1>3 DEF PaymentRequest, ReadForPayment, CommitPayment, LookUpRefundKey,
     LockForRefund, ReadOrderForRefund, CommitRefund, Starts, Ends, Legal, TypeOK
<1>4. ASSUME NEW s \in Requests, DispatchRequest(s) \/ Rollback(s) PROVE Legal(req'[r])
  BY <1>1, <1>4 DEF DispatchRequest, ReadForAssign, CommitAssign, ReadForRelease,
     CommitRelease, Rollback, Starts, Ends, Legal, TypeOK
<1>5. CASE Webhook \/ UNCHANGED vars
  BY <1>1, <1>5, WebhookAlone DEF vars
<1> QED
  BY <1>2, <1>3, <1>4, <1>5 DEF Next

(* LifecycleSpec: however requests overlap, orders move along the edges of *)
(* their life cycle, or by the late write of a request that was overtaken. *)
THEOREM ImplementsLifecycle == Spec => LifecycleSpec
<1>1. Init => Decided
  BY DEF Init, Idle, Decided, Legal
<1>2. Inv /\ Decided /\ [Next]_vars => Decided'
  BY NextDecided DEF Inv
<1>3. Init => Lifecycle!Init
  BY DEF Init, Lifecycle!Init
<1>4. ASSUME NEW o \in Orders, Inv, Moves(o)
      PROVE  Lifecycle!Next \/ UNCHANGED orderStatus
  <2>1. PICK t \in OrderStatus :
          /\ orderStatus' = [orderStatus EXCEPT ![o] = t]
          /\ Lifecycle!Edge(orderStatus[o], t) \/ Overtaken(o) \/ t = orderStatus[o]
    BY <1>4 DEF Moves
  <2>2. CASE t = orderStatus[o]
    BY <1>4, <2>1, <2>2 DEF Inv, TypeOK
  <2>3. CASE Lifecycle!Edge(orderStatus[o], t) \/ Overtaken(o)
    <3>1. Lifecycle!Step(o, t)
      BY <2>1, <2>3 DEF Lifecycle!Step
    <3>2. t \in Lifecycle!OrderStatus
      BY DEF OrderStatus, Lifecycle!OrderStatus
    <3> QED
      BY <3>1, <3>2 DEF Lifecycle!Next
  <2> QED
    BY <2>1, <2>2, <2>3
<1>5. Inv /\ Decided /\ [Next]_vars => [Lifecycle!Next]_orderStatus
  BY <1>4, StatusSteps
<1> QED
  BY <1>1, <1>2, <1>3, <1>5, Invariance, PTL DEF Spec, LifecycleSpec, Lifecycle!Spec
=============================================================================
