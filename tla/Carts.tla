------------------------------- MODULE Carts -------------------------------
(***************************************************************************)
(* Carts of one customer at one shop, and the worker that reports the      *)
(* abandoned ones to the automation.  A request loads a row and writes     *)
(* what it changed when it commits; the worker loads all carts that are    *)
(* due, calls the automation for one after the other, and marks them all   *)
(* at the end: the session is lost with the process, the calls are not.    *)
(* A call that fails may have arrived: its answer was late, or an error.   *)
(*                                                                         *)
(* Time: quiet says that the last activity is longer ago than the limit.   *)
(* Orders are numbered as they commit, 0 is no order.                      *)
(***************************************************************************)
EXTENDS Naturals, Rows

CONSTANTS
  Carts,
  Requests,
  Activities,  \* what customers do with a cart
  MaxOrders,   \* bound: orders of the customer
  MaxFailures, \* bound: batches that are lost
  None         \* no row

(* The cart is in use, the shop is open and has the items, and the time of *)
(* the activity is now or the one the customer's app sends, which may be   *)
(* old.  An app that repeats the time of the row writes none, and leaves   *)
(* the row as one of the two would.                                        *)
Activity == [active : BOOLEAN, open : BOOLEAN, old : BOOLEAN]

ASSUME ActivitiesAssumption == Activities \subseteq Activity

VARIABLES
  cart,     \* abandoned_cart_journeys
  latest,   \* the latest order of the customer at the shop
  req,
  batch,    \* what the worker has loaded, and how far it is
  failures,
  reports,  \* history: reports of a cart since its last activity
  unsure    \* history: carts with a call that failed or a batch that was
            \* lost since their last activity

vars == <<cart, latest, req, batch, failures, reports, unsure>>

Statuses == {"ACTIVE", "INACTIVE", "ABANDONED", "CHECKED_OUT"}

CartRow == [status : Statuses, quiet : BOOLEAN, open : BOOLEAN,
            reported : BOOLEAN, recovery : 0..MaxOrders]

Idle == [op |-> "idle"]

Change(c) ==
  /\ DOMAIN c \subseteq {"status", "quiet", "open", "reported", "recovery"}
  /\ \E row \in CartRow : \A f \in DOMAIN c : c[f] = row[f]

(* new: the cart is inserted; knew: its check-out was seen.                *)
RequestOK(q) ==
  \/ q = Idle
  \/ /\ q.op \in {"activity", "status"} /\ q.cart \in Carts
     /\ q.new \in BOOLEAN /\ q.knew \in BOOLEAN /\ Change(q.change)
  \/ q.op = "order" /\ q.cart \in Carts \cup {None} /\ Change(q.change)

TypeOK ==
  /\ cart \in [Carts -> CartRow \cup {None}]
  /\ latest \in 0..MaxOrders
  /\ DOMAIN req = Requests /\ \A r \in Requests : RequestOK(req[r])
  /\ batch \in [Carts -> {"out", "due", "sent", "failed"}]
  /\ failures \in 0..MaxFailures
  /\ reports \in [Carts -> 0..2]
  /\ unsure \subseteq Carts

Init ==
  /\ cart = [c \in Carts |-> None]
  /\ latest = 0
  /\ req = [r \in Requests |-> Idle]
  /\ batch = [c \in Carts |-> "out"]
  /\ failures = 0
  /\ reports = [c \in Carts |-> 0]
  /\ unsure = {}

Exists(c) == cart[c] # None

Starts(r, local) ==
  /\ req[r] = Idle
  /\ req' = [req EXCEPT ![r] = local]

Ends(r) == req' = [req EXCEPT ![r] = Idle]

-----------------------------------------------------------------------------
Inserted == [status |-> "ACTIVE", quiet |-> FALSE, open |-> TRUE,
             reported |-> FALSE, recovery |-> 0]

(* A cart that is in use again starts over.                                *)
AfterActivity(row, a) ==
  IF a.active
    THEN [row EXCEPT !.status = "ACTIVE", !.open = a.open, !.reported = FALSE,
                     !.recovery = 0]
    ELSE [row EXCEPT !.status = "INACTIVE", !.open = a.open]

(* The time is written whatever it was.                                    *)
Touched(a, columns) == Written([quiet |-> a.old], columns)

(* POST /journeys/abandoned-carts/activity, and the internal one.          *)
ReadForActivity(r, c, a) ==
  /\ LET row == IF Exists(c) THEN cart[c] ELSE Inserted
         new == AfterActivity(row, a)
     IN Starts(r, [op |-> "activity", cart |-> c, new |-> ~Exists(c),
                   knew |-> row.recovery # 0,
                   change |-> Touched(a, IF Exists(c) THEN Changes(row, new) ELSE new)])
  /\ UNCHANGED <<cart, latest, batch, failures, reports, unsure>>

(* A second insert of the cart violates its unique constraint.             *)
CommitActivity(r) ==
  /\ req[r].op = "activity"
  /\ LET c == req[r].cart
     IN /\ req[r].new => ~Exists(c)
        /\ cart' = [cart EXCEPT ![c] =
             IF req[r].new THEN req[r].change ELSE Written(req[r].change, @)]
        /\ reports' = [reports EXCEPT ![c] = 0]
        /\ unsure' = unsure \ {c}
  /\ Ends(r)
  /\ UNCHANGED <<latest, batch, failures>>

(* mark_cart_checked_out_for_order: the cart with the latest activity, if  *)
(* one is in use or abandoned.  Its new order is known when it commits.    *)
InPlay == {c \in Carts : Exists(c) /\ cart[c].status \in {"ACTIVE", "ABANDONED"}}

ReadForOrder(r) ==
  /\ \/ InPlay = {} /\ Starts(r, [op |-> "order", cart |-> None, change |-> <<>>])
     \/ \E c \in InPlay :
          /\ \A d \in InPlay : cart[c].quiet => cart[d].quiet
          /\ Starts(r, [op |-> "order", cart |-> c, change |-> [status |-> "CHECKED_OUT"]])
  /\ UNCHANGED <<cart, latest, batch, failures, reports, unsure>>

(* The order and its cart are in one transaction.                          *)
CommitOrder(r) ==
  /\ req[r].op = "order" /\ latest < MaxOrders
  /\ latest' = latest + 1
  /\ LET c == req[r].cart
     IN cart' = IF c = None THEN cart
                ELSE [cart EXCEPT ![c] =
                  [Written(req[r].change, @) EXCEPT !.recovery = latest + 1]]
  /\ Ends(r)
  /\ UNCHANGED <<batch, failures, reports, unsure>>

(* POST /internal/journeys/abandoned-carts/status looks for an order since *)
(* the cart was abandoned: that is the latest, or none.                    *)
ReadForStatus(r, c) ==
  /\ Exists(c) /\ latest > 0 /\ cart[c].recovery # latest
  /\ LET new == [cart[c] EXCEPT !.status = "CHECKED_OUT", !.recovery = latest]
     IN Starts(r, [op |-> "status", cart |-> c, new |-> FALSE,
                   knew |-> cart[c].recovery # 0, change |-> Changes(cart[c], new)])
  /\ UNCHANGED <<cart, latest, batch, failures, reports, unsure>>

CommitStatus(r) ==
  /\ req[r].op = "status"
  /\ cart' = [cart EXCEPT ![req[r].cart] = Written(req[r].change, @)]
  /\ Ends(r)
  /\ UNCHANGED <<latest, batch, failures, reports, unsure>>

Rollback(r) ==
  /\ req[r] # Idle
  /\ Ends(r)
  /\ UNCHANGED <<cart, latest, batch, failures, reports, unsure>>

(* The limit passes without activity.                                      *)
Silence(c) ==
  /\ Exists(c) /\ ~cart[c].quiet
  /\ cart' = [cart EXCEPT ![c].quiet = TRUE]
  /\ UNCHANGED <<latest, req, batch, failures, reports, unsure>>

-----------------------------------------------------------------------------
(* dispatch_due_abandoned_cart_webhooks.                                   *)
Due(c) ==
  /\ Exists(c) /\ cart[c].status = "ACTIVE" /\ ~cart[c].reported
  /\ cart[c].quiet /\ cart[c].open

Working == \E c \in Carts : batch[c] # "out"

LoadBatch ==
  /\ ~Working /\ \E c \in Carts : Due(c)
  /\ batch' = [c \in Carts |-> IF Due(c) THEN "due" ELSE "out"]
  /\ UNCHANGED <<cart, latest, req, failures, reports, unsure>>

(* The automation has got a report of the cart.                            *)
Arrives(c) == reports' = [reports EXCEPT ![c] = IF @ = 2 THEN 2 ELSE @ + 1]

Report(c) ==
  /\ batch[c] = "due"
  /\ batch' = [batch EXCEPT ![c] = "sent"]
  /\ Arrives(c)
  /\ UNCHANGED <<cart, latest, req, failures, unsure>>

(* The call fails, before or after it arrived, and the loop goes on with   *)
(* the next cart.                                                          *)
ReportFails(c) ==
  /\ batch[c] = "due"
  /\ batch' = [batch EXCEPT ![c] = "failed"]
  /\ Arrives(c) \/ UNCHANGED reports
  /\ unsure' = unsure \cup {c}
  /\ UNCHANGED <<cart, latest, req, failures>>

MarkedMutant(outcome) == <<>>  \* what was reported stays as it was

MarkedAnyway(outcome) ==  \* a report that failed counts as well
  IF outcome = "out" THEN <<>> ELSE [status |-> "ABANDONED", reported |-> TRUE]

(* What the batch writes to a cart: it was ACTIVE and unreported.          *)
Marked(outcome) ==
  IF outcome = "sent" THEN [status |-> "ABANDONED", reported |-> TRUE] ELSE <<>>

CommitBatch ==
  /\ Working /\ \A c \in Carts : batch[c] # "due"
  /\ cart' = [c \in Carts |->
       IF Exists(c) THEN Written(Marked(batch[c]), cart[c]) ELSE None]
  /\ batch' = [c \in Carts |-> "out"]
  /\ UNCHANGED <<latest, req, failures, reports, unsure>>

(* The process stops, or the commit fails: the batch is forgotten, the     *)
(* reports that were sent are not.                                         *)
LoseBatch ==
  /\ Working /\ failures < MaxFailures
  /\ failures' = failures + 1
  /\ batch' = [c \in Carts |-> "out"]
  /\ unsure' = unsure \cup {c \in Carts : batch[c] = "sent"}
  /\ UNCHANGED <<cart, latest, req, reports>>

Handler(r) ==
  \/ \E c \in Carts :
       \/ \E a \in Activities : ReadForActivity(r, c, a)
       \/ ReadForStatus(r, c)
  \/ ReadForOrder(r)
  \/ CommitActivity(r)
  \/ CommitOrder(r)
  \/ CommitStatus(r)
  \/ Rollback(r)

Worker == LoadBatch \/ CommitBatch \/ \E c \in Carts : ReportFails(c)

Next ==
  \/ \E r \in Requests : Handler(r)
  \/ \E c \in Carts : Silence(c) \/ Report(c)
  \/ Worker
  \/ LoseBatch

(* The worker's loop runs on; no call of it fails for ever.                *)
Fairness == WF_vars(Worker) /\ \A c \in Carts : SF_vars(Report(c))

Spec == Init /\ [][Next]_vars /\ Fairness

-----------------------------------------------------------------------------
(* A silence is reported once, however activity, check-outs and the batch  *)
(* overlap.  The automation gets a cart again only after a call that       *)
(* failed, although it may have arrived, or a batch whose marks were lost. *)
ReportedOnce == \A c \in Carts \ unsure : reports[c] <= 1

(* That a cart was checked out is forgotten only through an activity of    *)
(* the customer who had seen it so: neither the worker nor a request that  *)
(* had loaded the cart earlier undoes it.                                  *)
ConversionKept ==
  [][\A c \in Carts :
       Exists(c) /\ cart[c].recovery # 0 /\ cart'[c].recovery = 0 =>
         \E r \in Requests :
           /\ req[r].op = "activity" /\ req[r].cart = c
           /\ req[r].knew /\ req'[r] = Idle]_vars

(* A cart that is due is reported, although calls fail and a batch may be  *)
(* lost, unless before that there is activity, the shop closes or the cart *)
(* is checked out.  Not so when its last report was under way as it was    *)
(* used again: the batch then marks it as reported, and the new silence is *)
(* never found.                                                            *)
DueReported ==
  \A c \in Carts :
    Due(c) /\ batch[c] # "sent" ~>
      \/ reports[c] > 0
      \/ /\ Exists(c)
         /\ \/ ~cart[c].quiet \/ ~cart[c].open
            \/ cart[c].status \in {"INACTIVE", "CHECKED_OUT"}
=============================================================================
