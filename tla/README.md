# BiteNex API: TLA+ models, checks and proofs

BiteNex is the back end of a food-delivery service: a FastAPI program
(`src/app`) on PostgreSQL.  Customers place orders with merchants and pay by
VNPAY or in cash, drivers are offered the orders and deliver them.  This
directory holds specifications of the parts where requests, callbacks, timers
and workers meet, the TLC configurations that check them on small instances,
and proofs of their safety properties.  `PROJECT.json` maps every definition to
the lines it stands for and lists the hazards the properties are about.

## The system

### How the program runs

Every HTTP request gets a database session (`core/database.py`, `get_db`): one
transaction, READ COMMITTED, committed when the handler returns and rolled back
when it raises.  The session does not flush by itself, so a handler reads rows,
decides, and writes the changed columns by primary key with its flushes at the
end, over whatever is stored by then.  There is no version column.  Only
`process_refund` and `handle_webhook` lock rows when they read them.  All
requests run in one event loop and interleave at every `await`; dispatch timers,
background dispatches and the cart worker are tasks of the same process and
vanish with it.

### Components

| component | state | operations | what is hard | what makes it correct |
|---|---|---|---|---|
| orders (`modules/order`) | `orders.status`, `driver_id`, history | create, status, cancel, driver cancel-pickup, rate | decisions on stale readings, three other components write the order | an order leaves its life cycle only by a late write; a paid order is not pending |
| payments (`modules/payment`) | payments, refunds, webhook events, idempotency keys | create, refund, gateway callback | overlapping requests with one key, callbacks in any order or refused, errors after a write that is kept | collected iff a verified success is stored; refunds within the payment; one payment per key |
| dispatch (`modules/dispatch`, `modules/driver`) | assignments, driver status, timers and tasks in memory | dispatch, respond, time out, assign by hand, reassign, set status | a timer racing an answer, anybody's answers, restarts, offers handed on | an order with a driver was answered for; answers are overwritten only by late readers; offers end |
| accounts and sessions (`modules/auth`, `modules/user`) | users, refresh tokens, mailed links, shop names, favourites | register, verify, login, refresh, logout, logout all, reset, change password, administer, like | two commits in one request, refresh racing logout, check then insert | a refreshed token is dead before its successor exists; leaving everywhere ends every session; keys unique |
| carts (`modules/journey`, `workers/abandoned_cart_worker.py`) | cart journeys, the worker's batch in memory | activity, check-out, status, report | a worker that writes after slow calls, calls that fail after they arrived, a batch that is lost | one report of a silence; a check-out is not forgotten; every due cart is reported |
| offers and vouchers (`modules/journey`, `modules/marketing`) | journey offers | free shipping, issue voucher, expire | check then insert without a constraint | one running offer for a cart or user; unique codes |
| campaigns (`modules/marketing/campaign_service.py`) | campaigns | create, update, status, delete | requests that are each right and not together | dates in order, over stays over, deleted does not run |
| inbound webhooks (`shared/webhook_dedup.py`) | event rows | receive, mark | duplicates at once, answers before the commit, failure records rolled back | an event is accepted again only if it was rolled back; a denied one is stored |
| notifications (`modules/notification`) | devices, inbox | register, unregister, push, in-app, broadcast | devices that change hands while a push is under way | a push reaches the devices its user had when it loaded them |
| calls (`modules/call`) | order calls | start, accept, reject, end, read, expire | lazy expiry that is rolled back after it was told, answers on stale readings | an ended call stays ended; a missed one is not answered |
| chat (`modules/chat`) | messages | send | told before stored, the order changes hands meanwhile | what is said stays with the people of the order |
| real time (`realtime`) | sockets and rooms in memory | connect, join, leave, disconnect, send | sockets removed while a send goes through them | an open socket stays registered; a send skips none |
| menus (`modules/merchant`) | shops, items, option groups, options | approve, edit, add, delete, show, order from | parts deleted one by one while others are added | what is shown can be ordered; deleted stays deleted |
| ratings (`modules/order`, `merchant/review_service.py`) | reviews, averages, summary cache | rate, summarise, invalidate | recomputation over a slow call, averages of what a transaction sees | average and summary are of all reviews |
| driver profiles (`modules/driver`) | profile, positions, counters | create, edit, move, count | read, add one, write | ended orders are counted, the last position is shown |
| settings (`modules/admin`) | `system_configs` | save, edit, use | three rows read and written one by one | address and model of one version are used together |
| search, uploads, statistics, outbound n8n client, payment worker | - | - | no protocol between requests | - |

### How they interact

* `create_order` inserts an order as PENDING.  `create_payment` and the gateway
  callback make it CONFIRMED; the merchant's status changes bring it to READY,
  which schedules a background dispatch.
* Dispatch finds the nearest driver on line who has not answered for the order,
  inserts a PENDING assignment and starts its 60 second timer.  Accepting gives
  the order to the driver (PICKING_UP); rejecting and expiring offer it to the
  next one.  Whoever answers gets the order: nothing compares the caller with
  the driver the offer was made to.
* Cancelling at the cancel endpoint adds a PENDING refund row if a payment is
  completed, withdraws waiting offers and frees the driver; at the status
  endpoint it withdraws the offers only.  Refunding all of a payment makes a
  cancelled order REFUNDED.
* An order made by a customer with a cart at the shop checks the cart out in the
  same transaction; the worker reports carts that were not.  Free shipping is
  offered for a reported cart, unless an order recovered it.
* Chat and calls load the order and its driver.  An order that ends opens the
  driver's profile for ratings and counts a delivery there, even if it was
  cancelled.  A rating stores the review, the average, and invalidates the cached
  summary of the merchant.
* Everything told to users goes through the sockets of `realtime` before the
  transaction that tells it commits.

## The modules

| module | models | composes |
|---|---|---|
| `OrderTypes` | statuses, the transition table, who may cancel | - |
| `OrderPayments` | orders, payments, refunds, callbacks, idempotency records under overlapping transactions | `OrderTypes`; instances of `PaymentLedger` and `OrderLifecycle` |
| `PaymentLedger` | abstract: captured at most once, never paid back beyond it | - |
| `OrderLifecycle` | abstract: the edges an order may take, exceptions to them, and orders about to be hit by a late write | `OrderTypes` |
| `Dispatch` | assignments, timers, tasks, driver status, what orders do to them | `OrderTypes`; an instance of `OrderLifecycle` |
| `Accounts` | users, refresh tokens, mailed links, shop names, favourites | `OrderTypes` |
| `Rows` | the column-level UPDATE of a session | - |
| `Carts` | carts of a customer at a shop, the worker and its batch | `Rows` |
| `Offers` | free shipping and vouchers | - |
| `Webhooks` | deliveries of events and the unique key | - |
| `Campaigns` | campaigns | `Rows` |
| `Notifications` | devices, pushes, the inbox | `Rows` |
| `Calls` | calls about an order | `Rows` |
| `Chat` | messages about an order that changes hands | - |
| `Sockets` | connections, rooms and sends of one process | - |
| `Menu` | shops, items, groups, options | `Rows` |
| `Ratings` | reviews of a merchant or driver, average, summary cache | - |
| `Drivers` | a driver's profile | `Rows` |
| `Settings` | the AI provider's three settings | `Rows` |
| `Automation` | carts, offers, webhooks, campaigns and notifications side by side | `Carts` (extended), `Offers`, `Webhooks`, `Campaigns`, `Notifications` |
| `Talk` | chat, calls and sockets side by side | `Chat` (extended), `Calls`, `Sockets` |
| `Catalogue` | ratings, menus, driver profiles and settings side by side | `Ratings` (extended), `Menu`, `Drivers`, `Settings` |
| `MCOrderPayments`, `MCDispatch`, `MCAccounts`, `MCAutomation`, `MCTalk`, `MCCatalogue` | values of constants and symmetry | the module they extend |
| `..._proofs` | theorems of `OrderPayments`, `Dispatch`, `Accounts`, `Automation`, `Talk`, `Catalogue` | the module they are about, `TLAPS` |

The components of `Automation`, `Talk` and `Catalogue` share no tables and
no memory in the code, or only what each module says it sees of another (an order
that gets another driver in `Chat`, an order that checks a cart out in `Carts` and
`Offers`, dispatch setting the status in `Drivers`).  Their variables are disjoint,
so a behaviour lets one of them run: the variable `component`, chosen
in the initial state, says which.  Interleaving them would multiply the states and
show nothing more.

### Transactions as steps

A request is an element `r` of `Requests` and `req[r]` is what it holds in its
local variables.  A `Read...` action starts it: the guards are the handler's
checks on what it read.  A `Commit...` action ends it: the writes of all its
flushes, on the state of that moment, with the decisions taken on what was
read.  Where a handler reads again later (the completed payment in
`cancel_order`, the order in `process_refund`), there is a step for it, because
other commits may come in between.  `Rollback` ends a request anywhere: an
exception, a lost connection, a deadlock the database resolved, a crash.  Early
returns and errors that write nothing are disabled guards.

`process_refund` looks its key up first (a request in "keyed"), without a lock, so
that two requests with one key may both be past it and one of them wait for the
payment.  The row lock is held by a request in "refund" or "refunding"; callbacks
and other refunds of the payment wait.  `handle_webhook`
inserts its event, locks payment and order in that order, reads nothing else and
commits: nobody can see or change those rows in between, so it is one step.
Orders are written by other requests while it holds them only after it commits,
which is a legal order of the two steps.  A callback that is refused, because its
signature is wrong or its payment is not there (or not yet: `create_payment`
answers with the address to pay at before its transaction commits), still
commits its event row as FAILED, under an id made of the callback's own fields;
`WebhookRefused` is that step, and `WebhookDuplicate` the answer to a success
whose id is taken.

A handler that loads a row and sets attributes writes only the columns whose value
changed (SQLAlchemy), over what is stored by then.  `Rows` says so: `Changes(seen,
new)` is what the handler will write, `Written` the row after it.  This is finer
than writing the row back: a position does not undo a status, and an activity
that found a cart unreported leaves a report that is committed in between.
Where the columns matter the components use it.

Everything told before the commit is a step of its own in `Calls` and `Chat`:
flush (the row is locked from then on), tell, commit or roll back.  An answer, too,
is sent before the commit: the pinned FastAPI (0.124.4) finishes `get_db` after the
response.  `Webhooks` has the two as steps, because an event that was accepted and is
rolled back comes again.  A push loads its devices and calls the gateway in
steps of its own, because the load is awaited.  `Sockets` has
no transactions: a step ends where the code awaits.  In `Carts` the worker loads a
batch, reports one cart after the other, and marks them at the end; a call that fails
(`ReportFails`) may have arrived or not, and `LoseBatch` is a crash or a failing
commit anywhere in between.  `Accounts` has a
refresh in two commits; handlers that decide on nothing they read before their one
UPDATE are one step.

Variables called `raced`, `met`, `twice`, `mixed`, `past`, `heard`, `served`, `left`,
`skipped`, `strays`, `taken`, `reports`, `unsure`, `accepted`, `denied`, `undone`,
`repeated` and `ended` are history: no guard reads them but for the bounds.
`raced` notes that two requests had loaded the same thing at once, so that a
property can say what holds without such an overlap and, by the same words, that an
overlap is the only way to break it.

In `Dispatch`, accepting and expiring write the assignment and the driver before
they read the order; from `WriteRow` to the commit those rows are locked and a
commit that writes them waits (`Unlocked`, `DriverUnlocked`).  Looking for a
driver takes no lock and inserts one row, which disables nothing of others: doing
it in the step of the commit loses no outcome, because any commit between search
and insert may as well come after the insert.

### Bounds and abstractions

* Every order costs `Amount = 2` units and a payment is for the whole order, so a
  refund is partial (1) or full (2).  The code keeps amounts in floats and rounds to
  two decimals when it compares totals; whole units leave that rounding out.
* A refund row is kept as what it adds: the number of rows and the sums of
  completed and of pending refunds.
* The event id of a callback is transaction, response code (that of a success or
  not), and a number with a date; the transaction status, which decides with the code
  whether it is a success, is not part of it.  `TxnNos` has one element: callbacks of a
  payment with other ids come from the code.  `MaxEvents` bounds the event rows; 3 and 4
  are enough for all ids of one payment and most of two.
* `Requests` has two elements (every pairwise overlap, beside callbacks,
  timers and background dispatches), or one where one is enough to refute a property.  A third
  request adds no new kind of overlap: each conflict is a reading of one
  request and a commit of another.  The proofs have no such bound.
* `MaxRows` bounds the assignments (a guard, `HasRoom`, on the actions that make
  one); 2 or 3 leave room for an offer, the one that follows it and a manual
  assignment.  In `dispatch_live` the bound of 4 is never reached, so it does not
  hold anything up.  The process may restart any number of times.
* `FirstStatus` lets an instance of `Dispatch` join an order on its way to READY;
  the instances start at PREPARING, where dispatch has had nothing to do yet.
  `Failing` names the handlers that may fail: the one that gives an order back, because
  its dispatch may run all the same, and the timer, because it does not fire again;
  a failure of the others is a request that was never made.
* Merchants have coordinates, drivers are approved and have a position, and any driver
  may answer any offer.  Positions are left open: any driver on line may be the nearest,
  and drivers who answered before may hide others beyond the search radius, so a
  dispatch may find nobody.
* `accounts`: two users, three refresh tokens (a login, its refresh, a second refresh
  or another login), two names of shops so that the second one is tried, two
  requests, one of each other thing.  `Operations` gives the sessions to one user
  and the rest of an account to the other; both log in and register a shop.
* `automation`: one cart, the activities that differ from the usual one in one respect
  (`Activities`: not in use, shop closed, an old time sent by the app), two rows of the
  inbox (`MaxInbox`), one order and one lost batch (a silence, its
  report, a check-out and a new silence fit); two users that want one voucher code,
  one cart for free shipping and three offers; two event ids with two
  deliveries; two campaigns, one code and two dates; two users and one device.
* `talk`: two calls of one driver and a stranger; two drivers one after the other and
  two messages; two sockets and two users, a room, one send, three entries of a user
  (a socket can be registered twice).
* `catalogue`: two shops and one item, group and option, so that rows of the
  wrong shop can be asked for; two orders to rate; two places and three finished
  orders; two versions of the settings.
* Two requests overlap everywhere; nothing in these handlers waits for or counts
  more than one other.  Averages and summaries stand for the reviews they
  are of, versions for the values of a setting, `quiet`, `late`, `open` and `runs` for
  comparisons with the clock or with the shop.
* Symmetry is used for requests and for other sets whose elements nothing tells
  apart, and never in a run with a liveness property (`automation`, `dispatch_live`).

## Runs

| run | instance | shows |
|---|---|---|
| `payments_overlap` | 1 order, 2 payments, 2 requests, 2 keys of each kind, 4 event rows | `CollectedIffEvent`, `RefundedIsCovered`, `PaymentsKeyed`, `RefundsKeyed`, `RefundsWithinPayment`, and that the component implements `PaymentLedger`, whatever overlaps (243,084 states) |
| `orders_overlap` | 1 order, 1 payment, 2 requests, all endpoints, 3 event rows | types, `PaidOrderConfirmed`, and that the order implements `OrderLifecycle` but for late writes (463,620) |
| `dispatch_overlap` | 1 order, 2 drivers, 2 handlers, restarts, failures | `DriverByAnswer`, `AskedGrows`, `OneAnswer`, `OrderLifecycle` but for late writes (1,760,375) |
| `dispatch_live` | 1 order, 1 driver, 2 handlers, fairness | types, `OffersEnd` (162,349) |
| `accounts` | 2 users, 3 tokens, 2 requests | types, `RotationRevokes`, `LogoutAllEndsSessions`, `KeysUnique` (182,833) |
| `automation` | see above | types, `ReportedOnce`, `ConversionKept`, `DueReported`, `OffersUnique`, `AcceptedOnce`, `CampaignsSound`, `PushesReachOwner` (743,488) |
| `talk` | see above | types, `CallsAreFinal`, `TalkStaysInOrder`, `ConnectionsSound`, `SendReachesAll` |
| `catalogue` | see above | types, `ShownIsOrderable`, `NothingReturns`, `RatingsCurrent`, `DriversSound`, `SettingsWhole` (479,048) |
| `stale_status_revives` | 2 requests | refutes `ContractSpec` |
| `cancelled_unrefunded` | 1 request and the gateway | refutes `CancelledWithRefund` |
| `success_taken_for_duplicate` | 1 request and the gateway | refutes `DuplicateWasCollected` |
| `timeout_overwrites_accept` | 2 handlers | refutes `DriverHoldsAssignment` |

Several properties speak of overlaps: they say what holds without one and, by the same
words, that this overlap is the only way to break it.  `LifecycleSpec` lets an order go
anywhere when a request that read it in another status commits (`Overtaken`),
`OneAnswer` lets a handler overwrite an answer it had not seen, `RefundsWithinPayment` lets
a request add a refund that was counted before another's was stored (`Miscounted`).
None of them asks for requests to come one after another.

`CHECK_DEADLOCK FALSE` is set everywhere: an order that is delivered or refunded,
with every key used, has nothing more to do, and neither has a cart or a call once
the bound on its orders or rows is reached.

### Where code and documents disagree

The four refuted properties are stated by the repository (the financial contract
in `src/docs`, a docstring of the dispatch service); `PROJECT.json` quotes the lines.

* `ContractSpec`: the order takes only the transitions the contract lists.  The run finds a
  late write that revives a cancelled order.  Without any overlap the code leaves the
  contract on three more edges, which are the `Exceptions` of `LifecycleSpec`: an
  administrator may cancel from PICKING_UP and DELIVERING (`order/service.py:1255-1256`),
  which the contract forbids (lines 64-67, 85-86), and a driver may give an order
  back, PICKING_UP to READY (`order/service.py:1298-1299`), which it does not list.
* `CancelledWithRefund`: a confirmed, paid order cancelled at the status endpoint gets no
  refund (contract, line 82).  The contract is silent about a success that arrives
  for an order cancelled before; the code keeps the money and records no refund either.
* `DuplicateWasCollected`: a success whose first delivery was refused is answered
  "duplicate" and never collected (contract, line 154).
* `DriverHoldsAssignment`: the timer expires an assignment that was accepted meanwhile
  (`dispatch/service.py:55-56`).  It fails without overlap too, since any driver may
  accept an offer; `DriverByAnswer` is what is left of it.

Further disagreements, which the passing runs follow the code in:

* The docstring of `webhook_dedup.py` (lines 18-20, 95-100) and that of the webhook router
  (line 10) have a failed event marked FAILED.  The mark is written in the transaction that the
  re-raised error rolls back, so nothing of the event stays and its next delivery is
  handled like a first one.  `AcceptedOnce` says what holds with that.
* `rate_driver` and `rate_merchant` "submit or update" a rating (`order/router.py:162, 177`);
  the service refuses a second one, as `Ratings` does.
* `total_deliveries` counts every commit that ended an order with a driver, cancellations
  (`order/service.py:1217-1218`, 866) and repeated ends included.  `DriversSound` compares it
  with these ends, not with deliveries.

Two more things the passing runs do not claim: that a payment is never refunded twice (two
overlapping cancellations each add a refund row, and `RefundsWithinPayment` says
that this is how), and that offers end after a restart or a failing timer (`OffersEnd`
fails then, because timers live in memory only).  Nor do they claim that a cart is
always reported: an activity that arrives while the report of its cart is under way
is overwritten by the batch, which marks the cart as reported and abandoned, so
that its next silence is never found; `DueReported` leaves that case out.

### Fairness

`FairSpec` assumes that a handler under way ends (weak fairness of `Commit`; the
event loop runs what is ready, and a lock is released by a handler that itself
ends), that a scheduled dispatch runs (weak fairness of `RunTask`) and that a timer
fires.  The last is strong fairness because a timer needs an idle element of
`Requests` in the model; in the program nothing but the event loop stands
between a timer and its handler, so it is not kept out by other handlers that
come and go.  Failing handlers are excluded by the instance (`Failing` is empty), as
are restarts: a handler that fails takes its timer with it.

`Carts` assumes that the worker's loop runs on (weak fairness of `Worker`: it sleeps,
loads what is due and goes through it, whatever an iteration raises) and that the
calls for a cart do not fail for ever (strong fairness of `Report(c)`; each
batch tries anew).  Batches are lost at most `MaxFailures` times.

## Proofs

Six modules hold proofs.  Every safety property of every passing run is a theorem
(and the refinements), stated about the specification the run checks.  They have no
bounds: sets of rows, users and requests are arbitrary, and the bounds of the instances
appear as constants of any value.

`OrderPayments_proofs` proves, for any finite or infinite sets of orders,
payments, requests and keys and any positive `Amount`:

* `Invariance`: `Spec => []Inv`, with its consequences `TypeCorrect`,
  `CollectedOnlyByEvent`, `RefundedCovered`, `OnePaymentPerKey` and
  `PaidOrderLeavesPending`;
* `PaidBackOnce`: `Spec => []RefundsKeyed`;
* `ImplementsLedger`: every step captures a payment, pays some of it back, or
  leaves the ledger as it is;
* `RefundsStayWithin`: `Spec => RefundsWithinPayment`, and `ImplementsLifecycle`:
  `Spec => LifecycleSpec`, however requests overlap.

They use two assumptions: the amount is a positive natural number, and `None` is
no payment, row or record.

None of the properties is inductive alone, because a commit acts on what the
request read earlier.  `Inv` adds what stays true of those readings:

* `LockExclusive`: at most one request holds a payment, so nobody else changes
  its completed refunds while a refund is under way;
* `RefundInFlight`: what the holder found still holds (the payment is COMPLETED
  or REFUNDED; the total it found, `before`, is at least what is paid back and at most
  what is there now, since pending refunds may have grown meanwhile, never shrunk; it
  and this refund fit in the amount, and `full` is only set if they cover it); a
  request that has only looked its key up has decided nothing;
* `StatusTarget`: no status change under way aims at PENDING; no other commit
  writes it either.

`RefundHolds` (a refund in flight works on a payment that exists) is the part of
this that type correctness needs.  The proof has a lemma per action and conjunct
group; `[Next]_vars` is split along the disjuncts of `Next`.  The refinement uses
`RefundInFlight` to see that the refund that commits fits what is left.
`RefundsKeyed` counts units instead of adding amounts up, so that it needs no recursive
sum: the units recorded under the keys of a payment are a finite set, although
there may be infinitely many keys (`UnitsCounted`), and a refund adds units
under a key that had none.

For `RefundsStayWithin`, `RowsCounted` says that a payment without refund rows has nothing
refunded and `FoundNoRow` that a cancellation asks for a refund only where it found
none; a request that is not `Miscounted` then adds to what it had counted.

For `ImplementsLifecycle`, `Decided` says that what a request will write to its order is an
edge from the status it read (`Legal`), which needs no word on other requests.  At the
commit the order is still there, or the request was overtaken (`LateOrLegal`).  A
callback that confirmed a PENDING order meanwhile does not count: every edge from PENDING
a request can take is one from CONFIRMED too.

`Dispatch_proofs` proves, for any sets of orders, drivers and handlers, any set of
operations and any bounds on assignments and restarts:

* `TypeCorrect`: in particular a handler in flight and a timer always name an
  assignment that exists (`ReqOK`, `TimersKept`), though the list changes while
  they wait;
* `AskedNeverShrinks`: `Spec => AskedGrows`;
* `DriversAnswered`: `Spec => []DriverByAnswer`;
* `AnswersOnce`: `Spec => OneAnswer`, and `ImplementsLifecycle`: `Spec => LifecycleSpec`, however
  handlers overlap and from any `FirstStatus`.

They assume that the bound is a natural number, that `FirstStatus` is one of the three,
that idle handlers do not fail and that `None` is no driver.
The argument rests on `Grows`, a relation between two lists of assignments (longer,
the same orders and drivers, answered stays answered).  `NextRows` shows that every
step makes the list grow, action by action; types and the answers of drivers
(`GrowsAsked`) follow from it.  `DriverByAnswer` (as `Backed`) needs besides that the two
actions that give an order away leave an answered assignment of it.  `TypeOK` makes it
inductive: an accept under way must name an assignment in the list.

An answer is overwritten by giving an order back, which cancels accepted assignments, or by
a handler whose record says that it found the assignment PENDING (`Late`); `NextAnswer`
goes through the actions.  The life cycle is shown as for `OrderPayments`
(`Legal`, `LateOrLegal`): an accept decides on the status it read after it locked the
assignment, not on the one at its commit.

`Accounts_proofs` proves `TypeCorrect` and the other properties of the run `accounts`
(`RefreshesRevoke`, `SessionsEnd`, `NamesUnique`) from one invariant.
Its core is `QOK`, what holds of a handler between its reads and its commit: the
token of a refresh or logout exists, the old token of a refresh between its commits
is revoked, and a session in the making that is marked old belongs to a user
for whom `raced` is set.  Without the second the successor of a refresh might be
stored beside a live token; without the third a login that began before a logout
everywhere would bring an old session back unnoticed.  Assumed: grants are well
formed, the names tried for a shop differ, `None` is no row, token or name.

The other three modules are about compositions.  Each component has an inductive
invariant of its own, proved for its own specification, and the lemma `Alone` (`AllSpec`
implies the specification of each component, because a step of one leaves the
variables of the others alone) puts them together; `TypeCorrect` says in
each that all variables keep their types.

`Automation_proofs`:

* `OneReport` and, as an action property, `CheckOutsKept`.  `ReportedOnce` is not
  inductive: `ReportsKept` adds that a cart waiting in a batch, or stored as
  unreported outside of one, was not reported since its last activity, unless a call
  for it failed or its batch was lost (`unsure`).  For
  `ConversionKept`, `RequestKept` says what a request under way may still write: only
  an activity writes an empty order, and only if it had loaded a check-out.  A
  case for each step that writes a cart shows that no other empties it.
* `OffersStayUnique`.  A request found no running offer for its purpose and none is
  there when it adds one (`NoneRuns`), unless another request was under way
  for the purpose, which is then noted (`OfferAlone`).  Codes need neither: the
  unique constraint refuses an insertion with a code that is taken meanwhile.
* `AcceptsOnce`: an event that was never rolled back after its answer is accepted
  once at most, and then stored or about to be (`CountOK`), an
  open insertion is the only one of its id and its id is not stored (`OpenAlone`),
  and whoever is or will be denied found the id stored (`DeniedStored`).
* `StaySound`.  `WillBeSound` carries the decision of a request to its commit: while no
  other request has the campaign loaded, the row it will leave is the one it
  decided on (the changed columns, written over the row they were changed
  in, make the changed row).  `RacesNoted` ties this to the history variable.
  Codes need neither, for the index decides.
* `OwnersReached`: a device that a push holds between its load and its commit is its
  user's or was registered by somebody else since (`HoldsOwn`); only a registration
  writes an owner, and what requests write are columns of rows that exist
  (`DeviceFits`).

`Talk_proofs`:

* `StaysInOrder`: the driver in a message under way is one the order had on the way,
  which later assignments cannot undo.
* `CallsEndOnce`.  For a call no two requests had loaded at once, `CallFits` says that what
  a request will write still fits the row (only an expired call is marked as missed,
  only a ringing one is answered), and `CallSound` what row and history say of each
  other; `CallRacesNoted` ties overlaps to the history.
* `StaysConnected` and `NoneSkipped`.  A user's list may hold a socket twice, and
  removing it takes its first entry away: all other sockets stay in the list.  A
  message under way owes itself only to sockets among the entries it has still
  before it (`SocketsInv`).

`Catalogue_proofs`:

* `MenuIsTrue` and, as an action property, `DeletedForGood`.  `MenuInv` says of each
  request that its writes fit the rows they will be written to, that one who deletes a
  group has found all its options (`DeletesAll`) and one who adds options adds to
  a live group (`AddsToLive`), unless the two overlapped (`OverlapsNoted`).
* `StayCurrent`.  `Knows` says of each request that what it will store is right unless it
  met one that changed it, `MetAll` that requests under way at once have met,
  `TwiceNoted` that two ratings of one order at once are noted.  The last
  request to store an average or a summary then decides whether it is right.
* `CountedAndPlaced`: a request that counts an ended order will write one more than was counted,
  one that moves the driver the place it recorded (`Relies`), unless two did so at
  once (`PairsNoted`).  That the count stays below its bound needs that the requests
  counting at one time are finitely many.
* `SavedTogether`: a save or use that is alone holds, for each key that had its
  turn, what is stored of it (`Holds`, `AloneNoted`).

Assumed there: bounds are natural numbers; `None` is no row (and no reason of a call);
rows of different tables have different ids; requests are finitely many
(`Catalogue`).  TLC evaluates each of these assumptions in the run of the module.

Checked by TLC only: `OffersEnd` and `DueReported`, because liveness under fairness
is beyond the prover.  No induction over data is needed: no module uses a
recursive definition.  The four refuted properties are refuted by TLC's
counterexamples.

## Not modelled

* Endpoints that only read: listings, search and ranking, statistics, earnings.  They
  take one snapshot and leave nothing behind.
* Code no route reaches: `delete_user` and `create_user` of the user service, the token
  blacklist, `suspend_driver`, `broadcast_to_room`; and stubs: the payment and
  notification workers, preferences and marking as read, the event dispatcher, which has
  no subscribers.
* Addresses and stored payment methods: one user's rows, one statement each.
* Uploads, media of messages, health answers, the audit log, the Agora token: input and
  output, or a pure computation.
* The outbound n8n client: fire-and-forget, errors are swallowed.  The reports of carts,
  whose answers count, are in `Carts`; the retries of a call to the language model
  are one call in `Ratings`.
* Money is in whole units: rounding of floats is left out, as are prices and the total
  of an order.  Status history rows are not decided on.
* Waits between transactions that lock rows in a different order (an accept and a
  cancellation, two starts that expire the same calls): the database resolves them by an
  error, which is the roll back that every module has.
* Some requirements are nobody's to break because the code does not have them, and the
  models follow it: required option groups and availability of an option are
  not looked at when ordering, deleting an item leaves its groups, a driver may
  set any status while driving, pending refunds are completed by nobody, the
  sender chooses the id of an automation event.

## Plan

Done: `OrderPayments`, `Dispatch` and their abstract specifications; `Accounts`; carts,
offers, webhooks, campaigns and notifications; calls, chat and sockets; menus,
ratings, driver profiles and settings; every safety property of the passing runs as a
theorem.

Left: a composition of `OrderPayments` and `Dispatch` over one order row, where money and
drivers meet (a paid order whose driver gives it back, a cancellation during an
accept).
