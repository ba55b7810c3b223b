-------------------------- MODULE Automation_proofs --------------------------
(***************************************************************************)
(* What holds of carts, campaigns, webhooks, offers and pushes, for any    *)
(* numbers of rows, users, events and requests and for any bounds.  Each   *)
(* runs alone, so each has an inductive invariant of its own; the last     *)
(* part puts them together.                                                *)
(***************************************************************************)
EXTENDS Automation, TLAPS, FiniteSetTheorems, SequenceTheorems

-----------------------------------------------------------------------------
(***************************************************************************)
(* Carts.  As long as no call for a cart failed and no batch of it was     *)
(* lost since its last activity, there was no report of it while it waits  *)
(* in a batch, nor while it is stored as unreported outside of one: the    *)
(* column is set back only by an activity, whose commit begins a new       *)
(* silence.  Of what a request may still write, only an activity can empty *)
(* the order of a cart, and only if it had loaded one (RequestKept).       *)
(***************************************************************************)
CartFields == {"status", "quiet", "open", "reported", "recovery"}

(* What a request under way can do to its cart.                            *)
RequestKept(q) ==
  /\ q.op = "status" => Exists(q.cart)
  /\ q.op = "order" /\ q.cart # None => Exists(q.cart)
  /\ q.op \in {"status", "order"} =>
       /\ DOMAIN q.change \subseteq {"status", "recovery"}
       /\ "recovery" \in DOMAIN q.change => q.change["recovery"] # 0
  /\ q.op = "activity" /\ q.new => q.change \in CartRow
  /\ q.op = "activity" /\ ~q.new =>
       /\ Exists(q.cart)
       /\ "recovery" \in DOMAIN q.change => q.knew

ReportsKept ==
  \A c \in Carts \ unsure :
    /\ reports[c] <= 1
    /\ batch[c] \in {"due", "failed"} => reports[c] = 0
    /\ batch[c] = "out" /\ Exists(c) /\ ~cart[c].reported => reports[c] = 0

CartsInv ==
  /\ TypeOK
  /\ \A r \in Requests : RequestKept(req[r])
  /\ ReportsKept

LEMMA CartRowFields == \A row \in CartRow : DOMAIN row = CartFields
  BY DEF CartRow, CartFields

(* A row with some of its columns overwritten by those of another row.     *)
LEMMA CartWritten ==
  ASSUME NEW row \in CartRow, NEW ch, DOMAIN ch \subseteq CartFields,
         NEW other \in CartRow, \A f \in DOMAIN ch : ch[f] = other[f]
  PROVE  /\ Written(ch, row) \in CartRow
         /\ \A f \in CartFields :
              Written(ch, row)[f] = IF f \in DOMAIN ch THEN ch[f] ELSE row[f]
<1> DEFINE mix(f) == IF f \in DOMAIN ch THEN other[f] ELSE row[f]
           new == [status |-> mix("status"), quiet |-> mix("quiet"),
                   open |-> mix("open"), reported |-> mix("reported"),
                   recovery |-> mix("recovery")]
<1>1. new \in CartRow
  BY DEF CartRow
<1>2. Written(ch, row) = [f \in CartFields |-> IF f \in DOMAIN ch THEN ch[f] ELSE row[f]]
  <2>1. DOMAIN ch \cup DOMAIN row = CartFields
    BY CartRowFields
  <2>2. QED BY <2>1 DEF Written
<1>3. Written(ch, row) = new
  BY <1>2 DEF CartFields
<1>4. QED BY <1>1, <1>2, <1>3

(* The columns in which two rows differ.                                   *)
LEMMA CartChanges ==
  ASSUME NEW row \in CartRow, NEW new \in CartRow
  PROVE  LET ch == Changes(row, new)
         IN /\ DOMAIN ch = {f \in CartFields : new[f] # row[f]}
            /\ \A f \in DOMAIN ch : ch[f] = new[f]
  BY CartRowFields DEF Changes

(* A request has what TypeOK says.                                         *)
LEMMA CartRequestHas ==
  ASSUME TypeOK, NEW r \in Requests
  PROVE  /\ req[r].op \in {"activity", "status"} =>
              /\ req[r].cart \in Carts /\ req[r].new \in BOOLEAN
              /\ req[r].knew \in BOOLEAN /\ Change(req[r].change)
         /\ req[r].op = "order" =>
              req[r].cart \in Carts \cup {None} /\ Change(req[r].change)
  BY DEF TypeOK, RequestOK, Idle

(* A request that starts.                                                  *)
LEMMA CartsStarts ==
  ASSUME CartsInv, NEW r \in Requests, NEW q, Starts(r, q), RequestOK(q), RequestKept(q),
         UNCHANGED <<cart, latest, batch, failures, reports, unsure>>
  PROVE  CartsInv'
<1>1. \A s \in Requests : req'[s] = IF s = r THEN q ELSE req[s]
  BY DEF Starts, CartsInv, TypeOK
<1>2. DOMAIN req' = Requests
  BY DEF Starts, CartsInv, TypeOK
<1>3. TypeOK'
  BY <1>1, <1>2 DEF CartsInv, TypeOK
<1>4. \A s \in Requests : RequestKept(req[s])'
  BY <1>1 DEF CartsInv, RequestKept, Exists
<1>5. ReportsKept'
  BY DEF CartsInv, ReportsKept, Exists
<1>6. QED BY <1>3, <1>4, <1>5 DEF CartsInv

(* Activity: it had seen the check-out that it will undo.                  *)
LEMMA CartsReadForActivity ==
  ASSUME CartsInv, NEW r \in Requests, NEW c \in Carts,
         NEW a \in Activities, ReadForActivity(r, c, a)
  PROVE  CartsInv'
<1> DEFINE row == IF Exists(c) THEN cart[c] ELSE Inserted
           new == AfterActivity(row, a)
           columns == IF Exists(c) THEN Changes(row, new) ELSE new
           q == [op |-> "activity", cart |-> c, new |-> ~Exists(c),
                 knew |-> row.recovery # 0, change |-> Touched(a, columns)]
<1>0. a.active \in BOOLEAN /\ a.open \in BOOLEAN /\ a.old \in BOOLEAN
  BY ActivitiesAssumption DEF Activity
<1>1. row \in CartRow
  BY BoundAssumption DEF CartsInv, TypeOK, Exists, Inserted, CartRow, Statuses
<1> HIDE DEF row
<1>2. new \in CartRow /\ new.recovery \in {0, row.recovery}
  <2>1. CASE a.active
    <3>1. new = [status |-> "ACTIVE", quiet |-> row.quiet, open |-> a.open,
                 reported |-> FALSE, recovery |-> 0]
      BY <1>1, <2>1 DEF AfterActivity, CartRow
    <3>2. QED BY <1>0, <1>1, <3>1, BoundAssumption DEF CartRow, Statuses
  <2>2. CASE ~a.active
    <3>1. new = [status |-> "INACTIVE", quiet |-> row.quiet, open |-> a.open,
                 reported |-> row.reported, recovery |-> row.recovery]
      BY <1>1, <2>2 DEF AfterActivity, CartRow
    <3>2. QED BY <1>0, <1>1, <3>1 DEF CartRow, Statuses
  <2>3. QED BY <2>1, <2>2
<1>3. Starts(r, q) /\ UNCHANGED <<cart, latest, batch, failures, reports, unsure>>
  BY DEF ReadForActivity, row
<1> HIDE DEF new
<1>4. /\ DOMAIN columns \subseteq CartFields
      /\ \A f \in DOMAIN columns : columns[f] = new[f]
      /\ ~Exists(c) => columns = new
      /\ Exists(c) /\ "recovery" \in DOMAIN columns => new.recovery # row.recovery
  <2>1. CASE Exists(c)
    <3>1. columns = Changes(row, new)
      BY <2>1
    <3>2. /\ DOMAIN Changes(row, new) = {f \in CartFields : new[f] # row[f]}
          /\ \A f \in DOMAIN Changes(row, new) : Changes(row, new)[f] = new[f]
      BY <1>1, <1>2, CartChanges
    <3>3. QED BY <2>1, <3>1, <3>2
  <2>2. CASE ~Exists(c)
    BY <1>2, <2>2, CartRowFields
  <2>3. QED BY <2>1, <2>2
<1> HIDE DEF columns
<1>5. /\ DOMAIN Touched(a, columns) = {"quiet"} \cup DOMAIN columns
      /\ Touched(a, columns)["quiet"] = a.old
      /\ \A f \in DOMAIN columns \ {"quiet"} : Touched(a, columns)[f] = columns[f]
  BY DEF Touched, Written
<1> DEFINE other == [new EXCEPT !.quiet = a.old]
<1>6. other \in CartRow /\ other["quiet"] = a.old
      /\ \A f \in CartFields \ {"quiet"} : other[f] = new[f]
  BY <1>0, <1>2, CartRowFields DEF CartRow, CartFields
<1>7. Change(Touched(a, columns))
  <2>1. DOMAIN Touched(a, columns) \subseteq CartFields
    BY <1>4, <1>5 DEF CartFields
  <2>2. \A f \in DOMAIN Touched(a, columns) : Touched(a, columns)[f] = other[f]
    BY <1>4, <1>5, <1>6
  <2> HIDE DEF other
  <2>3. QED BY <1>6, <2>1, <2>2 DEF Change, CartFields
<1>8. ~Exists(c) => Touched(a, columns) \in CartRow
  <2> SUFFICES ASSUME ~Exists(c) PROVE Touched(a, columns) \in CartRow
    OBVIOUS
  <2>1. Touched(a, columns) = [f \in CartFields |-> IF f = "quiet" THEN a.old ELSE new[f]]
    <3>1. columns = new /\ DOMAIN new = CartFields
      BY <1>2, <1>4, CartRowFields
    <3>2. {"quiet"} \cup DOMAIN new = CartFields
      BY <3>1 DEF CartFields
    <3> DEFINE quiet == [quiet |-> a.old]
    <3>3. DOMAIN quiet = {"quiet"} /\ quiet["quiet"] = a.old
      OBVIOUS
    <3> HIDE DEF quiet
    <3>4. Touched(a, columns) =
            [f \in CartFields |-> IF f \in DOMAIN quiet THEN quiet[f] ELSE new[f]]
      BY <3>1, <3>2, <3>3 DEF Touched, Written, quiet
    <3>5. \A f \in CartFields : (IF f \in DOMAIN quiet THEN quiet[f] ELSE new[f])
                           = (IF f = "quiet" THEN a.old ELSE new[f])
      BY <3>3
    <3>6. QED BY <3>4, <3>5
  <2>2. other = [f \in CartFields |-> IF f = "quiet" THEN a.old ELSE new[f]]
    BY <1>2, CartRowFields DEF CartRow, CartFields
  <2>3. QED BY <1>6, <2>1, <2>2
<1>9. RequestOK(q)
  BY <1>7 DEF RequestOK
<1>10. RequestKept(q)
  BY <1>2, <1>4, <1>5, <1>8 DEF RequestKept
<1> HIDE DEF q
<1>11. QED BY <1>3, <1>9, <1>10, CartsStarts

(* An order takes the cart that is in play, if there is one.               *)
LEMMA CartsReadForOrder ==
  ASSUME CartsInv, NEW r \in Requests, ReadForOrder(r)
  PROVE  CartsInv'
<1> DEFINE noCart == [op |-> "order", cart |-> None, change |-> <<>>]
           forCart(c) == [op |-> "order", cart |-> c, change |-> [status |-> "CHECKED_OUT"]]
<1>1. UNCHANGED <<cart, latest, batch, failures, reports, unsure>>
  BY DEF ReadForOrder
<1> DEFINE out == [status |-> "CHECKED_OUT", quiet |-> FALSE, open |-> TRUE,
                   reported |-> FALSE, recovery |-> 0]
<1>2. out \in CartRow /\ out["status"] = "CHECKED_OUT"
  BY BoundAssumption DEF CartRow, Statuses
<1> HIDE DEF out
<1>3. CASE InPlay = {} /\ Starts(r, noCart)
  <2>1. Change(<<>>)
    BY <1>2 DEF Change
  <2>2. RequestOK(noCart) /\ RequestKept(noCart)
    BY <2>1 DEF RequestOK, RequestKept
  <2> HIDE DEF noCart
  <2>3. QED BY <1>1, <1>3, <2>2, CartsStarts
<1>4. ASSUME NEW c \in InPlay, Starts(r, forCart(c))
      PROVE  CartsInv'
  <2>1. Change([status |-> "CHECKED_OUT"])
    BY <1>2 DEF Change
  <2>2. c \in Carts /\ Exists(c)
    BY DEF InPlay
  <2>3. RequestOK(forCart(c)) /\ RequestKept(forCart(c))
    BY <2>1, <2>2 DEF RequestOK, RequestKept
  <2> HIDE DEF forCart
  <2>4. QED BY <1>1, <1>4, <2>3, CartsStarts
<1>5. QED BY <1>3, <1>4 DEF ReadForOrder

(* The order that is looked up for a cart exists.                          *)
LEMMA CartsReadForStatus ==
  ASSUME CartsInv, NEW r \in Requests, NEW c \in Carts, ReadForStatus(r, c)
  PROVE  CartsInv'
<1> DEFINE new == [cart[c] EXCEPT !.status = "CHECKED_OUT", !.recovery = latest]
           q == [op |-> "status", cart |-> c, new |-> FALSE,
                 knew |-> cart[c].recovery # 0, change |-> Changes(cart[c], new)]
<1>1. cart[c] \in CartRow /\ Exists(c) /\ latest \in 0..MaxOrders /\ latest # 0
  BY BoundAssumption DEF ReadForStatus, CartsInv, TypeOK, Exists
<1>2. /\ new \in CartRow /\ new["recovery"] = latest
      /\ \A f \in {"quiet", "open", "reported"} : new[f] = cart[c][f]
  BY <1>1 DEF CartRow, Statuses
<1>3. Starts(r, q) /\ UNCHANGED <<cart, latest, batch, failures, reports, unsure>>
  BY DEF ReadForStatus
<1> HIDE DEF new
<1>4. LET ch == Changes(cart[c], new)
      IN /\ DOMAIN ch = {f \in CartFields : new[f] # cart[c][f]}
         /\ \A f \in DOMAIN ch : ch[f] = new[f]
  BY <1>1, <1>2, CartChanges
<1>5. Change(Changes(cart[c], new))
  BY <1>2, <1>4 DEF Change, CartFields
<1>6. RequestOK(q) /\ RequestKept(q)
  BY <1>1, <1>2, <1>4, <1>5 DEF RequestOK, RequestKept, CartFields
<1> HIDE DEF q
<1>7. QED BY <1>3, <1>6, CartsStarts

(* A cart gets a row from a request that ends: a request on it that is     *)
(* still under way finds it there.                                         *)
LEMMA CartsWrites ==
  ASSUME CartsInv, NEW r \in Requests, NEW c \in Carts, NEW row \in CartRow,
         cart' = [cart EXCEPT ![c] = row], Ends(r), latest' \in 0..MaxOrders,
         UNCHANGED <<batch, failures>>,
         \/ reports' = [reports EXCEPT ![c] = 0] /\ unsure' = unsure \ {c}
         \/ /\ UNCHANGED <<reports, unsure>>
            /\ Exists(c) /\ row.reported = cart[c].reported
  PROVE  CartsInv'
<1>1. \A s \in Requests : req'[s] = IF s = r THEN Idle ELSE req[s]
  BY DEF Ends, CartsInv, TypeOK
<1>2. \A d \in Carts : cart'[d] = IF d = c THEN row ELSE cart[d]
  BY DEF CartsInv, TypeOK
<1>3. \A d \in Carts : Exists(d) => Exists(d)'
  BY <1>2, NoneAssumption DEF Exists
<1>4. TypeOK'
  <2>1. cart' \in [Carts -> CartRow \cup {None}] /\ reports' \in [Carts -> 0..2]
    BY DEF CartsInv, TypeOK
  <2>2. DOMAIN req' = Requests /\ \A s \in Requests : RequestOK(req'[s])
    BY <1>1 DEF Ends, CartsInv, TypeOK, RequestOK
  <2>3. QED BY <2>1, <2>2 DEF CartsInv, TypeOK
<1>5. ASSUME NEW s \in Requests PROVE RequestKept(req[s])'
  <2>1. CASE s = r
    BY <1>1, <2>1 DEF RequestKept, Idle
  <2>2. CASE s # r
    <3>1. req'[s] = req[s] /\ RequestKept(req[s])
      BY <1>1, <2>2 DEF CartsInv
    <3>2. /\ req[s].op \in {"activity", "status"} => req[s].cart \in Carts
          /\ req[s].op = "order" => req[s].cart \in Carts \cup {None}
      BY CartRequestHas DEF CartsInv
    <3>3. QED BY <1>3, <3>1, <3>2 DEF RequestKept
  <2>3. QED BY <2>1, <2>2
<1>6. ReportsKept'
  BY <1>2 DEF CartsInv, TypeOK, ReportsKept, Exists
<1>7. QED BY <1>4, <1>5, <1>6 DEF CartsInv

(* The column of the order is emptied only by an activity that knew of it; *)
(* here also the row an activity leaves.                                   *)
LEMMA ActivityRow ==
  ASSUME CartsInv, NEW r \in Requests, CommitActivity(r)
  PROVE  LET c == req[r].cart
             row == IF req[r].new THEN req[r].change ELSE Written(req[r].change, cart[c])
         IN /\ c \in Carts /\ row \in CartRow
            /\ cart' = [cart EXCEPT ![c] = row]
            /\ Exists(c) /\ cart[c].recovery # 0 /\ row.recovery = 0 => req[r].knew
<1> DEFINE c == req[r].cart
           row == IF req[r].new THEN req[r].change ELSE Written(req[r].change, cart[c])
<1>1. /\ req[r].op = "activity" /\ c \in Carts /\ Change(req[r].change)
      /\ RequestKept(req[r]) /\ req[r].new \in BOOLEAN
  BY CartRequestHas DEF CommitActivity, CartsInv
<1>2. cart' = [cart EXCEPT ![c] = row] /\ (req[r].new => ~Exists(c))
  BY DEF CommitActivity
<1>3. CASE req[r].new
  BY <1>1, <1>2, <1>3 DEF RequestKept
<1>4. CASE ~req[r].new
  <2>1. cart[c] \in CartRow
    BY <1>1, <1>4 DEF RequestKept, Exists, CartsInv, TypeOK
  <2>2. PICK other \in CartRow : \A f \in DOMAIN req[r].change : req[r].change[f] = other[f]
    BY <1>1 DEF Change
  <2>3. DOMAIN req[r].change \subseteq CartFields
    BY <1>1 DEF Change, CartFields
  <2>4. /\ Written(req[r].change, cart[c]) \in CartRow
        /\ \A f \in CartFields : Written(req[r].change, cart[c])[f] =
             IF f \in DOMAIN req[r].change THEN req[r].change[f] ELSE cart[c][f]
    BY <2>1, <2>2, <2>3, CartWritten
  <2>5. row.recovery = 0 /\ cart[c].recovery # 0 => "recovery" \in DOMAIN req[r].change
    BY <1>4, <2>4 DEF CartFields
  <2>6. QED BY <1>1, <1>2, <1>4, <2>4, <2>5 DEF RequestKept
<1>5. QED BY <1>3, <1>4

LEMMA CartsCommitActivity ==
  ASSUME CartsInv, NEW r \in Requests, CommitActivity(r)
  PROVE  CartsInv'
<1>1. PICK c \in Carts, row \in CartRow :
        c = req[r].cart /\ cart' = [cart EXCEPT ![c] = row]
  BY ActivityRow
<1>2. /\ reports' = [reports EXCEPT ![c] = 0] /\ unsure' = unsure \ {c}
      /\ Ends(r) /\ UNCHANGED <<latest, batch, failures>>
  BY <1>1 DEF CommitActivity
<1>3. latest' \in 0..MaxOrders
  BY <1>2 DEF CartsInv, TypeOK
<1>4. QED BY <1>1, <1>2, <1>3, CartsWrites

(* What orders and status requests write: the order, and never a report.   *)
LEMMA CheckOutRow ==
  ASSUME CartsInv, NEW r \in Requests, req[r].op \in {"status", "order"},
         req[r].cart # None \/ req[r].op = "status"
  PROVE  LET c == req[r].cart
             row == Written(req[r].change, cart[c])
         IN /\ c \in Carts /\ Exists(c) /\ cart[c] \in CartRow
            /\ row \in CartRow /\ row.reported = cart[c].reported
            /\ cart[c].recovery # 0 => row.recovery # 0
<1> DEFINE c == req[r].cart
<1>1. c \in Carts /\ Exists(c) /\ Change(req[r].change) /\ RequestKept(req[r])
  BY CartRequestHas DEF CartsInv, RequestKept
<1>2. cart[c] \in CartRow
  BY <1>1 DEF Exists, CartsInv, TypeOK
<1>3. PICK other \in CartRow : \A f \in DOMAIN req[r].change : req[r].change[f] = other[f]
  BY <1>1 DEF Change
<1>4. DOMAIN req[r].change \subseteq CartFields
  BY <1>1 DEF Change, CartFields
<1>5. /\ Written(req[r].change, cart[c]) \in CartRow
      /\ \A f \in CartFields : Written(req[r].change, cart[c])[f] =
           IF f \in DOMAIN req[r].change THEN req[r].change[f] ELSE cart[c][f]
  BY <1>2, <1>3, <1>4, CartWritten
<1>6. QED BY <1>1, <1>2, <1>5 DEF RequestKept, CartFields

LEMMA CartsCommitStatus ==
  ASSUME CartsInv, NEW r \in Requests, CommitStatus(r)
  PROVE  CartsInv'
<1> DEFINE c == req[r].cart  row == Written(req[r].change, cart[c])
<1>1. c \in Carts /\ Exists(c) /\ row \in CartRow /\ row.reported = cart[c].reported
  BY CheckOutRow DEF CommitStatus
<1>2. /\ cart' = [cart EXCEPT ![c] = row] /\ Ends(r)
      /\ UNCHANGED <<latest, batch, failures, reports, unsure>>
  BY DEF CommitStatus
<1> HIDE DEF c, row
<1>3. latest' \in 0..MaxOrders
  BY <1>2 DEF CartsInv, TypeOK
<1>4. QED BY <1>1, <1>2, <1>3, CartsWrites

(* The row an order leaves carries its number.                             *)
LEMMA OrderRow ==
  ASSUME CartsInv, NEW r \in Requests, CommitOrder(r), req[r].cart # None
  PROVE  LET c == req[r].cart
             row == [Written(req[r].change, cart[c]) EXCEPT !.recovery = latest + 1]
         IN /\ c \in Carts /\ Exists(c) /\ row \in CartRow
            /\ row.reported = cart[c].reported /\ row.recovery # 0
            /\ cart' = [cart EXCEPT ![c] = row]
<1> DEFINE c == req[r].cart  written == Written(req[r].change, cart[c])
           row == [written EXCEPT !.recovery = latest + 1]
<1>1. /\ c \in Carts /\ Exists(c) /\ written \in CartRow
      /\ written.reported = cart[c].reported
  BY CheckOutRow DEF CommitOrder
<1>2. cart' = [cart EXCEPT ![c] = row] /\ latest < MaxOrders
  BY DEF CommitOrder
<1>3. latest + 1 \in 0..MaxOrders /\ latest + 1 # 0
  BY <1>2, BoundAssumption DEF CartsInv, TypeOK
<1> HIDE DEF written
<1>4. row \in CartRow /\ row.reported = written.reported /\ row.recovery = latest + 1
  BY <1>1, <1>3 DEF CartRow
<1>5. QED BY <1>1, <1>2, <1>3, <1>4 DEF written

LEMMA CartsCommitOrder ==
  ASSUME CartsInv, NEW r \in Requests, CommitOrder(r)
  PROVE  CartsInv'
<1>1. /\ latest' = latest + 1 /\ latest < MaxOrders
      /\ Ends(r) /\ UNCHANGED <<batch, failures, reports, unsure>>
  BY DEF CommitOrder
<1>2. latest' \in 0..MaxOrders
  BY <1>1, BoundAssumption DEF CartsInv, TypeOK
<1>3. CASE req[r].cart = None
  <2>1. cart' = cart
    BY <1>3 DEF CommitOrder
  <2>2. \A s \in Requests : req'[s] = IF s = r THEN Idle ELSE req[s]
    BY <1>1 DEF Ends, CartsInv, TypeOK
  <2>3. DOMAIN req' = Requests /\ \A s \in Requests : RequestOK(req'[s])
    BY <1>1, <2>2 DEF Ends, CartsInv, TypeOK, RequestOK
  <2>4. TypeOK'
    BY <1>1, <1>2, <2>1, <2>3 DEF CartsInv, TypeOK
  <2>5. (\A s \in Requests : RequestKept(req[s]))' /\ ReportsKept'
    BY <1>1, <2>1, <2>2 DEF CartsInv, RequestKept, ReportsKept, Exists, Idle
  <2>6. QED BY <2>4, <2>5 DEF CartsInv
<1>4. CASE req[r].cart # None
  <2>1. PICK c \in Carts, row \in CartRow :
          /\ Exists(c) /\ row.reported = cart[c].reported
          /\ cart' = [cart EXCEPT ![c] = row]
    BY <1>4, OrderRow
  <2>2. QED BY <1>1, <1>2, <2>1, CartsWrites
<1>5. QED BY <1>3, <1>4

(* A request that gives up writes nothing.                                 *)
LEMMA CartsRollback ==
  ASSUME CartsInv, NEW r \in Requests, Rollback(r)
  PROVE  CartsInv'
<1>1. /\ \A s \in Requests : req'[s] = IF s = r THEN Idle ELSE req[s]
      /\ DOMAIN req' = Requests
      /\ UNCHANGED <<cart, latest, batch, failures, reports, unsure>>
  BY DEF Rollback, Ends, CartsInv, TypeOK
<1>2. TypeOK'
  BY <1>1 DEF CartsInv, TypeOK, RequestOK
<1>3. (\A s \in Requests : RequestKept(req[s]))' /\ ReportsKept'
  BY <1>1 DEF CartsInv, RequestKept, ReportsKept, Exists, Idle
<1>4. QED BY <1>2, <1>3 DEF CartsInv

(* The row after the limit passed.                                         *)
LEMMA SilentRow ==
  ASSUME CartsInv, NEW c \in Carts, Silence(c)
  PROVE  LET row == [cart[c] EXCEPT !.quiet = TRUE]
         IN /\ Exists(c) /\ row \in CartRow /\ cart' = [cart EXCEPT ![c] = row]
            /\ row.reported = cart[c].reported /\ row.recovery = cart[c].recovery
<1>1. cart[c] \in CartRow /\ Exists(c)
  BY DEF Silence, Exists, CartsInv, TypeOK
<1>2. cart' = [cart EXCEPT ![c] = [cart[c] EXCEPT !.quiet = TRUE]]
  BY DEF Silence
<1>3. QED BY <1>1, <1>2 DEF CartRow

(* What the worker's commit makes of the carts.                            *)
LEMMA BatchRows ==
  ASSUME CartsInv, CommitBatch, NEW c \in Carts
  PROVE  /\ Exists(c) =>
              /\ cart'[c] \in CartRow /\ cart'[c].recovery = cart[c].recovery
              /\ cart'[c].reported = (cart[c].reported \/ batch[c] = "sent")
         /\ ~Exists(c) => cart'[c] = None
<1>1. cart'[c] = IF Exists(c) THEN Written(Marked(batch[c]), cart[c]) ELSE None
  BY DEF CommitBatch
<1>2. CASE Exists(c)
  <2>1. cart[c] \in CartRow
    BY <1>2 DEF Exists, CartsInv, TypeOK
  <2> DEFINE ch == Marked(batch[c])
             other == [cart[c] EXCEPT !.status = "ABANDONED", !.reported = TRUE]
  <2>2. /\ other \in CartRow /\ other.status = "ABANDONED" /\ other.reported = TRUE
        /\ other["status"] = "ABANDONED" /\ other["reported"] = TRUE
    BY <2>1 DEF CartRow, Statuses
  <2>3. /\ DOMAIN ch \subseteq CartFields /\ "recovery" \notin DOMAIN ch
        /\ \A f \in DOMAIN ch : ch[f] = other[f]
        /\ "reported" \in DOMAIN ch <=> batch[c] = "sent"
    <3> HIDE DEF other
    <3>1. CASE batch[c] = "sent"
      <4>1. ch = [status |-> "ABANDONED", reported |-> TRUE]
        BY <3>1 DEF Marked
      <4>2. /\ DOMAIN ch = {"status", "reported"}
            /\ ch["status"] = "ABANDONED" /\ ch["reported"] = TRUE
        BY <4>1
      <4> HIDE DEF ch
      <4>3. QED BY <2>2, <3>1, <4>2 DEF CartFields
    <3>2. CASE batch[c] # "sent"
      BY <3>2 DEF Marked, CartFields
    <3>3. QED BY <3>1, <3>2
  <2> HIDE DEF other, ch
  <2>4. /\ Written(ch, cart[c]) \in CartRow
        /\ \A f \in CartFields : Written(ch, cart[c])[f] =
             IF f \in DOMAIN ch THEN ch[f] ELSE cart[c][f]
    BY <2>1, <2>2, <2>3, CartWritten
  <2>5. cart'[c] = Written(ch, cart[c])
    BY <1>1, <1>2 DEF ch
  <2>6. cart[c].reported \in BOOLEAN
    BY <2>1 DEF CartRow
  <2>7. /\ cart'[c].recovery = cart[c].recovery
        /\ cart'[c].reported = IF batch[c] = "sent" THEN TRUE ELSE cart[c].reported
    BY <2>2, <2>3, <2>4, <2>5 DEF CartFields
  <2>8. QED BY <1>2, <2>4, <2>5, <2>6, <2>7
<1>3. CASE ~Exists(c)
  BY <1>1, <1>3
<1>4. QED BY <1>2, <1>3

LEMMA CartsSilence ==
  ASSUME CartsInv, NEW c \in Carts, Silence(c)
  PROVE  CartsInv'
<1>1. PICK row \in CartRow :
        Exists(c) /\ cart' = [cart EXCEPT ![c] = row] /\ row.reported = cart[c].reported
  BY SilentRow
<1>2. UNCHANGED <<latest, req, batch, failures, reports, unsure>>
  BY DEF Silence
<1>3. \A d \in Carts : cart'[d] = IF d = c THEN row ELSE cart[d]
  BY <1>1 DEF CartsInv, TypeOK
<1>4. \A d : d \in Carts /\ Exists(d) => Exists(d)'
  BY <1>3, NoneAssumption DEF Exists
<1>5. TypeOK'
  BY <1>1, <1>2 DEF CartsInv, TypeOK
<1>6. ASSUME NEW s \in Requests PROVE RequestKept(req[s])'
  BY <1>2, <1>4, CartRequestHas DEF CartsInv, RequestKept
<1>7. ReportsKept'
  BY <1>1, <1>2, <1>3 DEF CartsInv, ReportsKept, Exists
<1>8. QED BY <1>5, <1>6, <1>7 DEF CartsInv

(* The commit of the batch: a report that was sent is marked as one.       *)
LEMMA CartsCommitBatch ==
  ASSUME CartsInv, CommitBatch
  PROVE  CartsInv'
<1>1. /\ DOMAIN cart' = Carts /\ batch' = [c \in Carts |-> "out"]
      /\ UNCHANGED <<latest, req, failures, reports, unsure>>
      /\ \A c \in Carts : batch[c] # "due"
  BY DEF CommitBatch
<1>2. cart' = [c \in Carts |-> cart'[c]]
  BY DEF CommitBatch
<1>3. \A c : c \in Carts /\ Exists(c) => Exists(c)'
  BY BatchRows, NoneAssumption DEF Exists
<1>4. TypeOK'
  <2>1. \A c \in Carts : cart'[c] \in CartRow \cup {None}
    BY BatchRows
  <2>2. cart' \in [Carts -> CartRow \cup {None}]
    BY <1>2, <2>1
  <2>3. QED BY <1>1, <2>2 DEF CartsInv, TypeOK
<1>5. ASSUME NEW s \in Requests PROVE RequestKept(req[s])'
  BY <1>1, <1>3, CartRequestHas DEF CartsInv, RequestKept
<1>6. ReportsKept'
  <2> SUFFICES ASSUME NEW c \in Carts \ unsure
               PROVE  /\ reports[c] <= 1
                      /\ Exists(c)' /\ ~cart'[c].reported => reports[c] = 0
    BY <1>1 DEF ReportsKept
  <2>1. reports[c] <= 1
    BY DEF CartsInv, ReportsKept
  <2>2. ASSUME Exists(c)', ~cart'[c].reported PROVE reports[c] = 0
    <3>1. Exists(c)
      BY <2>2, BatchRows DEF Exists
    <3>2. ~cart[c].reported /\ batch[c] # "sent"
      BY <2>2, <3>1, BatchRows
    <3>3. batch[c] \in {"out", "failed"}
      BY <1>1, <3>2 DEF CartsInv, TypeOK
    <3>4. QED BY <3>1, <3>2, <3>3 DEF CartsInv, ReportsKept
  <2>3. QED BY <2>1, <2>2
<1>7. QED BY <1>4, <1>5, <1>6 DEF CartsInv

(* The other steps of the worker leave carts and requests alone.           *)
LEMMA CartsWorker ==
  ASSUME CartsInv, UNCHANGED <<cart, latest, req>>, failures' \in 0..MaxFailures,
         batch' \in [Carts -> {"out", "due", "sent", "failed"}],
         reports' \in [Carts -> 0..2], unsure' \subseteq Carts, ReportsKept'
  PROVE  CartsInv'
<1>1. TypeOK'
  BY DEF CartsInv, TypeOK
<1>2. \A s \in Requests : RequestKept(req[s])'
  BY DEF CartsInv, RequestKept, Exists
<1>3. QED BY <1>1, <1>2 DEF CartsInv

(* A cart that is due was not reported since its last activity.            *)
LEMMA CartsLoadBatch ==
  ASSUME CartsInv, LoadBatch
  PROVE  CartsInv'
<1>1. /\ batch' \in [Carts -> {"out", "due", "sent", "failed"}]
      /\ UNCHANGED <<cart, latest, req, failures, reports, unsure>>
  BY DEF LoadBatch
<1>2. ReportsKept'
  BY <1>1 DEF LoadBatch, Working, Due, CartsInv, ReportsKept, Exists
<1>3. QED BY <1>1, <1>2, CartsWorker DEF CartsInv, TypeOK

LEMMA CartsReport ==
  ASSUME CartsInv, NEW c \in Carts, Report(c)
  PROVE  CartsInv'
<1>1. /\ batch[c] = "due" /\ batch' = [batch EXCEPT ![c] = "sent"]
      /\ reports' = [reports EXCEPT ![c] = IF @ = 2 THEN 2 ELSE @ + 1]
      /\ UNCHANGED <<cart, latest, req, failures, unsure>>
  BY DEF Report, Arrives
<1>2. c \notin unsure => reports'[c] = 1
  BY <1>1 DEF CartsInv, TypeOK, ReportsKept
<1>3. /\ batch' \in [Carts -> {"out", "due", "sent", "failed"}]
      /\ reports' \in [Carts -> 0..2]
  BY <1>1 DEF CartsInv, TypeOK
<1>4. ReportsKept'
  BY <1>1, <1>2 DEF CartsInv, TypeOK, ReportsKept, Exists
<1>5. QED BY <1>1, <1>3, <1>4, CartsWorker DEF CartsInv, TypeOK

(* Whether a call that failed arrived or not, the cart is unsure.          *)
LEMMA CartsReportFails ==
  ASSUME CartsInv, NEW c \in Carts, ReportFails(c)
  PROVE  CartsInv'
<1>1. /\ batch[c] = "due" /\ batch' = [batch EXCEPT ![c] = "failed"]
      /\ \/ reports' = [reports EXCEPT ![c] = IF @ = 2 THEN 2 ELSE @ + 1]
         \/ reports' = reports
      /\ unsure' = unsure \cup {c}
      /\ UNCHANGED <<cart, latest, req, failures>>
  BY DEF ReportFails, Arrives
<1>2. /\ batch' \in [Carts -> {"out", "due", "sent", "failed"}]
      /\ reports' \in [Carts -> 0..2] /\ unsure' \subseteq Carts
  BY <1>1 DEF CartsInv, TypeOK
<1>3. ReportsKept'
  BY <1>1 DEF CartsInv, TypeOK, ReportsKept, Exists
<1>4. QED BY <1>1, <1>2, <1>3, CartsWorker DEF CartsInv, TypeOK

(* What a lost batch had sent is unsure.                                   *)
LEMMA CartsLoseBatch ==
  ASSUME CartsInv, LoseBatch
  PROVE  CartsInv'
<1>1. /\ failures' = failures + 1 /\ failures < MaxFailures
      /\ batch' = [c \in Carts |-> "out"]
      /\ unsure' = unsure \cup {c \in Carts : batch[c] = "sent"}
      /\ UNCHANGED <<cart, latest, req, reports>>
  BY DEF LoseBatch
<1>2. /\ failures' \in 0..MaxFailures /\ reports' \in [Carts -> 0..2]
      /\ unsure' \subseteq Carts
  BY <1>1, BoundAssumption DEF CartsInv, TypeOK
<1>3. batch' \in [Carts -> {"out", "due", "sent", "failed"}]
  BY <1>1
<1>4. ReportsKept'
  BY <1>1 DEF CartsInv, TypeOK, ReportsKept, Exists
<1>5. QED BY <1>1, <1>2, <1>3, <1>4, CartsWorker

(* Every step keeps what carts owe each other.                             *)
LEMMA CartsNext ==
  ASSUME CartsInv, [Next]_vars
  PROVE  CartsInv'
<1>1. CASE UNCHANGED vars
  BY <1>1 DEF vars, CartsInv, TypeOK, RequestKept, ReportsKept, Exists
<1>2. ASSUME NEW r \in Requests, Handler(r) PROVE CartsInv'
  BY <1>2, CartsReadForActivity, CartsReadForStatus, CartsReadForOrder, CartsCommitActivity,
     CartsCommitOrder, CartsCommitStatus, CartsRollback DEF Handler
<1>3. CASE Worker
  BY <1>3, CartsLoadBatch, CartsCommitBatch, CartsReportFails DEF Worker
<1>4. QED BY <1>1, <1>2, <1>3, CartsSilence, CartsReport, CartsLoseBatch DEF Next

(* What carts, requests under way and the worker's batch owe each other.   *)
LEMMA CartsInvariance == Init /\ [][Next]_vars => []CartsInv
<1>1. Init => CartsInv
  BY BoundAssumption DEF Init, CartsInv, TypeOK, RequestOK, RequestKept, ReportsKept,
     Exists, Idle
<1>2. CartsInv /\ [Next]_vars => CartsInv'
  BY CartsNext
<1>3. QED BY <1>1, <1>2, PTL

Forgotten(c) == Exists(c) /\ cart[c].recovery # 0 /\ cart'[c].recovery = 0

Undoes(c, r) ==
  req[r].op = "activity" /\ req[r].cart = c /\ req[r].knew /\ req'[r] = Idle

(* A step that forgets a check-out is the commit of an activity that knew. *)
LEMMA ForgottenByActivity ==
  ASSUME CartsInv, [Next]_vars, NEW c \in Carts, Forgotten(c)
  PROVE  \E r \in Requests : Undoes(c, r)
<1> USE DEF Forgotten
<1>1. cart'[c] # cart[c] /\ cart \in [Carts -> CartRow \cup {None}]
  BY DEF CartsInv, TypeOK
<1>2. ASSUME NEW r \in Requests, CommitActivity(r) PROVE Undoes(c, r)
  <2>1. PICK d \in Carts, row \in CartRow :
          /\ d = req[r].cart /\ cart' = [cart EXCEPT ![d] = row]
          /\ Exists(d) /\ cart[d].recovery # 0 /\ row.recovery = 0 => req[r].knew
    BY <1>2, ActivityRow
  <2>2. d = c /\ row.recovery = 0
    BY <1>1, <2>1
  <2>3. req'[r] = Idle /\ req[r].op = "activity"
    BY <1>2 DEF CommitActivity, Ends, CartsInv, TypeOK
  <2>4. QED BY <2>1, <2>2, <2>3 DEF Undoes
<1>3. ASSUME NEW r \in Requests, CommitOrder(r) PROVE FALSE
  <2>1. req[r].cart # None
    BY <1>1, <1>3 DEF CommitOrder
  <2> DEFINE d == req[r].cart
             row == [Written(req[r].change, cart[d]) EXCEPT !.recovery = latest + 1]
  <2>2. d \in Carts /\ row.recovery # 0 /\ cart' = [cart EXCEPT ![d] = row]
    BY <1>3, <2>1, OrderRow
  <2> HIDE DEF d, row
  <2>3. QED BY <1>1, <2>2
<1>4. ASSUME NEW r \in Requests, CommitStatus(r) PROVE FALSE
  <2> DEFINE d == req[r].cart  row == Written(req[r].change, cart[d])
  <2>1. d \in Carts /\ (cart[d].recovery # 0 => row.recovery # 0)
    BY <1>4, CheckOutRow DEF CommitStatus
  <2>2. cart' = [cart EXCEPT ![d] = row]
    BY <1>4 DEF CommitStatus
  <2> HIDE DEF d, row
  <2>3. QED BY <1>1, <2>1, <2>2
<1>5. ASSUME NEW d \in Carts, Silence(d) PROVE FALSE
  <2>1. PICK row \in CartRow :
          row.recovery = cart[d].recovery /\ cart' = [cart EXCEPT ![d] = row]
    BY <1>5, SilentRow
  <2>2. QED BY <1>1, <2>1
<1>6. CASE CommitBatch
  BY <1>6, BatchRows
<1>7. CASE UNCHANGED cart
  BY <1>1, <1>7
<1>8. ASSUME NEW r \in Requests, Handler(r), ~UNCHANGED cart
      PROVE  CommitActivity(r) \/ CommitOrder(r) \/ CommitStatus(r)
  BY <1>8 DEF Handler, ReadForActivity, ReadForStatus, ReadForOrder, Rollback
<1>9. CASE Worker
  BY <1>6, <1>7, <1>9 DEF Worker, LoadBatch, ReportFails
<1>10. QED BY <1>2, <1>3, <1>4, <1>5, <1>7, <1>8, <1>9 DEF Next, vars, Report, LoseBatch

-----------------------------------------------------------------------------
(***************************************************************************)
(* Campaigns.  A request decides on the row it loaded and writes some      *)
(* columns later.  As long as it is the only one that has the campaign     *)
(* loaded, the row it will leave is the one it decided on: WillBeSound     *)
(* says so of every request under way.  Codes need no such condition, for  *)
(* the index decides when a campaign is inserted and no later request      *)
(* writes the column.                                                      *)
(***************************************************************************)
SoundRow(row) ==
  /\ row.start < row.end
  /\ ~(row.deleted /\ row.status = "ACTIVE")

Over(row) == row.status \in {"ENDED", "CANCELLED"}

CodesUnique ==
  \A c, d \in Campaigns :
    K!Exists(c) /\ K!Exists(d) /\ campaign[c].voucher = campaign[d].voucher =>
      c = d \/ campaign[c].voucher = None

RowsSound ==
  \A c \in Campaigns \ campaignsRaced : K!Exists(c) =>
    SoundRow(campaign[c]) /\ (c \in ended => Over(campaign[c]))

(* The values of the columns that a request has changed.                   *)
CampaignChange(ch) ==
  /\ "status" \in DOMAIN ch => ch["status"] \in K!Statuses
  /\ "start" \in DOMAIN ch => ch["start"] \in K!Dates
  /\ "end" \in DOMAIN ch => ch["end"] \in K!Dates
  /\ "deleted" \in DOMAIN ch => ch["deleted"] \in BOOLEAN

LeftRow(q) == K!Written(q.change, campaign[q.campaign])

(* The row a request will leave.                                           *)
WillBeSound(q) ==
  /\ q.op = "create" => SoundRow(q.row)
  /\ q.op = "change" =>
       /\ K!Exists(q.campaign) /\ CampaignChange(q.change)
       /\ q.campaign \notin campaignsRaced =>
            SoundRow(LeftRow(q)) /\ (q.campaign \in ended => Over(LeftRow(q)))

(* Requests that have one campaign loaded at once are noted.               *)
RacesNoted ==
  \A r, s \in Requests :
    campaignReq[r] # K!Idle /\ campaignReq[s] # K!Idle
      /\ campaignReq[r].campaign = campaignReq[s].campaign =>
      r = s \/ campaignReq[r].campaign \in campaignsRaced

CampaignsInv ==
  /\ K!TypeOK
  /\ CodesUnique /\ RowsSound
  /\ \A r \in Requests : WillBeSound(campaignReq[r])
  /\ RacesNoted
  /\ \A c \in ended : K!Exists(c)

(* What a change makes of a row: a row with the same code.                 *)
LEMMA CampaignWritten ==
  ASSUME NEW row \in K!CampaignRow, NEW ch, CampaignChange(ch),
         DOMAIN ch \subseteq {"status", "start", "end", "deleted"}
  PROVE  K!Written(ch, row) \in K!CampaignRow /\ K!Written(ch, row).voucher = row.voucher
<1> DEFINE new == [status  |-> IF "status" \in DOMAIN ch THEN ch["status"] ELSE row.status,
                   start   |-> IF "start" \in DOMAIN ch THEN ch["start"] ELSE row.start,
                   end     |-> IF "end" \in DOMAIN ch THEN ch["end"] ELSE row.end,
                   voucher |-> row.voucher,
                   deleted |-> IF "deleted" \in DOMAIN ch
                                 THEN ch["deleted"] ELSE row.deleted]
<1>1. DOMAIN row = {"status", "start", "end", "voucher", "deleted"}
  BY DEF K!CampaignRow
<1>2. DOMAIN ch \cup DOMAIN row = DOMAIN row
  BY <1>1
<1>3. K!Written(ch, row) = [f \in DOMAIN row |-> IF f \in DOMAIN ch THEN ch[f] ELSE row[f]]
  BY <1>2 DEF K!Written
<1>4. K!Written(ch, row) = new
  BY <1>1, <1>3
<1>5. new \in K!CampaignRow
  BY DEF K!CampaignRow, CampaignChange
<1>6. QED BY <1>4, <1>5

(* The columns that changed, written over the row they were changed in,    *)
(* make the changed row.                                                   *)
LEMMA CampaignChanges ==
  ASSUME NEW row \in K!CampaignRow, NEW new \in K!CampaignRow, new.voucher = row.voucher
  PROVE  LET ch == K!Changes(row, new)
         IN /\ K!Written(ch, row) = new
            /\ CampaignChange(ch)
            /\ DOMAIN ch \subseteq {"status", "start", "end", "deleted"}
<1> DEFINE ch == K!Changes(row, new)
           fields == {"status", "start", "end", "voucher", "deleted"}
<1>1. DOMAIN row = fields /\ DOMAIN new = fields
  BY DEF K!CampaignRow
<1>2. ch = [f \in {g \in fields : new[g] # row[g]} |-> new[f]]
  BY <1>1 DEF K!Changes
<1>3. DOMAIN ch = {g \in fields : new[g] # row[g]} /\ \A f \in DOMAIN ch : ch[f] = new[f]
  BY <1>2
<1>4. DOMAIN ch \subseteq {"status", "start", "end", "deleted"}
  BY <1>3
<1>5. CampaignChange(ch)
  BY <1>3 DEF CampaignChange, K!CampaignRow
<1>6. K!Written(ch, row) = [f \in fields |-> IF f \in DOMAIN ch THEN ch[f] ELSE row[f]]
  <2>1. DOMAIN ch \cup DOMAIN row = fields
    BY <1>1, <1>3
  <2>2. QED BY <2>1 DEF K!Written
<1>7. \A f \in fields : (IF f \in DOMAIN ch THEN ch[f] ELSE row[f]) = new[f]
  BY <1>3
<1>8. new = [f \in fields |-> new[f]]
  BY <1>1 DEF K!CampaignRow
<1> HIDE DEF ch
<1>9. K!Written(ch, row) = new
  <2> HIDE DEF fields
  <2>1. [f \in fields |-> IF f \in DOMAIN ch THEN ch[f] ELSE row[f]]
          = [f \in fields |-> new[f]]
    BY <1>7
  <2>2. QED BY <1>6, <1>8, <2>1
<1>10. QED BY <1>4, <1>5, <1>9 DEF ch

(* A request under way has a campaign.                                     *)
LEMMA HasCampaign ==
  ASSUME K!TypeOK, NEW r \in Requests, campaignReq[r] # K!Idle
  PROVE  campaignReq[r].campaign \in Campaigns
  BY DEF K!TypeOK, K!RequestOK

(* A request that starts: from here on it may race with others.            *)
LEMMA CampaignsStarts ==
  ASSUME CampaignsInv, NEW r \in Requests, NEW c \in Campaigns, NEW q,
         K!Starts(r, c, q), K!RequestOK(q), q # K!Idle, q.campaign = c,
         q.op = "create" => SoundRow(q.row),
         q.op = "change" =>
           /\ K!Exists(c) /\ CampaignChange(q.change)
           /\ c \notin campaignsRaced =>
                SoundRow(LeftRow(q)) /\ (c \in ended => Over(LeftRow(q)))
  PROVE  CampaignsInv'
<1>1. /\ campaignReq' = [campaignReq EXCEPT ![r] = q] /\ campaignReq[r] = K!Idle
      /\ campaignsRaced \subseteq campaignsRaced'
      /\ campaignsRaced' \subseteq campaignsRaced \cup {c}
      /\ UNCHANGED <<campaign, ended>>
  BY DEF K!Starts
<1>2. K!TypeOK'
  BY <1>1 DEF CampaignsInv, K!TypeOK
<1>3. CodesUnique' /\ RowsSound' /\ (\A d \in ended : K!Exists(d))'
  BY <1>1 DEF CampaignsInv, CodesUnique, RowsSound, K!Exists
<1>4. ASSUME NEW s \in Requests PROVE WillBeSound(campaignReq[s])'
  <2>1. CASE s = r
    <3>1. campaignReq'[s] = q
      BY <1>1, <2>1 DEF CampaignsInv, K!TypeOK
    <3>2. QED BY <1>1, <3>1 DEF WillBeSound, K!Exists, LeftRow
  <2>2. CASE s # r
    <3>1. campaignReq'[s] = campaignReq[s] /\ WillBeSound(campaignReq[s])
      BY <1>1, <2>2 DEF CampaignsInv, K!TypeOK
    <3>2. QED BY <1>1, <3>1 DEF WillBeSound, K!Exists, LeftRow
  <2>3. QED BY <2>1, <2>2
<1>5. RacesNoted'
  <2> SUFFICES ASSUME NEW s \in Requests, NEW t \in Requests, s # t,
                      campaignReq'[s] # K!Idle, campaignReq'[t] # K!Idle,
                      campaignReq'[s].campaign = campaignReq'[t].campaign
               PROVE  campaignReq'[s].campaign \in campaignsRaced'
    BY DEF RacesNoted
  <2>1. CASE s # r /\ t # r
    <3>1. campaignReq'[s] = campaignReq[s] /\ campaignReq'[t] = campaignReq[t]
      BY <1>1, <2>1 DEF CampaignsInv, K!TypeOK
    <3>2. QED BY <1>1, <3>1 DEF CampaignsInv, RacesNoted
  <2>2. ASSUME NEW p \in Requests, p # r, campaignReq[p] # K!Idle,
               campaignReq[p].campaign = c
        PROVE  c \in campaignsRaced'
    BY <2>2 DEF K!Starts
  <2>3. CASE s = r \/ t = r
    <3>1. PICK p \in {s, t} : p # r
      BY <2>3
    <3>2. campaignReq'[r] = q /\ campaignReq'[p] = campaignReq[p]
      BY <1>1, <3>1 DEF CampaignsInv, K!TypeOK
    <3>3. QED BY <2>2, <2>3, <3>1, <3>2
  <2>4. QED BY <2>1, <2>3
<1>6. QED BY <1>2, <1>3, <1>4, <1>5 DEF CampaignsInv

(* A request that starts to change a row which is sound.                   *)
LEMMA CampaignsLoads ==
  ASSUME CampaignsInv, NEW r \in Requests, NEW c \in Campaigns, NEW new \in K!CampaignRow,
         K!Exists(c), new.voucher = campaign[c].voucher, K!Loads(r, c, new),
         c \notin campaignsRaced => SoundRow(new) /\ (c \in ended => Over(new))
  PROVE  CampaignsInv'
<1> DEFINE ch == K!Changes(campaign[c], new)
           q == [op |-> "change", campaign |-> c, change |-> ch]
<1>1. campaign[c] \in K!CampaignRow
  BY DEF CampaignsInv, K!TypeOK, K!Exists
<1>2. /\ K!Written(ch, campaign[c]) = new /\ CampaignChange(ch)
      /\ DOMAIN ch \subseteq {"status", "start", "end", "deleted"}
  BY <1>1, CampaignChanges
<1>3. K!Starts(r, c, q)
  BY DEF K!Loads
<1> HIDE DEF ch
<1>4. /\ K!RequestOK(q) /\ q # K!Idle /\ q.campaign = c /\ q.op = "change"
      /\ q.change = ch /\ LeftRow(q) = new
  BY <1>2 DEF K!RequestOK, K!Idle, LeftRow
<1> HIDE DEF q
<1>5. QED BY <1>2, <1>3, <1>4, CampaignsStarts

(* Creation: the dates are in order and it is not deleted.                 *)
LEMMA CampaignsReadForCreate ==
  ASSUME CampaignsInv, NEW r \in Requests, NEW c \in Campaigns,
         NEW start \in K!Dates, NEW end \in K!Dates, NEW code \in Vouchers \cup {None},
         K!ReadForCreate(r, c, start, end, code)
  PROVE  CampaignsInv'
<1>1. PICK status \in {"SCHEDULED", "ACTIVE"} :
        K!Starts(r, c, [op |-> "create", campaign |-> c,
                        row |-> [status |-> status, start |-> start, end |-> end,
                                 voucher |-> code, deleted |-> FALSE]])
  BY DEF K!ReadForCreate
<1> DEFINE row == [status |-> status, start |-> start, end |-> end,
                   voucher |-> code, deleted |-> FALSE]
           q == [op |-> "create", campaign |-> c, row |-> row]
<1>2. row \in K!CampaignRow
  BY DEF K!CampaignRow, K!Statuses
<1>3. SoundRow(row)
  BY DEF K!ReadForCreate, K!DatesOK, SoundRow
<1>4. K!RequestOK(q) /\ q # K!Idle /\ q.campaign = c /\ q.op = "create" /\ SoundRow(q.row)
  BY <1>2, <1>3 DEF K!RequestOK, K!Idle
<1> HIDE DEF q
<1>5. QED BY <1>1, <1>4, CampaignsStarts DEF q

(* New dates, for a campaign that is not over.                             *)
LEMMA CampaignsReadForUpdate ==
  ASSUME CampaignsInv, NEW r \in Requests, NEW c \in Campaigns,
         NEW start \in K!Dates, NEW end \in K!Dates, K!ReadForUpdate(r, c, start, end)
  PROVE  CampaignsInv'
<1> DEFINE new == [campaign[c] EXCEPT !.start = start, !.end = end]
<1>1. K!Exists(c) /\ campaign[c] \in K!CampaignRow
  BY DEF K!ReadForUpdate, K!Found, CampaignsInv, K!TypeOK, K!Exists
<1>2. new \in K!CampaignRow /\ new.voucher = campaign[c].voucher
  BY <1>1 DEF K!CampaignRow
<1>3. c \notin campaignsRaced => SoundRow(new) /\ (c \in ended => Over(new))
  BY <1>1 DEF K!ReadForUpdate, K!Found, K!DatesOK, CampaignsInv, RowsSound, SoundRow, Over,
     K!CampaignRow
<1>4. K!Loads(r, c, new)
  BY DEF K!ReadForUpdate
<1> HIDE DEF new
<1>5. QED BY <1>1, <1>2, <1>3, <1>4, CampaignsLoads

(* A status that is allowed: none is after the end.                        *)
LEMMA CampaignsReadForStatus ==
  ASSUME CampaignsInv, NEW r \in Requests, NEW c \in Campaigns, NEW s \in K!Statuses,
         K!ReadForStatus(r, c, s)
  PROVE  CampaignsInv'
<1> DEFINE new == [campaign[c] EXCEPT !.status = s]
<1>1. K!Exists(c) /\ campaign[c] \in K!CampaignRow
  BY DEF K!ReadForStatus, K!Found, CampaignsInv, K!TypeOK, K!Exists
<1>2. new \in K!CampaignRow /\ new.voucher = campaign[c].voucher
  BY <1>1 DEF K!CampaignRow
<1>3. ~Over(campaign[c])
  BY <1>1 DEF K!ReadForStatus, K!Allowed, Over
<1>4. c \notin campaignsRaced => SoundRow(new) /\ (c \in ended => Over(new))
  BY <1>1, <1>3
     DEF K!ReadForStatus, K!Found, CampaignsInv, RowsSound, SoundRow, K!CampaignRow
<1>5. K!Loads(r, c, new)
  BY DEF K!ReadForStatus
<1> HIDE DEF new
<1>6. QED BY <1>1, <1>2, <1>4, <1>5, CampaignsLoads

(* A campaign that runs is not deleted.                                    *)
LEMMA CampaignsReadForDelete ==
  ASSUME CampaignsInv, NEW r \in Requests, NEW c \in Campaigns, K!ReadForDelete(r, c)
  PROVE  CampaignsInv'
<1> DEFINE new == [campaign[c] EXCEPT !.deleted = TRUE]
<1>1. K!Exists(c) /\ campaign[c] \in K!CampaignRow
  BY DEF K!ReadForDelete, K!Found, CampaignsInv, K!TypeOK, K!Exists
<1>2. new \in K!CampaignRow /\ new.voucher = campaign[c].voucher
  BY <1>1 DEF K!CampaignRow
<1>3. c \notin campaignsRaced => SoundRow(new) /\ (c \in ended => Over(new))
  BY <1>1 DEF K!ReadForDelete, CampaignsInv, RowsSound, SoundRow, Over, K!CampaignRow
<1>4. K!Loads(r, c, new)
  BY DEF K!ReadForDelete
<1> HIDE DEF new
<1>5. QED BY <1>1, <1>2, <1>3, <1>4, CampaignsLoads

(* What a request that ends owes the others: those of other campaigns see  *)
(* nothing of it, those of its own were noted to race.                     *)
LEMMA CampaignsEnds ==
  ASSUME CampaignsInv, NEW r \in Requests, campaignReq[r] # K!Idle, K!Ends(r),
         campaignsRaced' = campaignsRaced,
         NEW row \in K!CampaignRow \cup {None},
         campaign' = [campaign EXCEPT ![campaignReq[r].campaign] = row],
         ended \subseteq ended', ended' \subseteq ended \cup {campaignReq[r].campaign},
         K!Exists(campaignReq[r].campaign) => row # None,
         CodesUnique', RowsSound', \A c \in ended' : K!Exists(c)'
  PROVE  CampaignsInv'
<1> DEFINE c == campaignReq[r].campaign
<1>1. c \in Campaigns
  BY HasCampaign DEF CampaignsInv
<1>2. \A s \in Requests : campaignReq'[s] = IF s = r THEN K!Idle ELSE campaignReq[s]
  BY DEF K!Ends, CampaignsInv, K!TypeOK
<1>3. \A d \in Campaigns : campaign'[d] = IF d = c THEN row ELSE campaign[d]
  BY DEF CampaignsInv, K!TypeOK
<1>4. K!TypeOK'
  <2>1. campaign' \in [Campaigns -> K!CampaignRow \cup {None}]
    BY <1>1 DEF CampaignsInv, K!TypeOK
  <2>2. DOMAIN campaignReq' = Requests /\ \A s \in Requests : K!RequestOK(campaignReq'[s])
    BY <1>2 DEF K!Ends, CampaignsInv, K!TypeOK, K!RequestOK
  <2>3. QED BY <1>1, <2>1, <2>2 DEF CampaignsInv, K!TypeOK
<1>5. ASSUME NEW s \in Requests PROVE WillBeSound(campaignReq[s])'
  <2>1. CASE s = r
    BY <1>2, <2>1 DEF WillBeSound, K!Idle
  <2>2. CASE s # r /\ campaignReq[s] = K!Idle
    BY <1>2, <2>2 DEF WillBeSound, K!Idle
  <2>3. CASE s # r /\ campaignReq[s] # K!Idle
    <3>1. /\ campaignReq'[s] = campaignReq[s] /\ WillBeSound(campaignReq[s])
          /\ campaignReq[s].campaign \in Campaigns
      BY <1>2, <2>3, HasCampaign DEF CampaignsInv
    <3>2. CASE campaignReq[s].campaign = c
      <4>1. c \in campaignsRaced
        BY <2>3, <3>2 DEF CampaignsInv, RacesNoted
      <4>2. QED BY <1>3, <3>1, <3>2, <4>1 DEF WillBeSound, K!Exists
    <3>3. CASE campaignReq[s].campaign # c
      BY <1>3, <3>1, <3>3 DEF WillBeSound, K!Exists, LeftRow
    <3>4. QED BY <3>2, <3>3
  <2>4. QED BY <2>1, <2>2, <2>3
<1>6. RacesNoted'
  BY <1>2 DEF CampaignsInv, RacesNoted
<1>7. QED BY <1>4, <1>5, <1>6 DEF CampaignsInv

(* An insertion: the index is what keeps the codes apart.                  *)
LEMMA CampaignsCommitCreate ==
  ASSUME CampaignsInv, NEW r \in Requests, K!CommitCreate(r)
  PROVE  CampaignsInv'
<1> DEFINE c == campaignReq[r].campaign  row == campaignReq[r].row
<1>1. campaignReq[r] # K!Idle /\ c \in Campaigns /\ row \in K!CampaignRow /\ SoundRow(row)
  BY DEF K!CommitCreate, K!Idle, CampaignsInv, K!TypeOK, K!RequestOK, WillBeSound
<1>2. /\ ~K!Exists(c) /\ K!CodeFree(row.voucher)
      /\ campaign' = [campaign EXCEPT ![c] = row]
      /\ UNCHANGED <<campaignsRaced, ended>> /\ K!Ends(r)
  BY DEF K!CommitCreate
<1>3. \A d \in Campaigns : campaign'[d] = IF d = c THEN row ELSE campaign[d]
  BY <1>2 DEF CampaignsInv, K!TypeOK
<1>4. row # None /\ c \notin ended
  BY <1>1, <1>2, NoneAssumption DEF CampaignsInv
<1> HIDE DEF c, row
<1>5. CodesUnique'
  BY <1>2, <1>3 DEF CodesUnique, K!CodeFree, K!Exists, CampaignsInv
<1>6. RowsSound'
  BY <1>1, <1>2, <1>3, <1>4 DEF RowsSound, K!Exists, CampaignsInv
<1>7. \A d \in ended' : K!Exists(d)'
  BY <1>2, <1>3, <1>4 DEF K!Exists, CampaignsInv, K!TypeOK
<1>8. QED BY <1>1, <1>2, <1>4, <1>5, <1>6, <1>7, CampaignsEnds DEF c

(* A change: the row becomes what was decided, unless another came between *)
(* them; its code stays.                                                   *)
LEMMA CampaignsCommitChange ==
  ASSUME CampaignsInv, NEW r \in Requests, K!CommitChange(r)
  PROVE  CampaignsInv'
<1> DEFINE c == campaignReq[r].campaign  row == LeftRow(campaignReq[r])
<1>1. /\ campaignReq[r] # K!Idle /\ c \in Campaigns /\ K!Exists(c)
      /\ CampaignChange(campaignReq[r].change)
      /\ DOMAIN campaignReq[r].change \subseteq {"status", "start", "end", "deleted"}
      /\ c \notin campaignsRaced => SoundRow(row) /\ (c \in ended => Over(row))
  BY DEF K!CommitChange, K!Idle, CampaignsInv, K!TypeOK, K!RequestOK, WillBeSound
<1>2. campaign[c] \in K!CampaignRow
  BY <1>1 DEF CampaignsInv, K!TypeOK, K!Exists
<1>3. row \in K!CampaignRow /\ row.voucher = campaign[c].voucher
  BY <1>1, <1>2, CampaignWritten DEF LeftRow
<1>4. /\ campaign' = [campaign EXCEPT ![c] = row] /\ campaignsRaced' = campaignsRaced
      /\ K!Ends(r)
  BY DEF K!CommitChange, LeftRow
<1>5. \A d \in Campaigns : campaign'[d] = IF d = c THEN row ELSE campaign[d]
  BY <1>4 DEF CampaignsInv, K!TypeOK
<1>6. ended' = IF Over(row) THEN ended \cup {c} ELSE ended
  BY <1>1, <1>5 DEF K!CommitChange, Over
<1>7. row # None
  BY <1>3, NoneAssumption
<1> HIDE DEF c, row
<1>8. CodesUnique'
  BY <1>1, <1>3, <1>5 DEF CodesUnique, K!Exists, CampaignsInv
<1>9. RowsSound'
  BY <1>1, <1>4, <1>5, <1>6 DEF RowsSound, K!Exists, CampaignsInv
<1>10. \A d \in ended' : K!Exists(d)'
  BY <1>1, <1>5, <1>6, <1>7 DEF K!Exists, CampaignsInv, K!TypeOK
<1>11. QED BY <1>1, <1>3, <1>4, <1>6, <1>7, <1>8, <1>9, <1>10, CampaignsEnds DEF c

(* A request that gives up leaves nothing.                                 *)
LEMMA CampaignsRollback ==
  ASSUME CampaignsInv, NEW r \in Requests, K!Rollback(r)
  PROVE  CampaignsInv'
<1>1. \A s \in Requests : campaignReq'[s] = IF s = r THEN K!Idle ELSE campaignReq[s]
  BY DEF K!Rollback, K!Ends, CampaignsInv, K!TypeOK
<1>2. DOMAIN campaignReq' = Requests /\ UNCHANGED <<campaign, campaignsRaced, ended>>
  BY DEF K!Rollback, K!Ends, CampaignsInv, K!TypeOK
<1>3. K!TypeOK'
  BY <1>1, <1>2 DEF CampaignsInv, K!TypeOK, K!RequestOK
<1>4. \A s \in Requests : WillBeSound(campaignReq[s])'
  BY <1>1, <1>2 DEF CampaignsInv, WillBeSound, K!Idle, K!Exists, LeftRow
<1>5. CodesUnique' /\ RowsSound' /\ RacesNoted' /\ (\A c \in ended : K!Exists(c))'
  BY <1>1, <1>2 DEF CampaignsInv, CodesUnique, RowsSound, RacesNoted, K!Exists
<1>6. QED BY <1>3, <1>4, <1>5 DEF CampaignsInv

(* Rows are sound, and so is what requests under way will make of them, as *)
(* long as no two had loaded one at once; codes are unique in any case.    *)
LEMMA CampaignsInvariance == K!Spec => []CampaignsInv
<1>1. K!Init => CampaignsInv
  BY DEF K!Init, CampaignsInv, K!TypeOK, K!RequestOK, CodesUnique, RowsSound, WillBeSound,
         RacesNoted, K!Exists, K!Idle
<1>2. CampaignsInv /\ [K!Next]_K!vars => CampaignsInv'
  <2> SUFFICES ASSUME CampaignsInv, [K!Next]_K!vars PROVE CampaignsInv'
    OBVIOUS
  <2>1. CASE UNCHANGED K!vars
    BY <2>1 DEF K!vars, CampaignsInv, K!TypeOK, CodesUnique, RowsSound, WillBeSound,
                RacesNoted, K!Exists, LeftRow
  <2>2. ASSUME NEW r \in Requests, K!Handler(r) PROVE CampaignsInv'
    BY <2>2, CampaignsReadForCreate, CampaignsReadForUpdate, CampaignsReadForStatus,
       CampaignsReadForDelete, CampaignsCommitCreate, CampaignsCommitChange,
       CampaignsRollback DEF K!Handler
  <2>3. QED BY <2>1, <2>2 DEF K!Next
<1>3. QED BY <1>1, <1>2, PTL DEF K!Spec

-----------------------------------------------------------------------------
(***************************************************************************)
(* Webhooks.  An event that was not rolled back after its answer is        *)
(* accepted once at most, and only if it is stored or its answer is out    *)
(* and the commit is to come; an open insertion is the only one of its id, *)
(* and its id is not stored yet; and whoever lost the race or was turned   *)
(* away found the id stored, where it stays.                               *)
(***************************************************************************)
Open(d) == delivery[d].at \in {"inserted", "answered"}

(* What an answer rests on.                                                *)
CountOK ==
  /\ stored \subseteq Ids
  /\ \A id \in Ids \ undone :
       \/ accepted[id] = 0
       \/ /\ accepted[id] = 1
          /\ \/ id \in stored
             \/ \E d \in Requests : delivery[d].at = "answered" /\ delivery[d].id = id

(* Whoever is told of a duplicate, or is about to be, is told the truth.   *)
DeniedStored ==
  /\ denied \subseteq stored
  /\ \A d \in Requests : delivery[d].at = "lost" => delivery[d].id \in stored

(* What the unique key does for insertions that are still open.            *)
OpenAlone ==
  \A d \in Requests : Open(d) =>
    /\ delivery[d].id \notin stored
    /\ \A e \in Requests : Open(e) /\ delivery[e].id = delivery[d].id => e = d

WebhooksInv == W!TypeOK /\ CountOK /\ DeniedStored /\ OpenAlone

(* What another action does not touch cannot hurt.                         *)
LEMMA WebhooksStutters == WebhooksInv /\ UNCHANGED W!vars => WebhooksInv'
  BY DEF WebhooksInv, W!TypeOK, CountOK, DeniedStored, OpenAlone, Open, W!vars

(* A delivery looks its event up and finds it, or does not.                *)
LEMMA WebhooksLookUp ==
  ASSUME WebhooksInv, NEW d \in Requests, NEW id \in Ids, W!LookUp(d, id)
  PROVE  WebhooksInv'
<1>1. CASE id \in stored
  <2>1. /\ denied' = denied \cup {id}
        /\ UNCHANGED <<stored, delivery, accepted, undone>>
    BY <1>1 DEF W!LookUp
  <2>2. W!TypeOK' /\ DeniedStored'
    BY <1>1, <2>1 DEF WebhooksInv, W!TypeOK, DeniedStored
  <2>3. CountOK' /\ OpenAlone'
    BY <2>1 DEF WebhooksInv, CountOK, OpenAlone, Open
  <2> QED
    BY <2>2, <2>3 DEF WebhooksInv
<1>2. CASE id \notin stored
  <2>1. /\ delivery[d].at \notin {"inserted", "answered", "lost"}
        /\ delivery' = [delivery EXCEPT ![d] = [at |-> "unseen", id |-> id]]
        /\ UNCHANGED <<stored, accepted, denied, undone>>
    BY <1>2 DEF W!LookUp, W!Goes, W!Idle
  <2>2. \A e \in Requests :
          delivery'[e] = IF e = d THEN [at |-> "unseen", id |-> id] ELSE delivery[e]
    BY <2>1 DEF WebhooksInv, W!TypeOK
  <2>3. W!TypeOK'
    BY <2>1 DEF WebhooksInv, W!TypeOK
  <2>4. CountOK' /\ DeniedStored' /\ OpenAlone'
    BY <2>1, <2>2 DEF WebhooksInv, CountOK, DeniedStored, OpenAlone, Open
  <2> QED
    BY <2>3, <2>4 DEF WebhooksInv
<1>3. QED BY <1>1, <1>2

(* The flush: the id is free, or its row is there by now.                  *)
LEMMA WebhooksInsert ==
  ASSUME WebhooksInv, NEW d \in Requests, W!Insert(d)
  PROVE  WebhooksInv'
<1> DEFINE id == delivery[d].id
<1>1. id \in Ids /\ ~W!Held(id) /\ UNCHANGED <<stored, accepted, denied, undone>>
  BY DEF WebhooksInv, W!TypeOK, W!Insert, W!Idle
<1>2. CASE id \in stored
  <2>1. delivery' = [delivery EXCEPT ![d] = [at |-> "lost", id |-> id]]
    BY <1>2 DEF W!Insert, W!Goes, W!Taken
  <2>2. QED BY <1>1, <1>2, <2>1 DEF WebhooksInv, W!TypeOK, CountOK, DeniedStored, OpenAlone, Open
<1>3. CASE id \notin stored
  <2>1. delivery' = [delivery EXCEPT ![d] = [at |-> "inserted", id |-> id]]
    BY <1>3 DEF W!Insert, W!Goes, W!Taken
  <2>2. QED BY <1>1, <1>3, <2>1
        DEF WebhooksInv, W!TypeOK, CountOK, DeniedStored, OpenAlone, Open, W!Held
<1>4. QED BY <1>2, <1>3

(* The answer that is a duplicate.                                         *)
LEMMA WebhooksLosesRace ==
  ASSUME WebhooksInv, NEW d \in Requests, W!LosesRace(d)
  PROVE  WebhooksInv'
  BY DEF WebhooksInv, W!TypeOK, CountOK, DeniedStored, OpenAlone, Open, W!LosesRace,
     W!Ends, W!Idle

(* The answer to an open insertion, which is the only one of its id: if    *)
(* the id was accepted before, that was rolled back.                       *)
LEMMA WebhooksProcessed ==
  ASSUME WebhooksInv, NEW d \in Requests, W!Processed(d)
  PROVE  WebhooksInv'
<1> DEFINE id == delivery[d].id
<1>1. id \in Ids /\ id \notin stored /\ delivery[d].at = "inserted"
  BY DEF WebhooksInv, W!TypeOK, OpenAlone, Open, W!Processed, W!Idle
<1>2. /\ accepted' = [accepted EXCEPT ![id] = @ + 1]
      /\ delivery' = [delivery EXCEPT ![d] = [at |-> "answered", id |-> id]]
      /\ UNCHANGED <<stored, denied, undone>>
  BY DEF W!Processed, W!Goes
<1>3. \A e \in Requests : delivery[e].at = "answered" => delivery[e].id # id
  BY <1>1 DEF WebhooksInv, OpenAlone, Open
<1>4. id \notin undone => accepted[id] = 0
  BY <1>1, <1>3 DEF WebhooksInv, CountOK
<1>5. \A e \in Requests : delivery'[e] = IF e = d THEN [at |-> "answered", id |-> id]
                                         ELSE delivery[e]
  BY <1>2 DEF WebhooksInv, W!TypeOK
<1>6. CountOK'
  <2> SUFFICES ASSUME NEW i \in Ids, i \notin undone
               PROVE  \/ accepted'[i] = 0
                      \/ /\ accepted'[i] = 1
                         /\ \/ i \in stored
                            \/ \E e \in Requests :
                                 delivery'[e].at = "answered" /\ delivery'[e].id = i
    BY <1>2 DEF CountOK, WebhooksInv
  <2>1. CASE i = id
    BY <1>1, <1>2, <1>4, <1>5, <2>1 DEF WebhooksInv, W!TypeOK
  <2>2. CASE i # id
    <3>1. accepted'[i] = accepted[i]
      BY <1>2, <2>2 DEF WebhooksInv, W!TypeOK
    <3>2. \A e \in Requests : delivery[e].at = "answered" => delivery'[e] = delivery[e]
      BY <1>1, <1>5
    <3> QED
      BY <3>1, <3>2 DEF WebhooksInv, CountOK
  <2> QED
    BY <2>1, <2>2
<1>7. DeniedStored' /\ OpenAlone'
  BY <1>1, <1>2, <1>5 DEF WebhooksInv, W!TypeOK, DeniedStored, OpenAlone, Open
<1>8. W!TypeOK'
  <2>1. accepted[id] + 1 \in 0..MaxAnswers
    BY <1>1, BoundAssumption DEF WebhooksInv, W!TypeOK, W!Processed
  <2>2. accepted' \in [Ids -> 0..MaxAnswers]
    BY <1>1, <1>2, <2>1 DEF WebhooksInv, W!TypeOK
  <2>3. QED BY <1>1, <1>2, <2>2 DEF WebhooksInv, W!TypeOK
<1>9. QED BY <1>6, <1>7, <1>8 DEF WebhooksInv

(* The commit behind the answer.                                           *)
LEMMA WebhooksCommit ==
  ASSUME WebhooksInv, NEW d \in Requests, W!Commit(d)
  PROVE  WebhooksInv'
<1> DEFINE id == delivery[d].id
<1>1. id \in Ids /\ delivery[d].at = "answered"
  BY DEF WebhooksInv, W!TypeOK, W!Commit, W!Idle
<1>2. /\ stored' = stored \cup {id} /\ UNCHANGED <<accepted, denied, undone>>
      /\ \A e \in Requests : delivery'[e] = IF e = d THEN W!Idle ELSE delivery[e]
      /\ delivery' = [delivery EXCEPT ![d] = W!Idle]
  BY DEF W!Commit, W!Ends, WebhooksInv, W!TypeOK
<1>3. CountOK'
  BY <1>1, <1>2 DEF WebhooksInv, CountOK
<1>4. DeniedStored'
  BY <1>2 DEF WebhooksInv, DeniedStored, W!Idle
<1>5. OpenAlone'
  BY <1>1, <1>2 DEF WebhooksInv, OpenAlone, Open, W!Idle
<1>6. W!TypeOK'
  BY <1>1, <1>2 DEF WebhooksInv, W!TypeOK
<1>7. QED BY <1>3, <1>4, <1>5, <1>6 DEF WebhooksInv

(* A failure leaves nothing of the row; an answer that is out is undone.   *)
LEMMA WebhooksFails ==
  ASSUME WebhooksInv, NEW d \in Requests, W!Fails(d)
  PROVE  WebhooksInv'
<1>1. /\ UNCHANGED <<stored, accepted, denied>> /\ undone \subseteq undone'
      /\ undone' \subseteq Ids
      /\ delivery[d].at = "answered" => delivery[d].id \in undone'
      /\ \A e \in Requests : delivery'[e] = IF e = d THEN W!Idle ELSE delivery[e]
      /\ delivery' = [delivery EXCEPT ![d] = W!Idle]
  BY DEF W!Fails, W!Ends, WebhooksInv, W!TypeOK, W!Idle
<1>2. CountOK'
  BY <1>1 DEF WebhooksInv, CountOK
<1>3. DeniedStored' /\ OpenAlone'
  BY <1>1 DEF WebhooksInv, DeniedStored, OpenAlone, Open, W!Idle
<1>4. W!TypeOK'
  BY <1>1 DEF WebhooksInv, W!TypeOK
<1>5. QED BY <1>2, <1>3, <1>4 DEF WebhooksInv

(* The invariant implies the property: who is denied found an event that   *)
(* is stored, and what was not undone was accepted once at most.           *)
LEMMA WebhooksAccepts == WebhooksInv => W!AcceptedOnce
  BY DEF WebhooksInv, CountOK, DeniedStored, W!AcceptedOnce

(* Answers rest on what is stored or open, insertions are alone, and no    *)
(* answer is wrong, whatever deliveries overlap and fail.                  *)
LEMMA WebhooksInvariance == W!Spec => []WebhooksInv
<1>1. W!Init => WebhooksInv
  BY BoundAssumption DEF W!Init, WebhooksInv, W!TypeOK, CountOK, DeniedStored, OpenAlone,
     Open, W!Idle
<1>2. WebhooksInv /\ [W!Next]_W!vars => WebhooksInv'
  <2> SUFFICES ASSUME WebhooksInv, [W!Next]_W!vars PROVE WebhooksInv'
    OBVIOUS
  <2>1. CASE UNCHANGED W!vars
    BY <2>1, WebhooksStutters
  <2>2. CASE W!Next
    <3>1. PICK d \in Requests :
            \/ \E id \in Ids : W!LookUp(d, id)
            \/ W!Insert(d) \/ W!LosesRace(d) \/ W!Processed(d) \/ W!Commit(d) \/ W!Fails(d)
      BY <2>2 DEF W!Next
    <3>2. QED BY <3>1, WebhooksLookUp, WebhooksInsert, WebhooksLosesRace, WebhooksProcessed,
                 WebhooksCommit, WebhooksFails
  <2>3. QED BY <2>1, <2>2
<1>3. QED BY <1>1, <1>2, PTL DEF W!Spec

-----------------------------------------------------------------------------
(***************************************************************************)
(* Offers.  A request found no running offer for its purpose, and that is  *)
(* still so when it adds one, unless another request was there for the     *)
(* same purpose: the two were then under way at once, and noted.           *)
(***************************************************************************)
OfferAlone ==
  \A r, s \in Requests :
    /\ offerReq[r] # O!Idle /\ offerReq[s] # O!Idle
    /\ offerReq[r].purpose = offerReq[s].purpose
    => r = s \/ offerReq[r].purpose \in offersRaced

NoneRuns ==
  \A r \in Requests : offerReq[r] # O!Idle /\ offerReq[r].purpose \notin offersRaced =>
    O!Runs(offerReq[r].purpose) = {}

OneRuns ==
  \A x \in O!Purposes \ offersRaced : \A i, j \in O!Runs(x) : i = j

CodesDiffer ==
  \A i, j \in DOMAIN offers :
    offers[i].code = offers[j].code => i = j \/ offers[i].code = None

OffersInv == O!TypeOK /\ OfferAlone /\ NoneRuns /\ OneRuns /\ CodesDiffer

(* An offer under way has a purpose and a code.                            *)
LEMMA OfferHas ==
  ASSUME O!TypeOK, NEW r \in Requests, offerReq[r] # O!Idle
  PROVE  offerReq[r].purpose \in O!Purposes /\ offerReq[r].code \in O!Codes
  BY DEF O!TypeOK

(* A request begins: if another is there for its purpose, that is noted.   *)
LEMMA OffersStart ==
  ASSUME OffersInv, NEW r \in Requests, NEW x \in O!Purposes, NEW code \in O!Codes,
         O!Starts(r, x, code)
  PROVE  OffersInv'
<1> DEFINE new == [op |-> "offer", purpose |-> x, code |-> code]
<1>1. /\ offerReq[r] = O!Idle /\ O!Runs(x) = {}
      /\ \A q \in Requests : offerReq'[q] = IF q = r THEN new ELSE offerReq[q]
      /\ offersRaced \subseteq offersRaced' /\ offersRaced' \subseteq offersRaced \cup {x}
      /\ \A q \in Requests : offerReq[q] # O!Idle /\ offerReq[q].purpose = x =>
           x \in offersRaced'
      /\ offers' = offers /\ checkedOut' = checkedOut
  BY DEF O!Starts, OffersInv, O!TypeOK
<1>2. new.purpose = x /\ new.code = code
  OBVIOUS
<1>3. O!TypeOK'
  <2>1. offerReq' \in [Requests -> {O!Idle} \cup
                         [op : {"offer"}, purpose : O!Purposes, code : O!Codes]]
    BY DEF O!Starts, OffersInv, O!TypeOK
  <2>2. offersRaced' \subseteq O!Purposes
    BY <1>1 DEF OffersInv, O!TypeOK
  <2> QED
    BY <1>1, <2>1, <2>2 DEF OffersInv, O!TypeOK, O!OfferRow, O!Codes, O!CodesOf
<1> HIDE DEF new
<1>4. \A y : O!Runs(y)' = O!Runs(y)
  BY <1>1 DEF O!Runs
<1>5. OfferAlone'
  BY <1>1, <1>2 DEF OffersInv, OfferAlone
<1>6. NoneRuns'
  <2> SUFFICES ASSUME NEW q \in Requests, offerReq'[q] # O!Idle,
                      offerReq'[q].purpose \notin offersRaced'
               PROVE  (O!Runs(offerReq[q].purpose) = {})'
    BY DEF NoneRuns
  <2>1. O!Runs(offerReq'[q].purpose) = {}
    BY <1>1, <1>2 DEF OffersInv, NoneRuns
  <2> QED
    BY <1>1, <2>1 DEF O!Runs
<1>7. OneRuns' /\ CodesDiffer'
  BY <1>1, <1>4 DEF OffersInv, OneRuns, CodesDiffer
<1> QED
  BY <1>3, <1>5, <1>6, <1>7 DEF OffersInv

(* A request ends without an offer.                                        *)
LEMMA OffersRollback ==
  ASSUME OffersInv, NEW r \in Requests, O!Rollback(r)
  PROVE  OffersInv'
<1>1. /\ \A q \in Requests : offerReq'[q] = IF q = r THEN O!Idle ELSE offerReq[q]
      /\ offers' = offers /\ checkedOut' = checkedOut /\ offersRaced' = offersRaced
  BY DEF O!Rollback, OffersInv, O!TypeOK
<1>2. O!TypeOK'
  BY <1>1 DEF O!Rollback, OffersInv, O!TypeOK
<1>3. OfferAlone' /\ NoneRuns' /\ OneRuns' /\ CodesDiffer'
  BY <1>1 DEF OffersInv, OfferAlone, NoneRuns, OneRuns, CodesDiffer, O!Runs
<1> QED
  BY <1>2, <1>3 DEF OffersInv

(* An offer is added: nobody else is there for its purpose, or it is noted.*)
LEMMA OffersCommit ==
  ASSUME OffersInv, NEW r \in Requests, O!CommitOffer(r)
  PROVE  OffersInv'
<1> DEFINE x == offerReq[r].purpose
           new == [purpose |-> x, code |-> offerReq[r].code, runs |-> TRUE]
           n == Len(offers) + 1
<1>1. /\ offerReq[r] # O!Idle /\ Len(offers) < MaxOffers /\ O!CodeFree(offerReq[r].code)
      /\ offers' = Append(offers, new)
      /\ \A q \in Requests : offerReq'[q] = IF q = r THEN O!Idle ELSE offerReq[q]
      /\ checkedOut' = checkedOut /\ offersRaced' = offersRaced
  BY DEF O!CommitOffer, OffersInv, O!TypeOK
<1>2. x \in O!Purposes /\ offerReq[r].code \in O!Codes
  BY <1>1, OfferHas DEF OffersInv
<1>3. new \in O!OfferRow /\ offers \in Seq(O!OfferRow)
  BY <1>2 DEF O!OfferRow, OffersInv, O!TypeOK
<1>4. new.purpose = x /\ new.code = offerReq[r].code
  OBVIOUS
<1> HIDE DEF new, x
<1>5. /\ DOMAIN offers = 1..Len(offers) /\ Len(offers) \in Nat
      /\ DOMAIN offers' = 1..n /\ Len(offers') = n
      /\ offers' \in Seq(O!OfferRow)
      /\ \A i \in 1..n : offers'[i] = IF i = n THEN new ELSE offers[i]
  BY <1>1, <1>3
<1>6. n \in Nat /\ \A i \in 1..n : i # n => i \in 1..Len(offers)
  BY <1>5
<1>7. Len(offers') <= MaxOffers
  BY <1>1, <1>5, BoundAssumption
<1> HIDE DEF n
<1>8. O!TypeOK'
  <2>1. offerReq' \in [Requests -> {O!Idle} \cup
                         [op : {"offer"}, purpose : O!Purposes, code : O!Codes]]
    BY DEF O!CommitOffer, OffersInv, O!TypeOK
  <2> QED
    BY <1>1, <1>5, <1>7, <2>1 DEF OffersInv, O!TypeOK
<1>9. ASSUME NEW y PROVE /\ O!Runs(y)' \subseteq O!Runs(y) \cup {n}
                         /\ n \in O!Runs(y)' => y = x
  BY <1>4, <1>5, <1>6 DEF O!Runs
<1>10. OfferAlone'
  BY <1>1 DEF OffersInv, OfferAlone
<1>11. NoneRuns'
  <2> SUFFICES ASSUME NEW q \in Requests, offerReq'[q] # O!Idle,
                      offerReq'[q].purpose \notin offersRaced'
               PROVE  (O!Runs(offerReq[q].purpose) = {})'
    BY DEF NoneRuns
  <2>1. PICK y : y = offerReq[q].purpose
    OBVIOUS
  <2>2. q # r /\ offerReq'[q] = offerReq[q] /\ y \notin offersRaced
    BY <1>1, <2>1
  <2>3. y # x /\ O!Runs(y) = {}
    BY <1>1, <2>1, <2>2 DEF OffersInv, OfferAlone, NoneRuns, x
  <2>4. O!Runs(y)' = {}
    BY <1>9, <2>3
  <2>5. (offerReq[q].purpose)' = y
    BY <2>1, <2>2
  <2> QED
    BY <2>4, <2>5 DEF O!Runs
<1>12. OneRuns'
  <2> SUFFICES ASSUME NEW y \in O!Purposes, y \notin offersRaced', NEW i \in O!Runs(y)',
                      NEW j \in O!Runs(y)'
               PROVE  i = j
    BY DEF OneRuns
  <2>1. CASE y = x
    <3>1. O!Runs(y) = {}
      BY <1>1, <2>1 DEF OffersInv, NoneRuns, x
    <3> QED
      BY <1>9, <3>1
  <2>2. CASE y # x
    BY <1>1, <1>9, <2>2 DEF OffersInv, OneRuns
  <2> QED
    BY <2>1, <2>2
<1>13. CodesDiffer'
  <2>1. \A i \in 1..Len(offers) : offers[i].code = new.code => new.code = None
    BY <1>1, <1>4, <1>5 DEF O!CodeFree, O!Used
  <2> SUFFICES ASSUME NEW i \in 1..n, NEW j \in 1..n, i # j,
                      offers'[i].code = offers'[j].code
               PROVE  offers'[i].code = None
    BY <1>5 DEF CodesDiffer
  <2>2. CASE i # n /\ j # n
    BY <1>5, <1>6, <2>2 DEF OffersInv, CodesDiffer
  <2>3. CASE i = n
    BY <1>5, <1>6, <2>1, <2>3
  <2>4. CASE j = n
    BY <1>5, <1>6, <2>1, <2>4
  <2> QED
    BY <2>2, <2>3, <2>4
<1> QED
  BY <1>8, <1>10, <1>11, <1>12, <1>13 DEF OffersInv

(* An offer ends.                                                          *)
LEMMA OffersExpire ==
  ASSUME OffersInv, NEW i \in DOMAIN offers, O!Expire(i)
  PROVE  OffersInv'
<1> DEFINE row == [offers[i] EXCEPT !.runs = FALSE]
<1>1. /\ offers' = [offers EXCEPT ![i] = row]
      /\ checkedOut' = checkedOut /\ offerReq' = offerReq /\ offersRaced' = offersRaced
  BY DEF O!Expire
<1>2. offers \in Seq(O!OfferRow)
  BY DEF OffersInv, O!TypeOK
<1>3. offers[i] \in O!OfferRow
  BY <1>2
<1>4. /\ row \in O!OfferRow /\ row.purpose = offers[i].purpose /\ row.code = offers[i].code
      /\ ~row.runs
  BY <1>3 DEF O!OfferRow
<1> HIDE DEF row
<1>5. /\ offers' \in Seq(O!OfferRow) /\ Len(offers') = Len(offers)
      /\ DOMAIN offers' = DOMAIN offers
      /\ \A j \in DOMAIN offers : offers'[j] = IF j = i THEN row ELSE offers[j]
  BY <1>1, <1>2, <1>4
<1>6. O!TypeOK'
  BY <1>1, <1>5 DEF OffersInv, O!TypeOK
<1>7. \A y : O!Runs(y)' \subseteq O!Runs(y)
  BY <1>4, <1>5 DEF O!Runs
<1>8. OfferAlone'
  BY <1>1 DEF OffersInv, OfferAlone
<1>9. NoneRuns'
  <2> SUFFICES ASSUME NEW q \in Requests, offerReq'[q] # O!Idle,
                      offerReq'[q].purpose \notin offersRaced'
               PROVE  (O!Runs(offerReq[q].purpose) = {})'
    BY DEF NoneRuns
  <2>1. PICK y : y = offerReq[q].purpose
    OBVIOUS
  <2>2. O!Runs(y)' = {}
    BY <1>1, <1>7, <2>1 DEF OffersInv, NoneRuns
  <2>3. (offerReq[q].purpose)' = y
    BY <1>1, <2>1
  <2> QED
    BY <2>2, <2>3 DEF O!Runs
<1>10. OneRuns'
  BY <1>1, <1>7 DEF OffersInv, OneRuns
<1>11. CodesDiffer'
  BY <1>4, <1>5 DEF OffersInv, CodesDiffer
<1> QED
  BY <1>6, <1>8, <1>9, <1>10, <1>11 DEF OffersInv

(* The instance counts as the library does.                                *)
LEMMA OffersCount ==
  ASSUME NEW T
  PROVE  O!Cardinality(T) = Cardinality(T)
  BY DEF O!Cardinality, Cardinality

(* One running offer at most is what the invariant says of each purpose.   *)
LEMMA OffersAreUnique ==
  ASSUME OffersInv
  PROVE  O!OffersUnique
<1>1. ASSUME NEW x \in O!Purposes \ offersRaced
      PROVE  O!Cardinality(O!Runs(x)) <= 1
  <2> DEFINE those == O!Runs(x)
  <2>1. \A i, j \in those : i = j
    BY DEF OffersInv, OneRuns
  <2>2. CASE those = {}
    <3>1. Cardinality({}) = 0
      BY FS_EmptySet
    <3> QED
      BY <2>2, <3>1, OffersCount
  <2>3. CASE those # {}
    <3>1. PICK i : those = {i}
      BY <2>1, <2>3
    <3>2. Cardinality({i}) = 1
      BY FS_Singleton
    <3> QED
      BY <3>1, <3>2, OffersCount
  <2> QED
    BY <2>2, <2>3
<1> QED
  BY <1>1 DEF OffersInv, CodesDiffer, O!OffersUnique

(* Codes differ, and purposes nobody raced for have one offer at most.     *)
LEMMA OffersInvariance == O!Spec => []OffersInv
<1>1. O!Init => OffersInv
  <2> SUFFICES ASSUME O!Init PROVE OffersInv
    OBVIOUS
  <2>1. /\ offers = <<>> /\ <<>> \in Seq(O!OfferRow) /\ Len(<<>>) <= MaxOffers
        /\ DOMAIN offers = {}
    BY BoundAssumption DEF O!Init
  <2>2. O!TypeOK
    BY <2>1 DEF O!Init, O!TypeOK
  <2>3. \A x : O!Runs(x) = {}
    BY <2>1 DEF O!Runs
  <2> QED
    BY <2>1, <2>2, <2>3 DEF O!Init, OffersInv, OfferAlone, NoneRuns, OneRuns, CodesDiffer
<1>2. OffersInv /\ [O!Next]_O!vars => OffersInv'
  <2> SUFFICES ASSUME OffersInv, [O!Next]_O!vars PROVE OffersInv'
    OBVIOUS
  <2>1. CASE UNCHANGED O!vars
    BY <2>1 DEF O!vars, OffersInv, O!TypeOK, OfferAlone, NoneRuns, OneRuns, CodesDiffer,
       O!Runs
  <2>2. ASSUME NEW r \in Requests, NEW c \in Carts, O!ReadForFreeship(r, c)
        PROVE  OffersInv'
    <3>1. O!Starts(r, c, None) /\ c \in O!Purposes
      BY <2>2 DEF O!ReadForFreeship, O!Purposes
    <3>2. None \in O!Codes
      BY DEF O!Codes
    <3> QED
      BY <3>1, <3>2, OffersStart
  <2>3. ASSUME NEW r \in Requests, NEW u \in Users, O!ReadForVoucher(r, u)
        PROVE  OffersInv'
    <3>1. PICK i \in DOMAIN Candidates[u] : O!Starts(r, u, Candidates[u][i])
      BY <2>3 DEF O!ReadForVoucher
    <3>2. u \in O!Purposes /\ Candidates[u][i] \in O!Codes
      <4>1. Candidates[u][i] \in O!CodesOf(u)
        BY DEF O!CodesOf
      <4>2. O!CodesOf(u) \subseteq O!Codes
        BY DEF O!Codes
      <4> QED
        BY <4>1, <4>2 DEF O!Purposes
    <3> QED
      BY <3>1, <3>2, OffersStart
  <2>4. ASSUME NEW c \in Carts, O!CheckOut(c)
        PROVE  OffersInv'
    BY <2>4 DEF O!CheckOut, OffersInv, O!TypeOK, OfferAlone, NoneRuns, OneRuns,
       CodesDiffer, O!Runs
  <2> QED
    BY <2>1, <2>2, <2>3, <2>4, OffersCommit, OffersRollback, OffersExpire DEF O!Next
<1> QED
  BY <1>1, <1>2, PTL DEF O!Spec

-----------------------------------------------------------------------------
(***************************************************************************)
(* Pushes.  A device a push holds is its user's, unless it was registered  *)
(* anew since the push had loaded it: only a registration writes an owner. *)
(* Rows of devices are never deleted, and what is written to one that is   *)
(* there are columns of a row of devices.                                  *)
(***************************************************************************)
DeviceColumns(w) ==
  /\ DOMAIN w \subseteq {"owner", "active"}
  /\ "owner" \in DOMAIN w => w["owner"] \in Users
  /\ "active" \in DOMAIN w => w["active"] \in BOOLEAN

Registered == {d \in Devices : N!Exists(d)}

(* The devices a push will call, or switch off.                            *)
Holds(q) ==
  IF q.op = "loaded" THEN q.devices ELSE IF q.op = "pushed" THEN q.gone ELSE {}

(* They are its user's, or are known to have been taken over.              *)
HoldsOwn(q, rows) ==
  \A d \in Holds(q) : rows[d] # None /\ (rows[d].owner = q.user \/ d \in q.taken)

(* What a request writes fits the rows of the devices in ds.               *)
DeviceFits(q, ds) ==
  /\ q.op = "register" /\ q.new => q.change \in N!DeviceRow
  /\ q.op = "register" /\ ~q.new => q.device \in ds /\ DeviceColumns(q.change)
  /\ q.op = "unregister" => /\ q.device \in ds /\ DeviceColumns(q.change)
                            /\ "owner" \notin DOMAIN q.change

PushInv ==
  /\ N!TypeOK
  /\ \A r \in Requests : DeviceFits(pushReq[r], Registered) /\ HoldsOwn(pushReq[r], device)
  /\ N!PushesReachOwner

(* The fields of a request, by its operation.                              *)
LEMMA PushHas ==
  ASSUME N!TypeOK, NEW r \in Requests
  PROVE  /\ pushReq[r].op = "register" =>
              pushReq[r].device \in Devices /\ pushReq[r].new \in BOOLEAN
         /\ pushReq[r].op = "unregister" => pushReq[r].device \in Devices
         /\ pushReq[r].op = "counted" => pushReq[r].user \in Users
         /\ pushReq[r].op = "loaded" => /\ pushReq[r].user \in Users
                                        /\ pushReq[r].devices \in SUBSET Devices
                                        /\ pushReq[r].taken \in SUBSET Devices
         /\ pushReq[r].op = "pushed" => /\ pushReq[r].user \in Users
                                        /\ pushReq[r].sent \in BOOLEAN
                                        /\ pushReq[r].gone \in SUBSET Devices
                                        /\ pushReq[r].taken \in SUBSET Devices
  BY DEF N!TypeOK, N!Request, N!Idle

(* Columns of a device written over a row make a row.                      *)
LEMMA DeviceWritten ==
  ASSUME NEW row \in N!DeviceRow, NEW w, DeviceColumns(w)
  PROVE  N!Written(w, row) \in N!DeviceRow
<1> DEFINE new == N!Written(w, row)
<1>1. DOMAIN row = {"owner", "active"}
  BY DEF N!DeviceRow
<1>2. new = [f \in {"owner", "active"} |-> IF f \in DOMAIN w THEN w[f] ELSE row[f]]
  BY <1>1 DEF N!Written, DeviceColumns
<1>3. new["owner"] \in Users /\ new["active"] \in BOOLEAN
  BY <1>2 DEF N!DeviceRow, DeviceColumns
<1>4. new = [owner |-> new["owner"], active |-> new["active"]]
  BY <1>2
<1> HIDE DEF new
<1>5. new \in N!DeviceRow
  BY <1>3, <1>4 DEF N!DeviceRow
<1> QED
  BY <1>5 DEF new

(* The columns in which two rows of devices differ.                        *)
LEMMA DeviceChanges ==
  ASSUME NEW row \in N!DeviceRow, NEW new \in N!DeviceRow
  PROVE  DeviceColumns(N!Changes(row, new)) /\ N!Changes(row, new) \in N!Change
<1> DEFINE w == N!Changes(row, new)
<1>1. DOMAIN row = {"owner", "active"} /\ new.owner \in Users /\ new.active \in BOOLEAN
  BY DEF N!DeviceRow
<1>2. /\ w = [f \in DOMAIN w |-> new[f]]
      /\ DOMAIN w = {f \in {"owner", "active"} : new[f] # row[f]}
  BY <1>1 DEF N!Changes
<1> HIDE DEF w
<1>3. DeviceColumns(w)
  BY <1>1, <1>2 DEF DeviceColumns
<1>4. CASE DOMAIN w = {}
  <2>1. w = <<>>
    BY <1>2, <1>4
  <2> QED
    BY <1>3, <2>1 DEF N!Change, w
<1>5. CASE DOMAIN w = {"owner"}
  <2>1. w = [owner |-> new.owner]
    BY <1>2, <1>5
  <2>2. w \in [owner : Users]
    BY <1>1, <2>1
  <2> QED
    BY <1>3, <2>2 DEF N!Change, w
<1>6. CASE DOMAIN w = {"active"}
  <2>1. w = [active |-> new.active]
    BY <1>2, <1>6
  <2>2. w \in [active : BOOLEAN]
    BY <1>1, <2>1
  <2> QED
    BY <1>3, <2>2 DEF N!Change, w
<1>7. CASE DOMAIN w = {"owner", "active"}
  <2>1. w = [owner |-> new.owner, active |-> new.active]
    BY <1>2, <1>7
  <2>2. w \in N!DeviceRow
    BY <1>1, <2>1 DEF N!DeviceRow
  <2> QED
    BY <1>3, <2>2 DEF N!Change, w
<1> QED
  BY <1>2, <1>4, <1>5, <1>6, <1>7

(* A request goes on, or ends: rows of devices stay there.                 *)
LEMMA PushGoes ==
  ASSUME PushInv, NEW r \in Requests, NEW q \in N!Request,
         pushReq' = [pushReq EXCEPT ![r] = q], DeviceFits(q, Registered), HoldsOwn(q, device'),
         device' \in [Devices -> N!DeviceRow \cup {None}], inbox' \subseteq N!InboxRow,
         \A d \in Devices : N!Exists(d) =>
           N!Exists(d)' /\ device'[d].owner = device[d].owner,
         strays' \subseteq N!Stray, \A s \in strays' \ strays : s.taken
  PROVE  PushInv'
<1>1. \A p \in Requests : pushReq'[p] = IF p = r THEN q ELSE pushReq[p]
  BY DEF PushInv, N!TypeOK
<1>2. N!TypeOK'
  BY DEF PushInv, N!TypeOK
<1>3. Registered \subseteq Registered'
  BY DEF Registered
<1>4. ASSUME NEW p \in Requests
      PROVE  DeviceFits(pushReq[p], Registered)' /\ HoldsOwn(pushReq'[p], device')
  <2>1. CASE p = r
    BY <1>1, <1>3, <2>1 DEF DeviceFits, HoldsOwn, N!Exists
  <2>2. CASE p # r
    <3>1. /\ pushReq'[p] = pushReq[p] /\ Holds(pushReq[p]) \subseteq Devices
          /\ DeviceFits(pushReq[p], Registered) /\ HoldsOwn(pushReq[p], device)
      BY <1>1, <2>2, PushHas DEF PushInv, Holds
    <3>2. DeviceFits(pushReq[p], Registered)'
      BY <1>3, <3>1 DEF DeviceFits
    <3>3. HoldsOwn(pushReq'[p], device')
      BY <3>1 DEF HoldsOwn, N!Exists, Holds
    <3> QED
      BY <3>2, <3>3
  <2> QED
    BY <2>1, <2>2
<1>5. N!PushesReachOwner'
  BY DEF PushInv, N!PushesReachOwner
<1> QED
  BY <1>2, <1>4, <1>5 DEF PushInv

(* The same where no row of a device is written.                           *)
LEMMA PushKeeps ==
  ASSUME PushInv, NEW r \in Requests, NEW q \in N!Request,
         pushReq' = [pushReq EXCEPT ![r] = q], DeviceFits(q, Registered), HoldsOwn(q, device'),
         device' = device, inbox' \subseteq N!InboxRow, strays' = strays
  PROVE  PushInv'
<1>1. \A d \in Devices : N!Exists(d) =>
        N!Exists(d)' /\ device'[d].owner = device[d].owner
  BY DEF N!Exists
<1> QED
  BY <1>1, PushGoes DEF PushInv, N!TypeOK

(* A registration that starts: a new row, or what changes of the old one.  *)
LEMMA PushReadForRegister ==
  ASSUME PushInv, NEW r \in Requests, NEW u \in Users, NEW d \in Devices,
         N!ReadForRegister(r, u, d)
  PROVE  PushInv'
<1> DEFINE row == [owner |-> u, active |-> TRUE]
           w == IF N!Exists(d) THEN N!Changes(device[d], row) ELSE row
           q == [op |-> "register", device |-> d, new |-> ~N!Exists(d), change |-> w]
<1>1. /\ pushReq' = [pushReq EXCEPT ![r] = q] /\ device' = device
      /\ inbox' = inbox /\ strays' = strays
  BY DEF N!ReadForRegister, N!Starts
<1>2. row \in N!DeviceRow
  BY DEF N!DeviceRow
<1>3. N!Exists(d) => device[d] \in N!DeviceRow
  BY DEF Registered, N!Exists, PushInv, N!TypeOK
<1> HIDE DEF row
<1>4. /\ w \in N!Change /\ (N!Exists(d) => DeviceColumns(w))
      /\ (~N!Exists(d) => w \in N!DeviceRow)
  BY <1>2, <1>3, DeviceChanges DEF N!Change
<1>5. (~N!Exists(d)) \in BOOLEAN
  OBVIOUS
<1> HIDE DEF w
<1>6. /\ q \in N!Request /\ q.op = "register" /\ q.device = d /\ q.change = w
      /\ q.new <=> ~N!Exists(d)
  BY <1>4, <1>5 DEF N!Request
<1> HIDE DEF q
<1>7. DeviceFits(q, Registered) /\ HoldsOwn(q, device')
  BY <1>1, <1>4, <1>6 DEF DeviceFits, Registered, N!Exists, HoldsOwn, Holds
<1> QED
  BY <1>1, <1>6, <1>7, PushKeeps DEF PushInv, N!TypeOK

(* A device's owner starts to give it up.                                  *)
LEMMA PushReadForUnregister ==
  ASSUME PushInv, NEW r \in Requests, NEW d \in Devices, N!ReadForUnregister(r, d)
  PROVE  PushInv'
<1> DEFINE row == [device[d] EXCEPT !.active = FALSE]
           w == N!Changes(device[d], row)
           q == [op |-> "unregister", device |-> d, change |-> w]
<1>1. /\ pushReq' = [pushReq EXCEPT ![r] = q] /\ device' = device /\ N!Exists(d)
      /\ inbox' = inbox /\ strays' = strays
  BY DEF N!ReadForUnregister, N!Starts
<1>2. device[d] \in N!DeviceRow
  BY <1>1 DEF Registered, N!Exists, PushInv, N!TypeOK
<1>3. row \in N!DeviceRow /\ row["owner"] = device[d]["owner"]
  BY <1>2 DEF N!DeviceRow
<1> HIDE DEF row
<1>4. w \in N!Change /\ DeviceColumns(w) /\ "owner" \notin DOMAIN w
  BY <1>2, <1>3, DeviceChanges DEF N!Changes
<1> HIDE DEF w
<1>5. q \in N!Request /\ q.op = "unregister" /\ q.device = d /\ q.change = w
  BY <1>4 DEF N!Request
<1> HIDE DEF q
<1>6. DeviceFits(q, Registered) /\ HoldsOwn(q, device')
  BY <1>1, <1>4, <1>5 DEF DeviceFits, Registered, N!Exists, HoldsOwn, Holds
<1> QED
  BY <1>1, <1>5, <1>6, PushKeeps DEF PushInv, N!TypeOK

(* A request that has ended holds nothing.                                 *)
LEMMA PushIdle ==
  N!Idle \in N!Request /\ DeviceFits(N!Idle, Registered) /\ HoldsOwn(N!Idle, device')
  BY DEF N!Request, DeviceFits, HoldsOwn, N!Exists, Holds, N!Idle

(* A registration that commits: pushes that hold the device note that its  *)
(* owner is another one.                                                   *)
LEMMA PushCommitRegister ==
  ASSUME PushInv, NEW r \in Requests, N!CommitRegister(r)
  PROVE  PushInv'
<1> DEFINE d == pushReq[r].device
           row == IF pushReq[r].new THEN pushReq[r].change
                  ELSE N!Written(pushReq[r].change, device[d])
<1>1. /\ pushReq[r].op = "register" /\ device' = [device EXCEPT ![d] = row]
      /\ pushReq' = [p \in Requests |->
           IF p = r THEN N!Idle ELSE N!Noticed(pushReq[p], d, row.owner)]
      /\ UNCHANGED <<inbox, strays>>
  BY DEF N!CommitRegister
<1>2. d \in Devices /\ pushReq[r].new \in BOOLEAN
  BY <1>1, PushHas DEF PushInv
<1>3. DeviceFits(pushReq[r], Registered)
  BY DEF PushInv
<1>4. row \in N!DeviceRow
  <2>1. CASE pushReq[r].new
    BY <1>1, <1>3, <2>1 DEF DeviceFits
  <2>2. CASE ~pushReq[r].new
    <3>1. DeviceColumns(pushReq[r].change) /\ device[d] \in N!DeviceRow
      BY <1>1, <1>2, <1>3, <2>2 DEF DeviceFits, Registered, N!Exists, PushInv, N!TypeOK
    <3> QED
      BY <2>2, <3>1, DeviceWritten
  <2> QED
    BY <2>1, <2>2
<1> HIDE DEF row, d
<1>5. /\ device' \in [Devices -> N!DeviceRow \cup {None}]
      /\ \A e \in Devices : device'[e] = IF e = d THEN row ELSE device[e]
  BY <1>1, <1>2, <1>4 DEF PushInv, N!TypeOK
<1>6. \A e \in Devices : N!Exists(e) => N!Exists(e)'
  BY <1>4, <1>5, NoneAssumption DEF N!Exists
<1>7. Registered \subseteq Registered'
  BY <1>6 DEF Registered
<1>8. ASSUME NEW p \in Requests
      PROVE  /\ pushReq'[p] \in N!Request
             /\ DeviceFits(pushReq'[p], Registered') /\ HoldsOwn(pushReq'[p], device')
  <2>1. CASE p = r
    BY <1>1, <2>1, PushIdle DEF DeviceFits, HoldsOwn, N!Exists, Holds, N!Idle
  <2>2. CASE p # r /\ ~(N!Pushing(pushReq[p]) /\ pushReq[p].user # row.owner)
    <3>1. /\ pushReq'[p] = pushReq[p] /\ pushReq[p] \in N!Request
          /\ DeviceFits(pushReq[p], Registered) /\ HoldsOwn(pushReq[p], device)
      BY <1>1, <2>2 DEF N!Noticed, PushInv, N!TypeOK
    <3>2. Holds(pushReq[p]) \subseteq Devices
      BY PushHas DEF PushInv, Holds
    <3>3. HoldsOwn(pushReq'[p], device')
      BY <1>5, <1>6, <2>2, <3>1, <3>2 DEF HoldsOwn, N!Exists, Holds, N!Pushing
    <3> QED
      BY <1>7, <3>1, <3>3 DEF DeviceFits
  <2>3. CASE p # r /\ N!Pushing(pushReq[p]) /\ pushReq[p].user # row.owner
    <3> DEFINE q == pushReq[p]
               noted == [q EXCEPT !.taken = @ \cup {d}]
    <3>1. pushReq'[p] = noted /\ HoldsOwn(q, device) /\ q.op \in {"loaded", "pushed"}
      BY <1>1, <2>3 DEF N!Noticed, N!Pushing, PushInv
    <3>2. /\ q.op = "loaded" => q \in [op : {"loaded"}, user : Users,
                 devices : SUBSET Devices, taken : SUBSET Devices]
          /\ q.op = "pushed" => q \in [op : {"pushed"}, user : Users, sent : BOOLEAN,
                 gone : SUBSET Devices, taken : SUBSET Devices]
      BY DEF PushInv, N!TypeOK, N!Request, N!Idle
    <3>3. /\ noted.op = q.op /\ noted.user = q.user /\ noted.taken = q.taken \cup {d}
          /\ Holds(noted) = Holds(q) /\ Holds(q) \subseteq Devices
      BY <3>1, <3>2 DEF Holds
    <3>4. noted \in N!Request
      <4>1. CASE q.op = "loaded"
        <5>1. noted \in [op : {"loaded"}, user : Users, devices : SUBSET Devices,
                         taken : SUBSET Devices]
          BY <1>2, <3>2, <4>1
        <5> QED
          BY <5>1 DEF N!Request
      <4>2. CASE q.op = "pushed"
        <5>1. noted \in [op : {"pushed"}, user : Users, sent : BOOLEAN,
                         gone : SUBSET Devices, taken : SUBSET Devices]
          BY <1>2, <3>2, <4>2
        <5> QED
          BY <5>1 DEF N!Request
      <4> QED
        BY <3>1, <4>1, <4>2
    <3> HIDE DEF noted, q
    <3>5. DeviceFits(noted, Registered')
      BY <3>1, <3>3 DEF DeviceFits
    <3>6. \A e \in Holds(noted) :
            N!Exists(e)' /\ (device'[e].owner = noted.user \/ e \in noted.taken)
      BY <1>5, <1>6, <3>1, <3>3 DEF HoldsOwn, N!Exists
    <3> QED
      BY <3>1, <3>4, <3>5, <3>6 DEF HoldsOwn, N!Exists, Holds
  <2> QED
    BY <2>1, <2>2, <2>3
<1>9. N!TypeOK'
  <2>1. DOMAIN pushReq' = Requests /\ \A p \in Requests : pushReq'[p] \in N!Request
    BY <1>1, <1>8
  <2>2. pushReq' \in [Requests -> N!Request]
    BY <1>1, <2>1
  <2> QED
    BY <1>1, <1>5, <2>2 DEF PushInv, N!TypeOK
<1> QED
  BY <1>1, <1>8, <1>9 DEF PushInv, N!PushesReachOwner

(* A device that is given up is no longer active.                          *)
LEMMA PushCommitUnregister ==
  ASSUME PushInv, NEW r \in Requests, N!CommitUnregister(r)
  PROVE  PushInv'
<1> DEFINE d == pushReq[r].device  w == pushReq[r].change
           row == N!Written(w, device[d])
<1>1. /\ pushReq[r].op = "unregister" /\ device' = [device EXCEPT ![d] = row]
      /\ pushReq' = [pushReq EXCEPT ![r] = N!Idle] /\ UNCHANGED <<inbox, strays>>
  BY DEF N!CommitUnregister, N!Ends
<1>2. d \in Devices
  BY <1>1, PushHas DEF PushInv
<1>3. DeviceColumns(w) /\ "owner" \notin DOMAIN w /\ device[d] \in N!DeviceRow
  BY <1>1, <1>2 DEF PushInv, DeviceFits, Registered, N!Exists, N!TypeOK
<1>4. row \in N!DeviceRow
  BY <1>3, DeviceWritten
<1>5. row["owner"] = device[d]["owner"]
  BY <1>3 DEF N!Written, N!DeviceRow
<1> HIDE DEF row, d, w
<1>6. /\ device' \in [Devices -> N!DeviceRow \cup {None}]
      /\ \A e \in Devices : device'[e] = IF e = d THEN row ELSE device[e]
  BY <1>1, <1>2, <1>4 DEF PushInv, N!TypeOK
<1>7. \A e \in Devices : N!Exists(e) =>
        N!Exists(e)' /\ device'[e].owner = device[e].owner
  BY <1>4, <1>5, <1>6, NoneAssumption DEF N!Exists
<1> QED
  BY <1>1, <1>6, <1>7, PushIdle, PushGoes DEF PushInv, N!TypeOK

(* The devices of the user are counted.                                    *)
LEMMA PushCount ==
  ASSUME PushInv, NEW r \in Requests, NEW u \in Users, N!Count(r, u)
  PROVE  PushInv'
<1> DEFINE q == IF N!ActiveOf(u) = {}
                  THEN [op |-> "pushed", user |-> u, sent |-> FALSE, gone |-> {},
                        taken |-> {}]
                  ELSE [op |-> "counted", user |-> u, devices |-> N!ActiveOf(u)]
<1>1. /\ pushReq' = [pushReq EXCEPT ![r] = q] /\ device' = device
      /\ inbox' = inbox /\ strays' = strays
  BY DEF N!Count, N!Starts
<1>2. N!ActiveOf(u) \in SUBSET Devices
  BY DEF N!ActiveOf
<1>3. q \in N!Request /\ DeviceFits(q, Registered) /\ HoldsOwn(q, device')
  <2>1. CASE N!ActiveOf(u) = {}
    BY <2>1 DEF N!Request, DeviceFits, HoldsOwn, N!Exists, Holds
  <2>2. CASE N!ActiveOf(u) # {}
    BY <1>2, <2>2 DEF N!Request, DeviceFits, HoldsOwn, N!Exists, Holds
  <2> QED
    BY <2>1, <2>2
<1> HIDE DEF q
<1> QED
  BY <1>1, <1>3, PushKeeps DEF PushInv, N!TypeOK

(* The devices that are loaded are the user's.                             *)
LEMMA PushLoadDevices ==
  ASSUME PushInv, NEW r \in Requests, N!LoadDevices(r)
  PROVE  PushInv'
<1> DEFINE u == pushReq[r].user
           q == [op |-> "loaded", user |-> u, devices |-> N!ActiveOf(u), taken |-> {}]
<1>1. /\ pushReq[r].op = "counted" /\ pushReq' = [pushReq EXCEPT ![r] = q]
      /\ UNCHANGED <<device, inbox, strays>>
  BY DEF N!LoadDevices, N!Targets, PushInv, N!TypeOK
<1>2. u \in Users
  BY <1>1, PushHas DEF PushInv
<1>3. /\ N!ActiveOf(u) \in SUBSET Devices
      /\ \A d \in N!ActiveOf(u) : N!Exists(d) /\ device[d].owner = u
  BY DEF N!ActiveOf
<1> HIDE DEF u
<1>4. q \in N!Request /\ DeviceFits(q, Registered)
  BY <1>2, <1>3 DEF N!Request, DeviceFits
<1>5. HoldsOwn(q, device')
  BY <1>1, <1>3 DEF HoldsOwn, Holds, N!Exists
<1> HIDE DEF q
<1> QED
  BY <1>1, <1>4, <1>5, PushKeeps DEF PushInv, N!TypeOK

(* What goes to somebody else's device was noted, for any of those held.   *)
LEMMA PushStrays ==
  ASSUME PushInv, NEW r \in Requests, N!Pushing(pushReq[r]),
         NEW ds \in SUBSET Holds(pushReq[r])
  PROVE  /\ N!Strays(pushReq[r], ds) \subseteq N!Stray
         /\ \A s \in N!Strays(pushReq[r], ds) : s.taken
<1>1. /\ pushReq[r].user \in Users /\ ds \subseteq Devices
      /\ \A d \in ds : device[d].owner # pushReq[r].user => d \in pushReq[r].taken
  BY PushHas DEF PushInv, HoldsOwn, N!Exists, Holds, N!Pushing
<1>2. ASSUME NEW s \in N!Strays(pushReq[r], ds) PROVE s \in N!Stray /\ s.taken
  <2>1. PICK d \in ds :
          /\ device[d].owner # pushReq[r].user
          /\ s = [user |-> pushReq[r].user, device |-> d, taken |-> d \in pushReq[r].taken]
    BY <1>2 DEF N!Strays
  <2>2. s = [user |-> pushReq[r].user, device |-> d, taken |-> TRUE]
    BY <1>1, <2>1
  <2> QED
    BY <1>1, <2>2 DEF N!Stray
<1> QED
  BY <1>2

(* The gateway is called for the devices that were loaded.                 *)
LEMMA PushPush ==
  ASSUME PushInv, NEW r \in Requests, N!Push(r)
  PROVE  PushInv'
<1> DEFINE u == pushReq[r].user  ds == pushReq[r].devices  tk == pushReq[r].taken
<1>1. /\ pushReq[r].op = "loaded" /\ device' = device /\ inbox' = inbox
      /\ \E ok \in SUBSET ds : \E gone \in SUBSET (ds \ ok) :
           /\ pushReq' = [pushReq EXCEPT ![r] = [op |-> "pushed", user |-> u,
                            sent |-> ok # {}, gone |-> gone, taken |-> tk]]
           /\ strays' = strays \cup N!Strays(pushReq[r], ok)
  BY DEF N!Push, PushInv, N!TypeOK
<1>2. PICK ok \in SUBSET ds : \E gone \in SUBSET (ds \ ok) :
        /\ pushReq' = [pushReq EXCEPT ![r] = [op |-> "pushed", user |-> u,
                         sent |-> ok # {}, gone |-> gone, taken |-> tk]]
        /\ strays' = strays \cup N!Strays(pushReq[r], ok)
  BY <1>1
<1>2a. PICK gone \in SUBSET (ds \ ok) :
        /\ pushReq' = [pushReq EXCEPT ![r] = [op |-> "pushed", user |-> u,
                         sent |-> ok # {}, gone |-> gone, taken |-> tk]]
        /\ strays' = strays \cup N!Strays(pushReq[r], ok)
  BY <1>2
<1>3. /\ u \in Users /\ ds \in SUBSET Devices /\ tk \in SUBSET Devices
      /\ \A d \in ds : N!Exists(d) /\ (device[d].owner = u \/ d \in tk)
      /\ Holds(pushReq[r]) = ds /\ N!Pushing(pushReq[r])
  BY <1>1, PushHas DEF PushInv, HoldsOwn, N!Exists, Holds, N!Pushing
<1>4. /\ N!Strays(pushReq[r], ok) \subseteq N!Stray
      /\ \A s \in N!Strays(pushReq[r], ok) : s.taken
  BY <1>3, PushStrays
<1> DEFINE sent == ok # {}
           q == [op |-> "pushed", user |-> u, sent |-> sent, gone |-> gone, taken |-> tk]
<1>5. pushReq' = [pushReq EXCEPT ![r] = q] /\ sent \in BOOLEAN /\ gone \in SUBSET Devices
  BY <1>2a, <1>3
<1> HIDE DEF sent, u, ds, tk
<1>6. q \in N!Request /\ DeviceFits(q, Registered)
  BY <1>3, <1>5 DEF N!Request, DeviceFits
<1>7. HoldsOwn(q, device')
  BY <1>1, <1>2a, <1>3 DEF HoldsOwn, Holds, N!Exists
<1> HIDE DEF q
<1>8. strays' \subseteq N!Stray /\ \A s \in strays' \ strays : s.taken
  BY <1>2a, <1>4 DEF PushInv, N!TypeOK
<1>9. \A d \in Devices : N!Exists(d) =>
        N!Exists(d)' /\ device'[d].owner = device[d].owner
  BY <1>1 DEF N!Exists
<1> QED
  BY <1>1, <1>5, <1>6, <1>7, <1>8, <1>9, PushGoes DEF PushInv, N!TypeOK

(* The gateway knew no more of some devices: they are no longer active.    *)
LEMMA PushCommitPush ==
  ASSUME PushInv, NEW r \in Requests, N!CommitPush(r)
  PROVE  PushInv'
<1>1. /\ pushReq[r].op = "pushed" /\ pushReq' = [pushReq EXCEPT ![r] = N!Idle]
      /\ strays' = strays \cup N!Strays(pushReq[r], pushReq[r].gone)
      /\ inbox' = inbox \cup {[user |-> pushReq[r].user, channel |-> "PUSH_NOTIFICATION",
                               sent |-> pushReq[r].sent]}
      /\ device' = [d \in Devices |-> IF d \in pushReq[r].gone
                      THEN [device[d] EXCEPT !.active = FALSE] ELSE device[d]]
  BY DEF N!CommitPush, N!Ends, N!Stores
<1>2. /\ pushReq[r].user \in Users /\ pushReq[r].sent \in BOOLEAN
      /\ Holds(pushReq[r]) = pushReq[r].gone /\ N!Pushing(pushReq[r])
  BY <1>1, PushHas DEF PushInv, Holds, N!Pushing
<1>3. inbox' \subseteq N!InboxRow
  BY <1>1, <1>2 DEF N!InboxRow, PushInv, N!TypeOK
<1>4. ASSUME NEW d \in Devices, d \in pushReq[r].gone
      PROVE  device'[d] \in N!DeviceRow /\ device'[d].owner = device[d].owner
  <2>1. device[d] \in N!DeviceRow
    BY <1>2, <1>4 DEF PushInv, HoldsOwn, N!Exists, N!TypeOK
  <2>2. device'[d] = [device[d] EXCEPT !.active = FALSE]
    BY <1>1, <1>4
  <2> QED
    BY <2>1, <2>2 DEF N!DeviceRow
<1>5. ASSUME NEW d \in Devices, d \notin pushReq[r].gone
      PROVE  device'[d] = device[d]
  BY <1>1, <1>5
<1>6. device' \in [Devices -> N!DeviceRow \cup {None}]
  <2>1. \A d \in Devices : device'[d] \in N!DeviceRow \cup {None}
    BY <1>4, <1>5 DEF PushInv, N!TypeOK
  <2> QED
    BY <1>1, <2>1
<1>7. \A d \in Devices : N!Exists(d) =>
        N!Exists(d)' /\ device'[d].owner = device[d].owner
  BY <1>4, <1>5, NoneAssumption DEF N!Exists
<1>8. strays' \subseteq N!Stray /\ \A s \in strays' \ strays : s.taken
  <2>1. /\ N!Strays(pushReq[r], pushReq[r].gone) \subseteq N!Stray
        /\ \A s \in N!Strays(pushReq[r], pushReq[r].gone) : s.taken
    BY <1>2, PushStrays
  <2> QED
    BY <1>1, <2>1 DEF PushInv, N!TypeOK
<1> QED
  BY <1>1, <1>3, <1>6, <1>7, <1>8, PushIdle, PushGoes

(* A request that gives up writes nothing.                                 *)
LEMMA PushRollback ==
  ASSUME PushInv, NEW r \in Requests, N!Rollback(r)
  PROVE  PushInv'
<1>1. /\ pushReq' = [pushReq EXCEPT ![r] = N!Idle]
      /\ device' = device /\ inbox' = inbox /\ strays' = strays
  BY DEF N!Rollback, N!Ends
<1> QED
  BY <1>1, PushIdle, PushKeeps DEF PushInv, N!TypeOK

(* Rows are only added to the inbox.                                       *)
LEMMA PushStores ==
  ASSUME PushInv, NEW new \in SUBSET N!InboxRow, N!Stores(new),
         UNCHANGED <<device, pushReq, strays>>
  PROVE  PushInv'
  BY DEF PushInv, N!TypeOK, N!Stores, DeviceFits, HoldsOwn, Holds, Registered, N!Exists,
     N!PushesReachOwner

(* Devices and pushes under way are sound, and pushes go astray only as    *)
(* the property says.                                                      *)
LEMMA PushInvariance == N!Spec => []PushInv
<1>1. N!Init => PushInv
  BY DEF N!Init, PushInv, N!TypeOK, N!Request, DeviceFits, HoldsOwn, N!Exists, Holds, N!Idle,
     N!PushesReachOwner
<1>2. PushInv /\ [N!Next]_N!vars => PushInv'
  <2> SUFFICES ASSUME PushInv, [N!Next]_N!vars PROVE PushInv'
    OBVIOUS
  <2>1. CASE UNCHANGED N!vars
    BY <2>1 DEF N!vars, PushInv, N!TypeOK, DeviceFits, HoldsOwn, N!Exists, Holds, Registered,
       N!Exists, N!PushesReachOwner
  <2>2. ASSUME NEW r \in Requests, N!Handler(r) PROVE PushInv'
    BY <2>2, PushReadForRegister, PushReadForUnregister, PushCommitRegister,
       PushCommitUnregister, PushCount, PushLoadDevices, PushPush, PushCommitPush, PushRollback DEF N!Handler
  <2>3. ASSUME NEW u \in Users, N!StoreInApp(u) PROVE PushInv'
    <3>1. {[user |-> u, channel |-> "IN_APP", sent |-> FALSE]} \in SUBSET N!InboxRow
      BY DEF N!InboxRow
    <3> QED
      BY <2>3, <3>1, PushStores DEF N!StoreInApp
  <2>4. ASSUME NEW to \in SUBSET Users, N!Broadcast(to) PROVE PushInv'
    <3>1. \A u \in to : [user |-> u, channel |-> "PUSH", sent |-> TRUE] \in N!InboxRow
      BY DEF N!InboxRow
    <3>2. {[user |-> u, channel |-> "PUSH", sent |-> TRUE] : u \in to} \in SUBSET N!InboxRow
      BY <3>1
    <3> QED
      BY <2>4, <3>2, PushStores DEF N!Broadcast
  <2> QED
    BY <2>1, <2>2, <2>3, <2>4 DEF N!Next
<1> QED
  BY <1>1, <1>2, PTL DEF N!Spec

-----------------------------------------------------------------------------
(***************************************************************************)
(* Side by side.  A step is one of a single component and leaves the       *)
(* variables of the others alone.                                          *)
(***************************************************************************)
LEMMA Alone ==
  AllSpec => (Init /\ [][Next]_vars) /\ O!Spec /\ W!Spec /\ K!Spec /\ N!Spec
<1>1. AllInit => Init /\ O!Init /\ W!Init /\ K!Init /\ N!Init
  BY DEF AllInit
<1>2. [AllNext]_allVars => [Next]_vars
  BY DEF AllNext, allVars, vars
<1>3. [AllNext]_allVars => [O!Next]_O!vars
  BY DEF AllNext, allVars, offerVars, O!vars
<1>4. [AllNext]_allVars => [W!Next]_W!vars
  BY DEF AllNext, allVars, webhookVars, W!vars
<1>5. [AllNext]_allVars => [K!Next]_K!vars
  BY DEF AllNext, allVars, campaignVars, K!vars
<1>6. [AllNext]_allVars => [N!Next]_N!vars
  BY DEF AllNext, allVars, pushVars, N!vars
<1> QED
  BY <1>1, <1>2, <1>3, <1>4, <1>5, <1>6, PTL DEF AllSpec, O!Spec, W!Spec, K!Spec, N!Spec

(* TypesOK: the variables of all components have their values.             *)
THEOREM TypeCorrect == AllSpec => []TypesOK
<1>1. CartsInv => TypeOK
  BY DEF CartsInv
<1>2. OffersInv => O!TypeOK
  BY DEF OffersInv
<1>3. WebhooksInv => W!TypeOK
  BY DEF WebhooksInv
<1>4. CampaignsInv => K!TypeOK
  BY DEF CampaignsInv
<1>5. PushInv => N!TypeOK
  BY DEF PushInv
<1>6. TypeOK /\ O!TypeOK /\ W!TypeOK /\ K!TypeOK /\ N!TypeOK => TypesOK
  BY DEF TypesOK
<1> QED
  BY <1>1, <1>2, <1>3, <1>4, <1>5, <1>6, Alone, CartsInvariance, OffersInvariance,
     WebhooksInvariance, CampaignsInvariance, PushInvariance, PTL

(* ReportedOnce: a silence of a cart is reported once, however activity,   *)
(* check-outs and the batch overlap, unless it is unsure what became of a  *)
(* call or of a batch.                                                     *)
THEOREM OneReport == AllSpec => []ReportedOnce
<1>1. CartsInv => ReportedOnce
  BY DEF CartsInv, ReportsKept, ReportedOnce
<1> QED
  BY <1>1, Alone, CartsInvariance, PTL

(* ConversionKept: that a cart was checked out is forgotten only through   *)
(* an activity of the customer who had seen it so.                         *)
THEOREM CheckOutsKept == AllSpec => ConversionKept
<1>1. CartsInv /\ [Next]_vars =>
        [\A c \in Carts :
           Exists(c) /\ cart[c].recovery # 0 /\ cart'[c].recovery = 0 =>
             \E r \in Requests :
               /\ req[r].op = "activity" /\ req[r].cart = c
               /\ req[r].knew /\ req'[r] = Idle]_vars
  BY ForgottenByActivity DEF Forgotten, Undoes
<1> QED
  BY <1>1, Alone, CartsInvariance, PTL DEF ConversionKept

(* OffersUnique: codes are unique, and a cart or a user has one running    *)
(* offer at most, unless two requests for it were under way at once.       *)
THEOREM OffersStayUnique == AllSpec => []OffersUnique
<1>1. OffersInv => OffersUnique
  BY OffersAreUnique DEF OffersUnique
<1> QED
  BY <1>1, Alone, OffersInvariance, PTL

(* AcceptedOnce: an event is accepted again only if it was rolled back     *)
(* after its answer, and whoever is told of a duplicate finds the row of   *)
(* the event committed, whatever deliveries overlap and fail.              *)
THEOREM AcceptsOnce == AllSpec => []AcceptedOnce
<1>1. WebhooksInv => AcceptedOnce
  BY WebhooksAccepts DEF AcceptedOnce
<1> QED
  BY <1>1, Alone, WebhooksInvariance, PTL

(* CampaignsSound: codes are unique, and a campaign no two requests had    *)
(* loaded at once keeps its dates in order, does not run once deleted and  *)
(* stays over.                                                             *)
THEOREM StaySound == AllSpec => []CampaignsSound
<1>1. CampaignsInv => CampaignsSound
  BY DEF CampaignsInv, CodesUnique, RowsSound, SoundRow, Over, CampaignsSound,
         K!CampaignsSound
<1> QED
  BY <1>1, Alone, CampaignsInvariance, PTL

(* PushesReachOwner: a push reaches or switches off a device of somebody   *)
(* else only if it was registered anew after the push had loaded it.       *)
THEOREM OwnersReached == AllSpec => []PushesReachOwner
<1>1. PushInv => PushesReachOwner
  BY DEF PushInv, PushesReachOwner
<1> QED
  BY <1>1, Alone, PushInvariance, PTL
=============================================================================
