------------------------------- MODULE Offers -------------------------------
(***************************************************************************)
(* What the automation gives away: free shipping for an abandoned cart,    *)
(* and vouchers.  Both look for an offer of the same purpose that still    *)
(* runs and add one when there is none; nothing but the code is unique in  *)
(* the table.  A voucher's code is the wanted one, or that with more and   *)
(* more of the user's id; free shipping has a random code.                 *)
(***************************************************************************)
EXTENDS Naturals, Sequences, FiniteSets

CONSTANTS
  Carts,       \* carts that may get free shipping
  Users,       \* users that may get the voucher of this instance
  Candidates,  \* for each user, the codes tried for the voucher, in order
  MaxOffers,   \* bound: rows that come to exist
  Requests,
  None         \* no row

VARIABLES
  offers,      \* journey_offers, in the order they were added
  checkedOut,  \* carts with a recovery order
  req,
  raced        \* history: purposes for which two requests overlapped

vars == <<offers, checkedOut, req, raced>>

(* source_cart_id: the cart, or the voucher of a user.                     *)
Purposes == Carts \cup Users
CodesOf(u) == {Candidates[u][i] : i \in DOMAIN Candidates[u]}
Codes == (UNION {CodesOf(u) : u \in Users}) \cup {None}

OfferRow == [purpose : Purposes, code : Codes, runs : BOOLEAN]
Idle == [op |-> "idle"]

TypeOK ==
  /\ offers \in Seq(OfferRow) /\ Len(offers) <= MaxOffers
  /\ checkedOut \subseteq Carts
  /\ req \in [Requests -> {Idle} \cup
                [op : {"offer"}, purpose : Purposes, code : Codes]]
  /\ raced \subseteq Purposes

Init ==
  /\ offers = <<>>
  /\ checkedOut = {}
  /\ req = [r \in Requests |-> Idle]
  /\ raced = {}

Used == {offers[i].code : i \in DOMAIN offers} \ {None}

RunsMutant(x) ==  \* only offers that ended are found
  {i \in DOMAIN offers : offers[i].purpose = x /\ ~offers[i].runs}

(* Offers of the purpose that have not expired.                            *)
Runs(x) == {i \in DOMAIN offers : offers[i].purpose = x /\ offers[i].runs}

(* None there: the request will add one.  When there is one it is the      *)
(* answer and nothing changes; more than one is an error.                  *)
Starts(r, x, code) ==
  /\ req[r] = Idle /\ Runs(x) = {}
  /\ req' = [req EXCEPT ![r] = [op |-> "offer", purpose |-> x, code |-> code]]
  /\ raced' = IF \E q \in Requests : req[q] # Idle /\ req[q].purpose = x
                THEN raced \cup {x} ELSE raced
  /\ UNCHANGED <<offers, checkedOut>>

(* POST /internal/journeys/abandoned-carts/offers/freeship.                *)
ReadForFreeship(r, c) == c \notin checkedOut /\ Starts(r, c, None)

(* POST /internal/marketing/issue-voucher: the first code nobody has; when *)
(* there is none the request fails.                                        *)
ReadForVoucher(r, u) ==
  \E i \in DOMAIN Candidates[u] :
    /\ Candidates[u][i] \notin Used
    /\ \A j \in 1..(i - 1) : Candidates[u][j] \in Used
    /\ Starts(r, u, Candidates[u][i])

(* UniqueConstraint("code"); a random code is taken to be new.             *)
CodeFree(code) == code = None \/ code \notin Used

CommitOffer(r) ==
  /\ req[r] # Idle /\ Len(offers) < MaxOffers /\ CodeFree(req[r].code)
  /\ offers' = Append(offers,
       [purpose |-> req[r].purpose, code |-> req[r].code, runs |-> TRUE])
  /\ req' = [req EXCEPT ![r] = Idle]
  /\ UNCHANGED <<checkedOut, raced>>

Rollback(r) ==
  /\ req[r] # Idle
  /\ req' = [req EXCEPT ![r] = Idle]
  /\ UNCHANGED <<offers, checkedOut, raced>>

Expire(i) ==
  /\ offers[i].runs
  /\ offers' = [offers EXCEPT ![i].runs = FALSE]
  /\ UNCHANGED <<checkedOut, req, raced>>

(* Carts!CommitOrder and Carts!CommitStatus, as far as offers see them.    *)
CheckOut(c) ==
  /\ checkedOut' = checkedOut \cup {c}
  /\ UNCHANGED <<offers, req, raced>>

Next ==
  \/ \E r \in Requests :
       \/ \E c \in Carts : ReadForFreeship(r, c)
       \/ \E u \in Users : ReadForVoucher(r, u)
       \/ CommitOffer(r)
       \/ Rollback(r)
  \/ \E i \in DOMAIN offers : Expire(i)
  \/ \E c \in Carts : CheckOut(c)

Spec == Init /\ [][Next]_vars

-----------------------------------------------------------------------------
(* No two offers have one code, and a cart or a user has at most one offer *)
(* at a time: unless two requests for the same one were under way at once, *)
(* which is when the second row that makes later requests fail arises.     *)
OffersUnique ==
  /\ \A i, j \in DOMAIN offers :
       offers[i].code = offers[j].code => i = j \/ offers[i].code = None
  /\ \A x \in Purposes \ raced : Cardinality(Runs(x)) <= 1
=============================================================================
