------------------------------ MODULE Ratings -------------------------------
(***************************************************************************)
(* Ratings of one merchant, or of one driver, by the customers of the      *)
(* orders it delivered.  A rating stores the review and then the average   *)
(* of all reviews it can see.  A summary of a merchant's reviews is        *)
(* cached: computing it takes a slow call to a language model, and a       *)
(* rating invalidates it.  Averages and summaries are represented by the   *)
(* reviews they are of.                                                    *)
(***************************************************************************)
CONSTANTS
  Orders,    \* delivered orders
  Requests

VARIABLES
  rated,     \* what is rated, a merchant or a driver
  reviews,   \* merchant_reviews or driver_reviews
  average,   \* average_rating
  cache,     \* the row of merchant_review_summary_cache
  req,
  raced,     \* history: of average and summary, what overlaps left in doubt
  twice      \* history: orders that two requests rated at once

vars == <<rated, reviews, average, cache, req, raced, twice>>
stored == <<reviews, average, cache, raced>>

Review == [order : Orders, by : Requests]

NoRow == [valid |-> FALSE, exists |-> FALSE, reviews |-> {}]
CacheRow == [valid : BOOLEAN, exists : {TRUE}, reviews : SUBSET Review]

Idle == [op |-> "idle"]

(* met: the kinds of requests that overlapped it.                          *)
Mets == SUBSET {"rating", "summary"}
Request ==
  {Idle}
  \cup [op : {"found"}, order : Orders, met : Mets]
  \cup [op : {"averaged"}, order : Orders, seen : SUBSET Review, met : Mets]
  \cup [op : {"looked"}, order : Orders, seen : SUBSET Review,
        invalidates : BOOLEAN, met : Mets]
  \cup [op : {"summary"}, seen : SUBSET Review, met : Mets]
  \cup [op : {"storing"}, seen : SUBSET Review, found : BOOLEAN, met : Mets]

TypeOK ==
  /\ rated \in {"merchant", "driver"}
  /\ reviews \subseteq Review /\ average \subseteq Review
  /\ cache \in CacheRow \cup {NoRow}
  /\ req \in [Requests -> Request]
  /\ raced \subseteq {"average", "summary"} /\ twice \subseteq Orders

Init ==
  /\ rated \in {"merchant", "driver"}
  /\ reviews = {} /\ average = {}
  /\ cache = NoRow
  /\ req = [r \in Requests |-> Idle]
  /\ raced = {} /\ twice = {}

Busy(r) == {q \in Requests \ {r} : req[q] # Idle}

Kind(op) == IF op \in {"summary", "storing"} THEN "summary" ELSE "rating"

Met(r) == {Kind(req[p].op) : p \in Busy(r)}

(* Requests that overlap meet.                                             *)
Begins(r, new) ==
  /\ req[r] = Idle
  /\ req' = [q \in Requests |->
       IF q = r THEN new
       ELSE IF q \in Busy(r) THEN [req[q] EXCEPT !.met = @ \cup {Kind(new.op)}]
       ELSE req[q]]

Goes(r, from, new) ==
  /\ req[r].op = from
  /\ req' = [req EXCEPT ![r] = new]
  /\ UNCHANGED <<rated, stored, twice>>

(* What a request stores is in doubt if it met a request of the kind in    *)
(* clash, and is put right if not.                                         *)
Leaves(r, clash) ==
  {w \in {"average", "summary"} :
     IF w \in DOMAIN clash THEN clash[w] \in req[r].met ELSE w \in raced}

-----------------------------------------------------------------------------
(* POST /orders/{id}/rate-merchant and rate-driver.                        *)

NotRated(o) == ~\E v \in reviews : v.order = o

ReadForRating(r, o) ==
  /\ NotRated(o)
  /\ Begins(r, [op |-> "found", order |-> o, met |-> Met(r)])
  /\ twice' = IF \E q \in Busy(r) : Kind(req[q].op) = "rating" /\ req[q].order = o
                THEN twice \cup {o} ELSE twice
  /\ UNCHANGED <<rated, stored>>

Mine(r) == [order |-> req[r].order, by |-> r]

(* AVG over what is committed and the review flushed here.                 *)
Average(r) ==
  Goes(r, "found", [op |-> "averaged", order |-> req[r].order,
                    seen |-> reviews \cup {Mine(r)}, met |-> req[r].met])

(* A row that is not there, or not valid, when it is looked for will not   *)
(* be written.                                                             *)
LookForCache(r) ==
  /\ rated = "merchant"
  /\ Goes(r, "averaged", [op |-> "looked", order |-> req[r].order, seen |-> req[r].seen,
                          invalidates |-> cache.valid, met |-> req[r].met])

InvalidatedMutant(row) == row  \* the rating leaves the cache alone

Invalidated(row) == [row EXCEPT !.valid = FALSE]

Added(r) == reviews \cup {Mine(r)}

StoresReview(r) ==
  /\ reviews' = Added(r)
  /\ average' = req[r].seen
  /\ req' = [req EXCEPT ![r] = Idle]
  /\ UNCHANGED <<rated, twice>>

CommitMerchantRating(r) ==
  /\ req[r].op = "looked"
  /\ StoresReview(r)
  /\ cache' = IF req[r].invalidates THEN Invalidated(cache) ELSE cache
  /\ raced' = Leaves(r, [average |-> "rating", summary |-> "summary"])

CommitDriverRating(r) ==
  /\ rated = "driver" /\ req[r].op = "averaged"
  /\ StoresReview(r)
  /\ raced' = Leaves(r, [average |-> "rating"])
  /\ UNCHANGED cache

-----------------------------------------------------------------------------
(* GET /merchants/{id}/reviews/ai-summary.                                 *)

CacheHit(refresh) == cache.valid /\ ~refresh

ReadForSummary(r, refresh) ==
  /\ rated = "merchant" /\ ~CacheHit(refresh)
  /\ Begins(r, [op |-> "summary", seen |-> reviews, met |-> Met(r)])
  /\ UNCHANGED <<rated, stored, twice>>

(* The call returned, failed, or was not needed: look for the row again.   *)
LookForRow(r) ==
  Goes(r, "summary", [op |-> "storing", seen |-> req[r].seen,
                      found |-> cache.exists, met |-> req[r].met])

(* An insert fails when another request added the row: merchant_id is      *)
(* unique.                                                                 *)
StoreSummary(r) ==
  /\ req[r].op = "storing" /\ req[r].found = cache.exists
  /\ cache' = [valid |-> TRUE, exists |-> TRUE, reviews |-> req[r].seen]
  /\ raced' = Leaves(r, [summary |-> "rating"])
  /\ req' = [req EXCEPT ![r] = Idle]
  /\ UNCHANGED <<rated, reviews, average, twice>>

Rollback(r) ==
  /\ req[r] # Idle
  /\ req' = [req EXCEPT ![r] = Idle]
  /\ UNCHANGED <<rated, stored, twice>>

Next ==
  \E r \in Requests :
    \/ \E o \in Orders : ReadForRating(r, o)
    \/ Average(r) \/ LookForCache(r)
    \/ CommitMerchantRating(r) \/ CommitDriverRating(r)
    \/ \E refresh \in BOOLEAN : ReadForSummary(r, refresh)
    \/ LookForRow(r) \/ StoreSummary(r)
    \/ Rollback(r)

Spec == Init /\ [][Next]_vars

-----------------------------------------------------------------------------
(* The average is that of all reviews unless the last rating overlapped    *)
(* another; a summary handed out from the cache is one of all reviews      *)
(* unless a rating came while it was computed; an order is rated twice     *)
(* only by two requests at once.                                           *)
RatingsCurrent ==
  /\ "average" \notin raced => average = reviews
  /\ (cache.valid /\ "summary" \notin raced) => cache.reviews = reviews
  /\ \A v, w \in reviews : (v.order = w.order /\ v # w) => v.order \in twice
=============================================================================
