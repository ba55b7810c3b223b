-------------------------- MODULE Catalogue_proofs ---------------------------
(***************************************************************************)
(* What holds of ratings, menus, driver profiles and settings, for any     *)
(* numbers of rows, orders and requests.  Each runs alone, so each has an  *)
(* inductive invariant of its own; the last part puts them together.       *)
(***************************************************************************)
EXTENDS Catalogue, TLAPS, FiniteSetTheorems

-----------------------------------------------------------------------------
(***************************************************************************)
(* Ratings.  What a request will store was computed earlier.  It is still  *)
(* right if no request that could have changed it was under way since:     *)
(* Knows says so of each request, and MetAll that requests under way at    *)
(* once have met each other.  The last request to store a value has thus   *)
(* the say on whether it is right.  An order gets a second review only     *)
(* from a request that was under way with the one that stored the first    *)
(* (TwiceNoted).                                                           *)
(***************************************************************************)
Busies(r) == req[r] # Idle

RatingOp(r) == req[r].op \in {"found", "averaged", "looked"}

Knows(r) ==
  /\ req[r].op \in {"averaged", "looked"} /\ "rating" \notin req[r].met =>
       req[r].seen = reviews \cup {Mine(r)}
  /\ req[r].op = "looked" /\ "summary" \notin req[r].met =>
       req[r].invalidates \/ ~cache.valid
  /\ req[r].op \in {"summary", "storing"} => rated = "merchant"
  /\ req[r].op \in {"summary", "storing"} /\ "rating" \notin req[r].met =>
       req[r].seen = reviews
  /\ RatingOp(r) => \A v \in reviews : v.order = req[r].order => v.order \in twice

MetAll ==
  \A r, p \in Requests : Busies(r) /\ Busies(p) /\ r # p =>
    Kind(req[p].op) \in req[r].met

TwiceNoted ==
  \A r, p \in Requests : RatingOp(r) /\ RatingOp(p) /\ req[r].order = req[p].order =>
    r = p \/ req[r].order \in twice

(* There is no summary of a driver's reviews.                              *)
OnlyMerchants == rated = "driver" => ~cache.valid

RatingsInv ==
  /\ TypeOK
  /\ \A r \in Requests : Knows(r)
  /\ MetAll /\ TwiceNoted /\ OnlyMerchants
  /\ RatingsCurrent

-----------------------------------------------------------------------------
(* The fields of a request, by its operation.                              *)
LEMMA RatingFields ==
  ASSUME TypeOK, NEW r \in Requests
  PROVE  /\ Busies(r) <=> RatingOp(r) \/ req[r].op \in {"summary", "storing"}
         /\ Busies(r) => req[r].met \in Mets
         /\ RatingOp(r) => req[r].order \in Orders
         /\ req[r].op \in {"averaged", "looked", "summary", "storing"} =>
              req[r].seen \in SUBSET Review
         /\ req[r].op = "looked" => req[r].invalidates \in BOOLEAN
         /\ req[r].op = "storing" => req[r].found \in BOOLEAN
  BY DEF TypeOK, Request, Busies, RatingOp, Idle

LEMMA RatingCache ==
  ASSUME TypeOK
  PROVE  cache.valid \in BOOLEAN /\ cache.exists \in BOOLEAN
           /\ cache.reviews \subseteq Review
<1>1. CASE cache \in CacheRow
  BY <1>1 DEF CacheRow
<1>2. CASE cache = NoRow
  <2>1. NoRow.valid = FALSE /\ NoRow.exists = FALSE /\ NoRow.reviews = {}
    BY DEF NoRow
  <2>2. QED BY <1>2, <2>1
<1>3. QED BY <1>1, <1>2 DEF TypeOK

(* The kind of a request by its operation.                                 *)
LEMMA RatingKinds ==
  ASSUME NEW r
  PROVE  /\ RatingOp(r) => Kind(req[r].op) = "rating"
         /\ req[r].op \in {"summary", "storing"} => Kind(req[r].op) = "summary"
  BY DEF RatingOp, Kind

(* A request of the others that are under way when one begins learns of    *)
(* its kind, and keeps everything else.                                    *)
LEMMA RatingOthersMeet ==
  ASSUME RatingsInv, NEW r \in Requests, NEW new, Begins(r, new),
         NEW p \in Requests, p # r
  PROVE  /\ req[p] = Idle => req'[p] = Idle
         /\ req[p] # Idle =>
              /\ req'[p] \in Request /\ req'[p].op = req[p].op
              /\ req'[p].met = req[p].met \cup {Kind(new.op)}
              /\ RatingOp(p) => req'[p].order = req[p].order
              /\ req[p].op \in {"averaged", "looked", "summary", "storing"} =>
                   req'[p].seen = req[p].seen
              /\ req[p].op = "looked" => req'[p].invalidates = req[p].invalidates
<1>1. req[p] = Idle => req'[p] = Idle
  BY DEF Begins, Busy
<1>2. ASSUME req[p] # Idle
      PROVE  /\ req'[p] \in Request /\ req'[p].op = req[p].op
             /\ req'[p].met = req[p].met \cup {Kind(new.op)}
             /\ RatingOp(p) => req'[p].order = req[p].order
             /\ req[p].op \in {"averaged", "looked", "summary", "storing"} =>
                  req'[p].seen = req[p].seen
             /\ req[p].op = "looked" => req'[p].invalidates = req[p].invalidates
  <2> DEFINE m == req[p].met \cup {Kind(new.op)}
  <2>1. req'[p] = [req[p] EXCEPT !.met = m]
    BY <1>2 DEF Begins, Busy
  <2>2. req[p] \in Request \ {Idle}
    BY <1>2 DEF RatingsInv, TypeOK
  <2>3. m \in Mets
    <3>1. Kind(new.op) \in {"rating", "summary"}
      BY DEF Kind
    <3>2. req[p].met \in Mets
      BY <1>2, RatingFields DEF RatingsInv, Busies
    <3>3. QED BY <3>1, <3>2 DEF Mets
  <2> HIDE DEF m
  <2>4. QED BY <2>1, <2>2, <2>3 DEF Request, RatingOp, m
<1>3. QED BY <1>1, <1>2

(* A request that begins has met whoever is under way.                     *)
LEMMA RatingsBegins ==
  ASSUME RatingsInv, NEW r \in Requests, NEW new \in Request, Begins(r, new),
         new.op \in {"found", "summary"}, new.met = Met(r),
         new.op = "found" =>
           /\ \A v \in reviews : v.order # new.order
           /\ \A p \in Busy(r) :
                RatingOp(p) /\ req[p].order = new.order => new.order \in twice',
         new.op = "summary" => rated = "merchant" /\ new.seen = reviews,
         twice \subseteq twice', twice' \subseteq Orders, UNCHANGED <<rated, stored>>
  PROVE  RatingsInv'
<1>1. req'[r] = new /\ req[r] = Idle /\ new # Idle
  BY DEF Begins, Idle
<1>2. UNCHANGED <<rated, reviews, average, cache, raced>>
  BY DEF stored
<1>3. \A p \in Requests : req'[p] \in Request
  BY <1>1, RatingOthersMeet DEF RatingsInv, TypeOK, Request
<1>4. TypeOK'
  <2>1. req' \in [Requests -> Request]
    BY <1>3 DEF Begins
  <2>2. QED BY <1>2, <2>1 DEF RatingsInv, TypeOK
<1>5. ASSUME NEW p \in Requests PROVE Knows(p)'
  <2>1. CASE p = r
    BY <1>1, <1>2, <2>1 DEF Knows, RatingOp
  <2>2. CASE p # r /\ req[p] = Idle
    BY <2>2, RatingOthersMeet DEF Knows, RatingOp, Idle
  <2>3. CASE p # r /\ req[p] # Idle
    <3>1. Knows(p)
      BY DEF RatingsInv
    <3>2. QED BY <1>2, <2>3, <3>1, RatingOthersMeet DEF Knows, RatingOp, Mine
  <2>4. QED BY <2>1, <2>2, <2>3
<1>6. MetAll'
  <2> SUFFICES ASSUME NEW p \in Requests, NEW q \in Requests, p # q,
                      Busies(p)', Busies(q)'
               PROVE  Kind(req'[q].op) \in req'[p].met
    BY DEF MetAll
  <2>1. CASE p = r
    <3>1. req[q] # Idle /\ req'[q].op = req[q].op
      BY <2>1, RatingOthersMeet DEF Busies
    <3>2. q \in Busy(r)
      BY <2>1, <3>1 DEF Busy
    <3>3. QED BY <1>1, <2>1, <3>1, <3>2 DEF Met
  <2>2. CASE q = r
    BY <1>1, <2>2, RatingOthersMeet DEF Busies
  <2>3. CASE p # r /\ q # r
    <3>1. Busies(p) /\ Busies(q) /\ req'[q].op = req[q].op
            /\ req[p].met \subseteq req'[p].met
      BY <2>3, RatingOthersMeet DEF Busies
    <3>2. QED BY <3>1 DEF RatingsInv, MetAll
  <2>4. QED BY <2>1, <2>2, <2>3
<1>7. TwiceNoted'
  <2>1. ASSUME NEW p \in Requests, p # r, RatingOp(p)'
        PROVE  RatingOp(p) /\ req'[p].order = req[p].order /\ p \in Busy(r)
    BY <2>1, RatingOthersMeet DEF RatingOp, Idle, Busy
  <2>2. ASSUME NEW p \in Requests, p # r, RatingOp(p)', RatingOp(r)',
               req'[p].order = req'[r].order
        PROVE  req'[p].order \in twice'
    BY <1>1, <2>1, <2>2 DEF RatingOp
  <2>3. ASSUME NEW p \in Requests, NEW q \in Requests, p # r, q # r, p # q,
               RatingOp(p)', RatingOp(q)', req'[p].order = req'[q].order
        PROVE  req'[p].order \in twice'
    BY <2>1, <2>3 DEF RatingsInv, TwiceNoted
  <2>4. QED BY <2>2, <2>3 DEF TwiceNoted
<1>8. OnlyMerchants' /\ RatingsCurrent'
  BY <1>2 DEF RatingsInv, OnlyMerchants, RatingsCurrent
<1>9. QED BY <1>4, <1>5, <1>6, <1>7, <1>8 DEF RatingsInv

(* A request that goes on, with what it knows now.                         *)
LEMMA RatingsGoes ==
  ASSUME RatingsInv, NEW r \in Requests, NEW new \in Request,
         req' = [req EXCEPT ![r] = new],
         new = Idle \/ /\ Busies(r) /\ new.met = req[r].met
                       /\ Kind(new.op) = Kind(req[r].op)
                       /\ new.op \in {"averaged", "looked"} =>
                            RatingOp(r) /\ new.order = req[r].order
                       /\ new.op \in {"averaged", "looked", "storing"},
         Knows(r)', UNCHANGED <<rated, stored, twice>>
  PROVE  RatingsInv'
<1>1. \A p \in Requests : req'[p] = IF p = r THEN new ELSE req[p]
  BY DEF RatingsInv, TypeOK
<1>2. UNCHANGED <<rated, reviews, average, cache, raced, twice>>
  BY DEF stored
<1>3. TypeOK'
  BY <1>2 DEF RatingsInv, TypeOK
<1>4. ASSUME NEW p \in Requests PROVE Knows(p)'
  <2>1. CASE p # r
    BY <1>1, <1>2, <2>1 DEF RatingsInv, Knows, RatingOp, Mine
  <2>2. QED BY <2>1
<1>5. MetAll'
  BY <1>1 DEF RatingsInv, MetAll, Busies
<1>6. TwiceNoted'
  BY <1>1, <1>2 DEF RatingsInv, TwiceNoted, RatingOp, Idle
<1>7. OnlyMerchants' /\ RatingsCurrent'
  BY <1>2 DEF RatingsInv, OnlyMerchants, RatingsCurrent
<1>8. QED BY <1>3, <1>4, <1>5, <1>6, <1>7 DEF RatingsInv

-----------------------------------------------------------------------------
(* The order has no review, and whoever rates it already is noted.         *)
LEMMA RatingsReadForRating ==
  ASSUME RatingsInv, NEW r \in Requests, NEW o \in Orders, ReadForRating(r, o)
  PROVE  RatingsInv'
<1> DEFINE new == [op |-> "found", order |-> o, met |-> Met(r)]
<1>1. Met(r) \in Mets
  BY DEF Met, Kind, Mets
<1>2. new \in Request /\ new.op = "found" /\ new.order = o /\ new.met = Met(r)
  BY <1>1 DEF Request
<1>3. \A v \in reviews : v.order # o
  BY DEF ReadForRating, NotRated
<1>4. ASSUME NEW p \in Busy(r), RatingOp(p), req[p].order = o PROVE o \in twice'
  BY <1>4, RatingKinds DEF ReadForRating
<1>5. twice \subseteq twice' /\ twice' \subseteq Orders /\ UNCHANGED <<rated, stored>>
  BY DEF ReadForRating, RatingsInv, TypeOK
<1>6. Begins(r, new)
  BY DEF ReadForRating
<1> HIDE DEF new
<1>7. QED BY <1>2, <1>3, <1>4, <1>5, <1>6, RatingsBegins

(* The average of what is stored now.                                      *)
LEMMA RatingsAverage ==
  ASSUME RatingsInv, NEW r \in Requests, Average(r)
  PROVE  RatingsInv'
<1> DEFINE new == [op |-> "averaged", order |-> req[r].order,
                   seen |-> reviews \cup {Mine(r)}, met |-> req[r].met]
<1>1. /\ req[r].op = "found" /\ req' = [req EXCEPT ![r] = new]
      /\ UNCHANGED <<rated, stored, twice>>
  BY DEF Average, Goes
<1>2. RatingOp(r) /\ Busies(r) /\ req[r].order \in Orders /\ req[r].met \in Mets
  BY <1>1, RatingFields DEF RatingsInv, RatingOp
<1>3. Mine(r) \in Review
  BY <1>2 DEF Mine, Review
<1>4. new \in Request
  BY <1>2, <1>3 DEF Request, RatingsInv, TypeOK
<1>5. req'[r] = new
  BY <1>1 DEF RatingsInv, TypeOK
<1>6. Knows(r)'
  <2>1. Mine(r)' = Mine(r)
    BY <1>5 DEF Mine
  <2>2. Knows(r)
    BY DEF RatingsInv
  <2>3. QED BY <1>1, <1>2, <1>5, <2>1, <2>2 DEF Knows, RatingOp, stored
<1>7. Kind(new.op) = Kind(req[r].op)
  BY <1>1 DEF Kind
<1>8. QED BY <1>1, <1>2, <1>4, <1>6, <1>7, RatingsGoes

(* Whether there is a summary to invalidate.                               *)
LEMMA RatingsLookForCache ==
  ASSUME RatingsInv, NEW r \in Requests, LookForCache(r)
  PROVE  RatingsInv'
<1> DEFINE new == [op |-> "looked", order |-> req[r].order, seen |-> req[r].seen,
                   invalidates |-> cache.valid, met |-> req[r].met]
<1>1. /\ req[r].op = "averaged" /\ req' = [req EXCEPT ![r] = new]
      /\ UNCHANGED <<rated, stored, twice>>
  BY DEF LookForCache, Goes
<1>2. /\ RatingOp(r) /\ Busies(r) /\ req[r].order \in Orders /\ req[r].met \in Mets
      /\ req[r].seen \in SUBSET Review /\ cache.valid \in BOOLEAN
  BY <1>1, RatingFields, RatingCache DEF RatingsInv, RatingOp
<1>3. new \in Request
  BY <1>2 DEF Request
<1>4. req'[r] = new
  BY <1>1 DEF RatingsInv, TypeOK
<1>5. Knows(r)'
  <2>1. Mine(r)' = Mine(r)
    BY <1>4 DEF Mine
  <2>2. Knows(r)
    BY DEF RatingsInv
  <2>3. QED BY <1>1, <1>2, <1>4, <2>1, <2>2 DEF Knows, RatingOp, stored
<1>6. Kind(new.op) = Kind(req[r].op)
  BY <1>1 DEF Kind
<1>7. QED BY <1>1, <1>2, <1>3, <1>5, <1>6, RatingsGoes

-----------------------------------------------------------------------------
(* A review is stored: of the requests under way none but those that met   *)
(* it relied on what it changes.                                           *)
LEMMA RatingsStoresReview ==
  ASSUME RatingsInv, NEW r \in Requests, req[r].op \in {"averaged", "looked"},
         StoresReview(r),
         cache' \in CacheRow \cup {NoRow}, cache'.valid => cache.valid,
         raced' \subseteq {"average", "summary"},
         "average" \in raced' <=> "rating" \in req[r].met,
         cache'.valid => "summary" \in raced'
  PROVE  RatingsInv'
<1>1. /\ reviews' = reviews \cup {Mine(r)} /\ average' = req[r].seen
      /\ req' = [req EXCEPT ![r] = Idle] /\ UNCHANGED <<rated, twice>>
  BY DEF StoresReview, Added
<1>2. /\ RatingOp(r) /\ Busies(r) /\ req[r].order \in Orders
      /\ req[r].seen \in SUBSET Review
  BY RatingFields DEF RatingsInv, RatingOp
<1>3. Mine(r) \in Review /\ Mine(r).order = req[r].order
  BY <1>2 DEF Mine, Review
<1>4. \A p \in Requests : req'[p] = IF p = r THEN Idle ELSE req[p]
  BY <1>1 DEF RatingsInv, TypeOK
<1>5. TypeOK'
  <2>1. req' \in [Requests -> Request]
    BY <1>1 DEF RatingsInv, TypeOK, Request
  <2>2. QED BY <1>1, <1>2, <1>3, <2>1 DEF RatingsInv, TypeOK
<1>6. ASSUME NEW p \in Requests PROVE Knows(p)'
  <2>1. CASE p = r
    BY <1>4, <2>1 DEF Knows, RatingOp, Idle
  <2>2. CASE p # r /\ req[p] = Idle
    BY <1>4, <2>2 DEF Knows, RatingOp, Idle
  <2>3. CASE p # r /\ req[p] # Idle
    <3>1. "rating" \in req[p].met
      BY <1>2, <2>3, RatingKinds DEF RatingsInv, MetAll, Busies
    <3>2. Knows(p) /\ req'[p] = req[p]
      BY <1>4, <2>3 DEF RatingsInv
    <3>3. RatingOp(p) /\ req[p].order = req[r].order => req[p].order \in twice
      BY <1>2, <2>3 DEF RatingsInv, TwiceNoted
    <3>4. RatingOp(p) =>
            \A v \in reviews' : v.order = req[p].order => v.order \in twice
      BY <1>1, <1>3, <3>2, <3>3 DEF Knows
    <3>5. QED BY <1>1, <3>1, <3>2, <3>4 DEF Knows, RatingOp
  <2>4. QED BY <2>1, <2>2, <2>3
<1>7. MetAll' /\ TwiceNoted' /\ OnlyMerchants'
  BY <1>1, <1>4 DEF RatingsInv, MetAll, Busies, TwiceNoted, RatingOp, Idle, OnlyMerchants
<1>8. RatingsCurrent'
  <2>1. "average" \notin raced' => average' = reviews'
    BY <1>1 DEF RatingsInv, Knows
  <2>2. \A v \in reviews : v.order = req[r].order => v.order \in twice
    BY <1>2 DEF RatingsInv, Knows
  <2>3. \A v, w \in reviews' : (v.order = w.order /\ v # w) => v.order \in twice'
    BY <1>1, <1>3, <2>2 DEF RatingsInv, RatingsCurrent
  <2>4. QED BY <2>1, <2>3 DEF RatingsCurrent
<1>9. QED BY <1>5, <1>6, <1>7, <1>8 DEF RatingsInv

(* A rating of a merchant: a summary that stays valid was added since the  *)
(* cache was looked at, by a request that met this one.                    *)
LEMMA RatingsCommitMerchantRating ==
  ASSUME RatingsInv, NEW r \in Requests, CommitMerchantRating(r)
  PROVE  RatingsInv'
<1> DEFINE clash == [average |-> "rating", summary |-> "summary"]
<1>1. /\ req[r].op = "looked" /\ StoresReview(r)
      /\ cache' = (IF req[r].invalidates THEN Invalidated(cache) ELSE cache)
      /\ raced' = Leaves(r, clash)
  BY DEF CommitMerchantRating
<1>2. /\ DOMAIN clash = {"average", "summary"}
      /\ clash["average"] = "rating" /\ clash["summary"] = "summary"
  OBVIOUS
<1> HIDE DEF clash
<1>3. /\ raced' \subseteq {"average", "summary"}
      /\ "average" \in raced' <=> "rating" \in req[r].met
      /\ "summary" \in raced' <=> "summary" \in req[r].met
  BY <1>1, <1>2 DEF Leaves
<1>4. /\ cache' \in CacheRow \cup {NoRow}
      /\ req[r].invalidates => ~cache'.valid
      /\ ~req[r].invalidates => cache' = cache
  <2>1. req[r].invalidates \in BOOLEAN
    BY <1>1, RatingFields DEF RatingsInv
  <2>2. cache \in CacheRow \cup {NoRow}
    BY DEF RatingsInv, TypeOK
  <2>3. CASE cache \in CacheRow
    BY <1>1, <2>1, <2>3 DEF Invalidated, CacheRow
  <2>4. CASE cache = NoRow
    <3>1. Invalidated(cache) = NoRow
      <4>1. [NoRow EXCEPT !.valid = FALSE] = NoRow
        <5> DEFINE Row == [valid : BOOLEAN, exists : BOOLEAN, reviews : SUBSET Review]
        <5>1. NoRow \in Row /\ NoRow.valid = FALSE
          BY DEF NoRow
        <5>2. \A row \in Row : row.valid = FALSE => [row EXCEPT !.valid = FALSE] = row
          OBVIOUS
        <5>3. QED BY <5>1, <5>2
      <4>2. QED BY <2>4, <4>1 DEF Invalidated
    <3>2. ~NoRow.valid
      BY DEF NoRow
    <3>3. QED BY <1>1, <2>1, <2>4, <3>1, <3>2
  <2>5. QED BY <2>2, <2>3, <2>4
<1>5. cache'.valid => cache.valid
  BY <1>1, <1>4
<1>6. cache'.valid => "summary" \in raced'
  BY <1>1, <1>3, <1>4 DEF RatingsInv, Knows
<1>7. QED BY <1>1, <1>3, <1>4, <1>5, <1>6, RatingsStoresReview

(* A rating of a driver, of whose reviews there is no summary.             *)
LEMMA RatingsCommitDriverRating ==
  ASSUME RatingsInv, NEW r \in Requests, CommitDriverRating(r)
  PROVE  RatingsInv'
<1> DEFINE clash == [average |-> "rating"]
<1>1. /\ req[r].op = "averaged" /\ StoresReview(r) /\ cache' = cache
      /\ raced' = Leaves(r, clash) /\ rated = "driver"
  BY DEF CommitDriverRating
<1>2. DOMAIN clash = {"average"} /\ clash["average"] = "rating"
  OBVIOUS
<1> HIDE DEF clash
<1>3. /\ raced' \subseteq {"average", "summary"}
      /\ "average" \in raced' <=> "rating" \in req[r].met
  BY <1>1, <1>2 DEF Leaves
<1>4. ~cache'.valid /\ cache' \in CacheRow \cup {NoRow}
  BY <1>1 DEF RatingsInv, OnlyMerchants, TypeOK
<1>5. QED BY <1>1, <1>3, <1>4, RatingsStoresReview

-----------------------------------------------------------------------------
(* A summary of what is stored now.                                        *)
LEMMA RatingsReadForSummary ==
  ASSUME RatingsInv, NEW r \in Requests, NEW refresh \in BOOLEAN, ReadForSummary(r, refresh)
  PROVE  RatingsInv'
<1> DEFINE new == [op |-> "summary", seen |-> reviews, met |-> Met(r)]
<1>1. Met(r) \in Mets
  BY DEF Met, Kind, Mets
<1>2. new \in Request /\ new.op = "summary" /\ new.seen = reviews /\ new.met = Met(r)
  BY <1>1 DEF Request, RatingsInv, TypeOK
<1>3. /\ rated = "merchant" /\ Begins(r, new) /\ UNCHANGED <<rated, stored, twice>>
      /\ twice \subseteq Orders
  BY DEF ReadForSummary, RatingsInv, TypeOK
<1> HIDE DEF new
<1>4. QED BY <1>2, <1>3, RatingsBegins

LEMMA RatingsLookForRow ==
  ASSUME RatingsInv, NEW r \in Requests, LookForRow(r)
  PROVE  RatingsInv'
<1> DEFINE new == [op |-> "storing", seen |-> req[r].seen,
                   found |-> cache.exists, met |-> req[r].met]
<1>1. /\ req[r].op = "summary" /\ req' = [req EXCEPT ![r] = new]
      /\ UNCHANGED <<rated, stored, twice>>
  BY DEF LookForRow, Goes
<1>2. /\ Busies(r) /\ req[r].met \in Mets /\ req[r].seen \in SUBSET Review
      /\ cache.exists \in BOOLEAN
  BY <1>1, RatingFields, RatingCache DEF RatingsInv
<1>3. new \in Request
  BY <1>2 DEF Request
<1>4. req'[r] = new
  BY <1>1 DEF RatingsInv, TypeOK
<1>5. Knows(r)'
  <2>1. Knows(r)
    BY DEF RatingsInv
  <2>2. QED BY <1>1, <1>4, <2>1 DEF Knows, RatingOp, stored
<1>6. Kind(new.op) = Kind(req[r].op)
  BY <1>1 DEF Kind
<1>7. QED BY <1>1, <1>2, <1>3, <1>5, <1>6, RatingsGoes

(* A summary is stored: ratings under way have met it.                     *)
LEMMA RatingsStoreSummary ==
  ASSUME RatingsInv, NEW r \in Requests, StoreSummary(r)
  PROVE  RatingsInv'
<1> DEFINE clash == [summary |-> "rating"]
           row == [valid |-> TRUE, exists |-> TRUE, reviews |-> req[r].seen]
<1>1. /\ req[r].op = "storing" /\ cache' = row /\ raced' = Leaves(r, clash)
      /\ req' = [req EXCEPT ![r] = Idle] /\ UNCHANGED <<rated, reviews, average, twice>>
  BY DEF StoreSummary
<1>2. DOMAIN clash = {"summary"} /\ clash["summary"] = "rating"
  OBVIOUS
<1> HIDE DEF clash
<1>3. /\ raced' \subseteq {"average", "summary"}
      /\ "average" \in raced' <=> "average" \in raced
      /\ "summary" \in raced' <=> "rating" \in req[r].met
  BY <1>1, <1>2 DEF Leaves
<1>4. Busies(r) /\ req[r].seen \in SUBSET Review /\ rated = "merchant"
  BY <1>1, RatingFields DEF RatingsInv, Knows
<1>5. \A p \in Requests : req'[p] = IF p = r THEN Idle ELSE req[p]
  BY <1>1 DEF RatingsInv, TypeOK
<1>6. row \in CacheRow /\ row.reviews = req[r].seen
  BY <1>4 DEF CacheRow
<1>7. TypeOK'
  <2>1. req' \in [Requests -> Request]
    BY <1>1 DEF RatingsInv, TypeOK, Request
  <2>2. QED BY <1>1, <1>3, <1>6, <2>1 DEF RatingsInv, TypeOK
<1>8. ASSUME NEW p \in Requests PROVE Knows(p)'
  <2>1. CASE p = r \/ req[p] = Idle
    BY <1>5, <2>1 DEF Knows, RatingOp, Idle
  <2>2. CASE p # r /\ req[p] # Idle
    <3>1. "summary" \in req[p].met
      BY <1>1, <1>4, <2>2, RatingKinds DEF RatingsInv, MetAll, Busies
    <3>2. Knows(p) /\ req'[p] = req[p]
      BY <1>5, <2>2 DEF RatingsInv
    <3>3. QED BY <1>1, <3>1, <3>2 DEF Knows, RatingOp, Mine
  <2>3. QED BY <2>1, <2>2
<1>9. MetAll' /\ TwiceNoted' /\ OnlyMerchants'
  BY <1>1, <1>4, <1>5
     DEF RatingsInv, MetAll, Busies, TwiceNoted, RatingOp, Idle, OnlyMerchants
<1>10. RatingsCurrent'
  <2>1. "summary" \notin raced' => cache'.reviews = reviews'
    BY <1>1, <1>3, <1>6 DEF RatingsInv, Knows
  <2>2. QED BY <1>1, <1>3, <2>1 DEF RatingsInv, RatingsCurrent
<1>11. QED BY <1>7, <1>8, <1>9, <1>10 DEF RatingsInv

LEMMA RatingsRollback ==
  ASSUME RatingsInv, NEW r \in Requests, Rollback(r)
  PROVE  RatingsInv'
<1>1. req' = [req EXCEPT ![r] = Idle] /\ UNCHANGED <<rated, stored, twice>>
  BY DEF Rollback
<1>2. Knows(r)'
  BY <1>1 DEF Knows, RatingOp, Idle, RatingsInv, TypeOK
<1>3. QED BY <1>1, <1>2, RatingsGoes DEF Request

-----------------------------------------------------------------------------
(* What requests under way know is right unless they met one that changed  *)
(* it, and so is what the last of them stored.                             *)
LEMMA RatingsInvariance == Spec => []RatingsInv
<1>1. Init => RatingsInv
  BY DEF Init, RatingsInv, TypeOK, Request, Knows, RatingOp, MetAll, Busies, TwiceNoted,
         OnlyMerchants, RatingsCurrent, Idle, NoRow
<1>2. RatingsInv /\ [Next]_vars => RatingsInv'
  <2> SUFFICES ASSUME RatingsInv, [Next]_vars PROVE RatingsInv'
    OBVIOUS
  <2>1. CASE UNCHANGED vars
    BY <2>1 DEF vars, RatingsInv, TypeOK, Knows, Mine, RatingOp, MetAll, Busies, TwiceNoted,
                OnlyMerchants, RatingsCurrent
  <2>2. CASE Next
    BY <2>2, RatingsReadForRating, RatingsAverage, RatingsLookForCache,
       RatingsCommitMerchantRating,
       RatingsCommitDriverRating, RatingsReadForSummary, RatingsLookForRow,
       RatingsStoreSummary,
       RatingsRollback DEF Next
  <2>3. QED BY <2>1, <2>2
<1>3. QED BY <1>1, <1>2, PTL DEF Spec

-----------------------------------------------------------------------------
(***************************************************************************)
(* Menus.  An edit never sets a row alive, and keeps what the row belongs  *)
(* to.  An option can therefore outlive its group only if the request that *)
(* deletes the group has not found it, so that it was added meanwhile: the *)
(* two requests were under way at once, and that was noted.                *)
(***************************************************************************)
ShopEdit(w) ==
  /\ DOMAIN w \subseteq {"status", "open"}
  /\ "status" \in DOMAIN w => w["status"] = "ACTIVE"
  /\ "open" \in DOMAIN w => w["open"] \in BOOLEAN

RowEdit(w, column, values) ==
  /\ DOMAIN w \subseteq {"live", column}
  /\ "live" \in DOMAIN w => w["live"] = FALSE
  /\ column \in DOMAIN w => w[column] \in values

EditFits(x, w) ==
  /\ x \in Shops => ShopEdit(w)
  /\ x \in Items => RowEdit(w, "available", BOOLEAN)
  /\ x \in Groups => RowEdit(w, "required", BOOLEAN)
  /\ x \in Options => RowEdit(w, "price", Prices)

AddFits(x, w) ==
  /\ x \in Items => w \in M!Item /\ w.live = TRUE
  /\ x \in Groups => w \in M!Group /\ w.live = TRUE
  /\ x \in Options => w \in M!Option /\ w.live = TRUE

(* Only one request adds a row.                                            *)
WritesFit(r) ==
  \A x \in DOMAIN menuReq[r] :
    IF x \in M!Parents /\ rows[x] = M!Absent
      THEN AddFits(x, menuReq[r][x]) /\ \A q \in Requests : x \in DOMAIN menuReq[q] => q = r
      ELSE EditFits(x, menuReq[r][x])

(* Who deletes a group has found its options.                              *)
DeletesAll(r, g) ==
  \A o \in Options : M!OptionOf(o, g) /\ g \notin menuRaced =>
    o \in DOMAIN menuReq[r] /\ "live" \in DOMAIN menuReq[r][o]

AddsToLive(r) ==
  \A o \in Options \cap DOMAIN menuReq[r] : rows[o] = M!Absent =>
    M!Live(menuReq[r][o].group) \/ menuReq[r][o].group \in menuRaced

OverlapsNoted == \A g \in Groups : M!Deletes(g) # {} /\ M!AddsTo(g) # {} => g \in menuRaced

NoneOutlives ==
  \A g \in Groups, o \in Options : M!OptionOf(o, g) => M!Live(g) \/ g \in menuRaced

MenuInv ==
  /\ M!TypeOK /\ DOMAIN rows = M!Ids /\ DOMAIN menuReq = Requests
  /\ \A r \in Requests :
       /\ WritesFit(r) /\ AddsToLive(r)
       /\ \A g \in Groups : r \in M!Deletes(g) => DeletesAll(r, g)
  /\ OverlapsNoted
  /\ NoneOutlives

(* What is written of a row of the four tables, and what it leaves.        *)
LEMMA ShopWritten ==
  ASSUME NEW row \in M!Shop, NEW w, ShopEdit(w)
  PROVE  /\ M!Written(w, row) \in M!Shop
         /\ row.status = "ACTIVE" => M!Written(w, row).status = "ACTIVE"
<1> DEFINE new == M!Written(w, row)
<1>1. DOMAIN row = {"status", "open"}
  BY DEF M!Shop
<1>2. new = [f \in {"status", "open"} |-> IF f \in DOMAIN w THEN w[f] ELSE row[f]]
  BY <1>1 DEF M!Written, ShopEdit
<1>3. new["status"] \in {"PENDING", "ACTIVE"} /\ new["open"] \in BOOLEAN
      /\ (row.status = "ACTIVE" => new["status"] = "ACTIVE")
  BY <1>2 DEF M!Shop, ShopEdit
<1>4. new = [status |-> new["status"], open |-> new["open"]]
  BY <1>2
<1> HIDE DEF new
<1>5. new \in M!Shop
  BY <1>3, <1>4 DEF M!Shop
<1> QED
  BY <1>3, <1>5 DEF new

LEMMA ItemWritten ==
  ASSUME NEW row \in M!Item, NEW w, RowEdit(w, "available", BOOLEAN)
  PROVE  /\ M!Written(w, row) \in M!Item
         /\ M!Written(w, row).live => row.live
         /\ "live" \in DOMAIN w => ~M!Written(w, row).live
<1> DEFINE new == M!Written(w, row)
<1>1. DOMAIN row = {"shop", "live", "available"}
  BY DEF M!Item
<1>2. new = [f \in {"shop", "live", "available"} |->
                IF f \in DOMAIN w THEN w[f] ELSE row[f]]
  BY <1>1 DEF M!Written, RowEdit
<1>3. /\ new["shop"] \in Shops /\ new["live"] \in BOOLEAN /\ new["available"] \in BOOLEAN
      /\ new["live"] => row.live
      /\ "live" \in DOMAIN w => ~new["live"]
  BY <1>2 DEF M!Item, RowEdit
<1>4. new = [shop |-> new["shop"], live |-> new["live"], available |-> new["available"]]
  BY <1>2
<1> HIDE DEF new
<1>5. new \in M!Item
  BY <1>3, <1>4 DEF M!Item
<1> QED
  BY <1>3, <1>5 DEF new

LEMMA GroupWritten ==
  ASSUME NEW row \in M!Group, NEW w, RowEdit(w, "required", BOOLEAN)
  PROVE  /\ M!Written(w, row) \in M!Group
         /\ M!Written(w, row).live => row.live
         /\ "live" \notin DOMAIN w => M!Written(w, row).live = row.live
         /\ "live" \in DOMAIN w => ~M!Written(w, row).live
<1> DEFINE new == M!Written(w, row)
<1>1. DOMAIN row = {"item", "live", "required"}
  BY DEF M!Group
<1>2. new = [f \in {"item", "live", "required"} |-> IF f \in DOMAIN w THEN w[f] ELSE row[f]]
  BY <1>1 DEF M!Written, RowEdit
<1>3. /\ new["item"] \in Items /\ new["live"] \in BOOLEAN /\ new["required"] \in BOOLEAN
      /\ new["live"] => row.live
      /\ "live" \notin DOMAIN w => new["live"] = row.live
      /\ "live" \in DOMAIN w => ~new["live"]
  BY <1>2 DEF M!Group, RowEdit
<1>4. new = [item |-> new["item"], live |-> new["live"], required |-> new["required"]]
  BY <1>2
<1> HIDE DEF new
<1>5. new \in M!Group
  BY <1>3, <1>4 DEF M!Group
<1> QED
  BY <1>3, <1>5 DEF new

LEMMA OptionWritten ==
  ASSUME NEW row \in M!Option, NEW w, RowEdit(w, "price", Prices)
  PROVE  /\ M!Written(w, row) \in M!Option
         /\ M!Written(w, row).group = row.group
         /\ M!Written(w, row).live => row.live
         /\ "live" \in DOMAIN w => ~M!Written(w, row).live
<1> DEFINE new == M!Written(w, row)
<1>1. DOMAIN row = {"group", "live", "price"}
  BY DEF M!Option
<1>2. new = [f \in {"group", "live", "price"} |-> IF f \in DOMAIN w THEN w[f] ELSE row[f]]
  BY <1>1 DEF M!Written, RowEdit
<1>3. /\ new["group"] = row.group /\ new["group"] \in Groups
      /\ new["live"] \in BOOLEAN /\ new["price"] \in Prices
      /\ new["live"] => row.live
      /\ "live" \in DOMAIN w => ~new["live"]
  BY <1>2 DEF M!Option, RowEdit
<1>4. new = [group |-> new["group"], live |-> new["live"], price |-> new["price"]]
  BY <1>2
<1> HIDE DEF new
<1>5. new \in M!Option
  BY <1>3, <1>4 DEF M!Option
<1> QED
  BY <1>3, <1>5 DEF new

(* A row that was not there is what is written.                            *)
LEMMA NewWritten ==
  ASSUME NEW w \in M!Item \cup M!Group \cup M!Option
  PROVE  M!Written(w, M!Absent) = w /\ w # M!Absent
<1>1. DOMAIN M!Absent = {}
  BY DEF M!Absent
<1>2. CASE w \in M!Item
  BY <1>1, <1>2 DEF M!Written, M!Item
<1>3. CASE w \in M!Group
  BY <1>1, <1>3 DEF M!Written, M!Group
<1>4. CASE w \in M!Option
  BY <1>1, <1>4 DEF M!Written, M!Option
<1> QED
  BY <1>2, <1>3, <1>4

(* What commits, of every row.                                             *)
LEMMA MenuWritten ==
  ASSUME MenuInv, NEW r \in Requests, M!Commit(r), NEW x \in M!Ids
  PROVE  /\ x \in Shops => /\ rows'[x] \in M!Shop
                           /\ rows[x].status = "ACTIVE" => rows'[x].status = "ACTIVE"
         /\ x \in Items => rows'[x] \in M!Item \cup {M!Absent}
         /\ x \in Groups => rows'[x] \in M!Group \cup {M!Absent}
         /\ x \in Options => rows'[x] \in M!Option \cup {M!Absent}
         /\ x \in M!Parents /\ rows[x] # M!Absent =>
              /\ rows'[x] # M!Absent /\ (rows'[x].live => rows[x].live)
              /\ x \in DOMAIN menuReq[r] /\ "live" \in DOMAIN menuReq[r][x] =>
                   ~rows'[x].live
              /\ x \in Groups
                   /\ ~(x \in DOMAIN menuReq[r] /\ "live" \in DOMAIN menuReq[r][x]) =>
                   rows'[x].live = rows[x].live
              /\ x \in Options => rows'[x].group = rows[x].group
         /\ x \in M!Parents /\ rows[x] = M!Absent =>
              rows'[x] = IF x \in DOMAIN menuReq[r] THEN menuReq[r][x] ELSE M!Absent
<1>1. rows'[x] = IF x \in DOMAIN menuReq[r] THEN M!Written(menuReq[r][x], rows[x])
        ELSE rows[x]
  BY DEF M!Commit
<1>2. /\ x \in Shops => rows[x] \in M!Shop
      /\ x \in Items => rows[x] \in M!Item \cup {M!Absent}
      /\ x \in Groups => rows[x] \in M!Group \cup {M!Absent}
      /\ x \in Options => rows[x] \in M!Option \cup {M!Absent}
  BY DEF MenuInv, M!TypeOK
<1>3. \A row \in M!Item \cup M!Group \cup M!Option : row # M!Absent
  BY NewWritten
<1>4. CASE x \notin DOMAIN menuReq[r]
  BY <1>1, <1>2, <1>4, IdsAssumption DEF M!Parents
<1>5. CASE x \in DOMAIN menuReq[r] /\ x \in M!Parents /\ rows[x] = M!Absent
  <2>1. AddFits(x, menuReq[r][x])
    BY <1>5 DEF MenuInv, WritesFit
  <2>2. menuReq[r][x] \in M!Item \cup M!Group \cup M!Option
    BY <1>5, <2>1 DEF AddFits, M!Parents
  <2>3. rows'[x] = menuReq[r][x]
    BY <1>1, <1>5, <2>2, NewWritten
  <2> QED
    BY <1>5, <2>1, <2>3, IdsAssumption DEF AddFits, M!Parents
<1>6. CASE x \in DOMAIN menuReq[r] /\ x \in Shops
  <2>1. ShopEdit(menuReq[r][x]) /\ x \notin M!Parents
    BY <1>6, IdsAssumption DEF MenuInv, WritesFit, EditFits
  <2> QED
    BY <1>1, <1>2, <1>6, <2>1, ShopWritten, IdsAssumption DEF M!Parents
<1>7. CASE x \in DOMAIN menuReq[r] /\ x \in Items /\ rows[x] # M!Absent
  <2>1. RowEdit(menuReq[r][x], "available", BOOLEAN) /\ rows[x] \in M!Item
    BY <1>2, <1>7 DEF MenuInv, WritesFit, EditFits
  <2>2. x \notin Shops /\ x \notin Groups /\ x \notin Options
    BY <1>7, IdsAssumption DEF M!Parents
  <2>3. rows'[x] = M!Written(menuReq[r][x], rows[x])
    BY <1>1, <1>7
  <2> QED
    BY <1>3, <1>7, <2>1, <2>2, <2>3, ItemWritten
<1>8. CASE x \in DOMAIN menuReq[r] /\ x \in Groups /\ rows[x] # M!Absent
  <2>1. RowEdit(menuReq[r][x], "required", BOOLEAN) /\ rows[x] \in M!Group
    BY <1>2, <1>8 DEF MenuInv, WritesFit, EditFits
  <2>2. x \notin Shops /\ x \notin Items /\ x \notin Options
    BY <1>8, IdsAssumption DEF M!Parents
  <2>3. rows'[x] = M!Written(menuReq[r][x], rows[x])
    BY <1>1, <1>8
  <2> QED
    BY <1>3, <1>8, <2>1, <2>2, <2>3, GroupWritten
<1>9. CASE x \in DOMAIN menuReq[r] /\ x \in Options /\ rows[x] # M!Absent
  <2>1. RowEdit(menuReq[r][x], "price", Prices) /\ rows[x] \in M!Option
    BY <1>2, <1>9 DEF MenuInv, WritesFit, EditFits
  <2>2. x \notin Shops /\ x \notin Items /\ x \notin Groups
    BY <1>9, IdsAssumption DEF M!Parents
  <2>3. rows'[x] = M!Written(menuReq[r][x], rows[x])
    BY <1>1, <1>9
  <2> QED
    BY <1>3, <1>9, <2>1, <2>2, <2>3, OptionWritten
<1> QED
  BY <1>4, <1>5, <1>6, <1>7, <1>8, <1>9 DEF M!Ids, M!Parents

(* Taking in requests under way once one changed: a group that is deleted  *)
(* while an option is added to it is marked.                               *)
LEMMA OverlapsAreNoted ==
  ASSUME MenuInv, M!Marks
  PROVE  OverlapsNoted' /\ menuRaced' \subseteq Groups /\ menuRaced \subseteq menuRaced'
<1>1. menuRaced \subseteq Groups
  BY DEF MenuInv, M!TypeOK
<1>2. menuRaced' = {g \in Groups :
                      g \in menuRaced \/ (M!Deletes(g)' # {} /\ M!AddsTo(g)' # {})}
  BY DEF M!Marks
<1>3. OverlapsNoted' <=>
        \A g \in Groups : M!Deletes(g)' # {} /\ M!AddsTo(g)' # {} => g \in menuRaced'
  BY DEF OverlapsNoted
<1> QED
  BY <1>1, <1>2, <1>3

(* A request begins with writes that fit the rows as they are.             *)
LEMMA MenuBegins ==
  ASSUME MenuInv, M!Marks, NEW r \in Requests, NEW writes, M!Begin(r, writes),
         DOMAIN writes \subseteq M!Ids,
         \A x \in DOMAIN writes :
           IF x \in M!Parents /\ rows[x] = M!Absent
             THEN AddFits(x, writes[x]) /\ \A q \in Requests : x \notin DOMAIN menuReq[q]
             ELSE EditFits(x, writes[x]),
         \A g \in Groups \cap DOMAIN writes :
           "live" \in DOMAIN writes[g] /\ ~writes[g].live =>
             \A o \in Options : M!OptionOf(o, g) =>
               o \in DOMAIN writes /\ "live" \in DOMAIN writes[o],
         \A o \in Options \cap DOMAIN writes : rows[o] = M!Absent => M!Live(writes[o].group)
  PROVE  MenuInv'
<1>1. /\ menuReq[r] = M!Idle /\ rows' = rows
      /\ \A q \in Requests : menuReq'[q] = IF q = r THEN writes ELSE menuReq[q]
      /\ DOMAIN menuReq' = Requests
  BY DEF M!Begin, MenuInv
<1>2. OverlapsNoted' /\ menuRaced' \subseteq Groups /\ menuRaced \subseteq menuRaced'
  BY OverlapsAreNoted
<1>3. M!TypeOK'
  BY <1>1, <1>2 DEF MenuInv, M!TypeOK
<1>4. ASSUME NEW q \in Requests
      PROVE  WritesFit(q)'
  <2> SUFFICES ASSUME NEW x \in DOMAIN menuReq'[q]
               PROVE  IF x \in M!Parents /\ rows[x] = M!Absent
                        THEN /\ AddFits(x, menuReq'[q][x])
                             /\ \A p \in Requests : x \in DOMAIN menuReq'[p] => p = q
                        ELSE EditFits(x, menuReq'[q][x])
    BY <1>1 DEF WritesFit
  <2>1. CASE q = r
    BY <1>1, <2>1
  <2>2. CASE q # r
    <3>1. WritesFit(q) /\ menuReq'[q] = menuReq[q]
      BY <1>1, <2>2 DEF MenuInv
    <3>2. IF x \in M!Parents /\ rows[x] = M!Absent
            THEN /\ AddFits(x, menuReq[q][x])
                 /\ \A p \in Requests : x \in DOMAIN menuReq[p] => p = q
            ELSE EditFits(x, menuReq[q][x])
      BY <3>1 DEF WritesFit
    <3>3. x \in M!Parents /\ rows[x] = M!Absent => x \notin DOMAIN writes
      BY <3>1
    <3> QED
      BY <1>1, <3>1, <3>2, <3>3
  <2> QED
    BY <2>1, <2>2
<1>5. ASSUME NEW q \in Requests
      PROVE  AddsToLive(q)'
  <2>1. CASE q = r
    BY <1>1, <2>1 DEF AddsToLive, M!Live
  <2>2. CASE q # r
    <3>1. AddsToLive(q)
      BY DEF MenuInv
    <3> QED
      BY <1>1, <1>2, <2>2, <3>1 DEF AddsToLive, M!Live
  <2> QED
    BY <2>1, <2>2
<1>6. ASSUME NEW q \in Requests, NEW g \in Groups, (q \in M!Deletes(g))'
      PROVE  DeletesAll(q, g)'
  <2>1. g \in DOMAIN menuReq'[q] /\ "live" \in DOMAIN menuReq'[q][g] /\ ~menuReq'[q][g].live
    BY <1>6 DEF M!Deletes
  <2>2. CASE q = r
    BY <1>1, <2>1, <2>2 DEF DeletesAll, M!OptionOf, M!Live
  <2>3. CASE q # r
    <3>1. menuReq'[q] = menuReq[q]
      BY <1>1, <2>3
    <3>2. q \in M!Deletes(g)
      BY <2>1, <3>1 DEF M!Deletes
    <3>3. DeletesAll(q, g)
      BY <3>2 DEF MenuInv
    <3> QED
      BY <1>1, <1>2, <3>1, <3>3 DEF DeletesAll, M!OptionOf, M!Live
  <2> QED
    BY <2>2, <2>3
<1>7. NoneOutlives'
  BY <1>1, <1>2 DEF MenuInv, NoneOutlives, M!OptionOf, M!Live
<1> QED
  BY <1>1, <1>2, <1>3, <1>4, <1>5, <1>6, <1>7 DEF MenuInv

(* An edit of one row, of a column or of live, that deletes no group.      *)
LEMMA MenuEdits ==
  ASSUME MenuInv, M!Marks, NEW r \in Requests, NEW x \in M!Ids, NEW row, M!Edits(r, x, row),
         x \in M!Parents => rows[x] # M!Absent,
         EditFits(x, M!Changes(rows[x], row)),
         x \in Groups => "live" \notin DOMAIN M!Changes(rows[x], row)
  PROVE  MenuInv'
<1> DEFINE writes == [y \in {x} |-> M!Changes(rows[x], row)]
<1>1. M!Begin(r, writes) /\ DOMAIN writes = {x} /\ writes[x] = M!Changes(rows[x], row)
  BY DEF M!Edits
<1>2. x \in Options => rows[x] # M!Absent
  BY DEF M!Parents
<1> HIDE DEF writes
<1> QED
  BY <1>1, <1>2, MenuBegins

(* A row that is added, to a parent that is there.                         *)
LEMMA MenuAdds ==
  ASSUME MenuInv, M!Marks, NEW r \in Requests, NEW x \in M!Parents, NEW row,
         M!Adds(r, x, row),
         AddFits(x, row),
         x \in Options => M!Live(row.group)
  PROVE  MenuInv'
<1> DEFINE writes == [y \in {x} |-> row]
<1>1. /\ M!Begin(r, writes) /\ DOMAIN writes = {x} /\ writes[x] = row
      /\ rows[x] = M!Absent /\ \A q \in Requests : x \notin DOMAIN menuReq[q]
  BY DEF M!Adds
<1>2. x \in Groups => row.live = TRUE
  BY DEF AddFits
<1>3. x \in M!Ids
  BY DEF M!Ids
<1> HIDE DEF writes
<1> QED
  BY <1>1, <1>2, <1>3, MenuBegins

(* The columns an edit changes.                                            *)
LEMMA ChangesOne ==
  ASSUME NEW seen, NEW f \in DOMAIN seen, NEW value
  PROVE  /\ DOMAIN M!Changes(seen, [seen EXCEPT ![f] = value]) \subseteq {f}
         /\ f \in DOMAIN M!Changes(seen, [seen EXCEPT ![f] = value]) =>
              M!Changes(seen, [seen EXCEPT ![f] = value])[f] = value
  BY DEF M!Changes

LEMMA MenuShopEdits ==
  ASSUME MenuInv, M!Marks, NEW r \in Requests, NEW s \in Shops, M!EditsShop(r, s)
  PROVE  MenuInv'
<1>1. s \in M!Ids /\ s \notin M!Parents /\ rows[s] \in M!Shop
  BY IdsAssumption DEF M!Ids, MenuInv, M!TypeOK
<1>2. DOMAIN rows[s] = {"status", "open"}
  BY <1>1 DEF M!Shop
<1>3. ASSUME NEW open \in BOOLEAN, M!ReadShop(r, s, open)
      PROVE  MenuInv'
  <2> DEFINE row == [rows[s] EXCEPT !.open = open]
  <2>1. ShopEdit(M!Changes(rows[s], row))
    BY <1>2, ChangesOne DEF ShopEdit
  <2>2. M!Edits(r, s, row)
    BY <1>3 DEF M!ReadShop
  <2> HIDE DEF row
  <2> QED
    BY <1>1, <2>1, <2>2, MenuEdits DEF EditFits, M!Parents
<1>4. CASE M!ReadApprove(r, s)
  <2> DEFINE row == [rows[s] EXCEPT !.status = "ACTIVE"]
  <2>1. ShopEdit(M!Changes(rows[s], row))
    BY <1>2, ChangesOne DEF ShopEdit
  <2>2. M!Edits(r, s, row)
    BY <1>4 DEF M!ReadApprove
  <2> HIDE DEF row
  <2> QED
    BY <1>1, <2>1, <2>2, MenuEdits DEF EditFits, M!Parents
<1> QED
  BY <1>3, <1>4 DEF M!EditsShop

LEMMA MenuItemEdits ==
  ASSUME MenuInv, M!Marks, NEW r \in Requests, NEW s \in Shops, NEW i \in Items,
         M!EditsItem(r, s, i)
  PROVE  MenuInv'
<1>1. /\ i \in M!Ids /\ i \in M!Parents /\ i \notin Shops /\ i \notin Groups
      /\ i \notin Options
      /\ rows[i] # M!Absent => rows[i] \in M!Item
  BY IdsAssumption DEF M!Ids, M!Parents, MenuInv, M!TypeOK
<1>2. rows[i] # M!Absent => DOMAIN rows[i] = {"shop", "live", "available"}
  BY <1>1 DEF M!Item
<1>3. CASE M!ReadAddItem(r, s, i)
  <2> DEFINE row == [shop |-> s, live |-> TRUE, available |-> TRUE]
  <2>1. M!Adds(r, i, row) /\ row \in M!Item /\ row.live = TRUE
    BY <1>3 DEF M!ReadAddItem, M!Item
  <2> HIDE DEF row
  <2> QED
    BY <1>1, <2>1, MenuAdds DEF AddFits
<1>4. ASSUME NEW a \in BOOLEAN, M!ReadItem(r, s, i, a)
      PROVE  MenuInv'
  <2> DEFINE row == [rows[i] EXCEPT !.available = a]
  <2>1. M!Edits(r, i, row) /\ rows[i] # M!Absent
    BY <1>4 DEF M!ReadItem, M!Mine, M!Live
  <2>2. RowEdit(M!Changes(rows[i], row), "available", BOOLEAN)
    BY <1>2, <2>1, ChangesOne DEF RowEdit
  <2> HIDE DEF row
  <2> QED
    BY <1>1, <2>1, <2>2, MenuEdits DEF EditFits
<1>5. CASE M!ReadDeleteItem(r, s, i)
  <2> DEFINE row == [rows[i] EXCEPT !.live = FALSE]
  <2>1. M!Edits(r, i, row) /\ rows[i] # M!Absent
    BY <1>5 DEF M!ReadDeleteItem
  <2>2. RowEdit(M!Changes(rows[i], row), "available", BOOLEAN)
    BY <1>2, <2>1, ChangesOne DEF RowEdit
  <2> HIDE DEF row
  <2> QED
    BY <1>1, <2>1, <2>2, MenuEdits DEF EditFits
<1> QED
  BY <1>3, <1>4, <1>5 DEF M!EditsItem

LEMMA MenuGroupEdits ==
  ASSUME MenuInv, M!Marks, NEW r \in Requests, NEW s \in Shops, NEW i \in Items,
         NEW g \in Groups, M!EditsGroup(r, s, i, g)
  PROVE  MenuInv'
<1>1. /\ g \in M!Ids /\ g \in M!Parents /\ g \notin Shops /\ g \notin Items
      /\ g \notin Options
      /\ rows[g] # M!Absent => rows[g] \in M!Group
  BY IdsAssumption DEF M!Ids, M!Parents, MenuInv, M!TypeOK
<1>2. rows[g] # M!Absent => DOMAIN rows[g] = {"item", "live", "required"}
  BY <1>1 DEF M!Group
<1>3. CASE M!ReadAddGroup(r, s, i, g)
  <2> DEFINE row == [item |-> i, live |-> TRUE, required |-> FALSE]
  <2>1. M!Adds(r, g, row) /\ row \in M!Group /\ row.live = TRUE
    BY <1>3 DEF M!ReadAddGroup, M!Group
  <2> HIDE DEF row
  <2> QED
    BY <1>1, <2>1, MenuAdds DEF AddFits
<1>4. ASSUME NEW q \in BOOLEAN, M!ReadGroup(r, s, i, g, q)
      PROVE  MenuInv'
  <2> DEFINE row == [rows[g] EXCEPT !.required = q]
  <2>1. M!Edits(r, g, row) /\ rows[g] # M!Absent
    BY <1>4 DEF M!ReadGroup, M!GroupOf, M!Live
  <2>2. /\ RowEdit(M!Changes(rows[g], row), "required", BOOLEAN)
        /\ "live" \notin DOMAIN M!Changes(rows[g], row)
    BY <1>2, <2>1, ChangesOne DEF RowEdit
  <2> HIDE DEF row
  <2> QED
    BY <1>1, <2>1, <2>2, MenuEdits DEF EditFits
<1>5. CASE M!ReadDeleteGroup(r, s, i, g)
  <2> DEFINE w == [live |-> FALSE]
             writes == [x \in {g} \cup M!OptionsOf(g) |-> w]
  <2>1. M!Begin(r, writes) /\ rows[g] # M!Absent
    BY <1>5 DEF M!ReadDeleteGroup, M!GroupOf, M!Live
  <2>2. /\ DOMAIN writes = {g} \cup M!OptionsOf(g)
        /\ \A x \in DOMAIN writes : writes[x] = w
        /\ DOMAIN w = {"live"} /\ w["live"] = FALSE
    OBVIOUS
  <2>3. \A x \in M!OptionsOf(g) : x \in Options /\ rows[x] # M!Absent
    BY DEF M!OptionsOf, M!OptionOf, M!Live
  <2>4. DOMAIN writes \subseteq M!Ids
    BY <1>1, <2>2, <2>3 DEF M!Ids, M!Parents
  <2>5. ASSUME NEW x \in DOMAIN writes
        PROVE  rows[x] # M!Absent /\ EditFits(x, writes[x])
    <3>1. rows[x] # M!Absent /\ x \notin Shops /\ x \notin Items
      BY <1>1, <2>1, <2>2, <2>3, IdsAssumption DEF M!Parents
    <3> QED
      BY <2>2, <2>5, <3>1 DEF EditFits, RowEdit
  <2>6. ASSUME NEW h \in Groups \cap DOMAIN writes, NEW o \in Options, M!OptionOf(o, h)
        PROVE  o \in DOMAIN writes /\ "live" \in DOMAIN writes[o]
    <3>1. h = g
      BY <2>2, <2>3, <2>6, IdsAssumption
    <3> QED
      BY <2>2, <2>6, <3>1 DEF M!OptionsOf
  <2> HIDE DEF w, writes
  <2> QED
    BY <2>1, <2>4, <2>5, <2>6, MenuBegins
<1> QED
  BY <1>3, <1>4, <1>5 DEF M!EditsGroup

LEMMA MenuOptionEdits ==
  ASSUME MenuInv, M!Marks, NEW r \in Requests, NEW s \in Shops, NEW i \in Items,
         NEW g \in Groups, NEW o \in Options, M!EditsOption(r, s, i, g, o)
  PROVE  MenuInv'
<1>1. /\ o \in M!Ids /\ o \in M!Parents /\ o \notin Shops /\ o \notin Items
      /\ o \notin Groups
      /\ rows[o] # M!Absent => rows[o] \in M!Option
  BY IdsAssumption DEF M!Ids, M!Parents, MenuInv, M!TypeOK
<1>2. rows[o] # M!Absent => DOMAIN rows[o] = {"group", "live", "price"}
  BY <1>1 DEF M!Option
<1>3. ASSUME NEW p \in Prices, M!ReadAddOption(r, s, i, g, o, p)
      PROVE  MenuInv'
  <2> DEFINE row == [group |-> g, live |-> TRUE, price |-> p]
  <2>1. M!Adds(r, o, row) /\ row \in M!Option /\ row.live = TRUE /\ row.group = g
          /\ M!Live(g)
    BY <1>3 DEF M!ReadAddOption, M!Option, M!GroupOf
  <2> HIDE DEF row
  <2> QED
    BY <1>1, <2>1, MenuAdds DEF AddFits
<1>4. ASSUME NEW p \in Prices, M!ReadOption(r, s, i, g, o, p)
      PROVE  MenuInv'
  <2> DEFINE row == [rows[o] EXCEPT !.price = p]
  <2>1. M!Edits(r, o, row) /\ rows[o] # M!Absent
    BY <1>4 DEF M!ReadOption, M!OptionOf, M!Live
  <2>2. RowEdit(M!Changes(rows[o], row), "price", Prices)
    BY <1>2, <2>1, ChangesOne DEF RowEdit
  <2> HIDE DEF row
  <2> QED
    BY <1>1, <2>1, <2>2, MenuEdits DEF EditFits
<1>5. CASE M!ReadDeleteOption(r, s, i, g, o)
  <2> DEFINE row == [rows[o] EXCEPT !.live = FALSE]
  <2>1. M!Edits(r, o, row) /\ rows[o] # M!Absent
    BY <1>5 DEF M!ReadDeleteOption, M!OptionOf, M!Live
  <2>2. RowEdit(M!Changes(rows[o], row), "price", Prices)
    BY <1>2, <2>1, ChangesOne DEF RowEdit
  <2> HIDE DEF row
  <2> QED
    BY <1>1, <2>1, <2>2, MenuEdits DEF EditFits
<1> QED
  BY <1>3, <1>4, <1>5 DEF M!EditsOption

(* A request ends, with or without its writes.                             *)
LEMMA MenuEnds ==
  ASSUME MenuInv, M!Marks, NEW r \in Requests, M!Commit(r) \/ M!Rollback(r)
  PROVE  MenuInv'
<1>1. /\ DOMAIN menuReq' = Requests
      /\ \A q \in Requests : menuReq'[q] = IF q = r THEN M!Idle ELSE menuReq[q]
      /\ DOMAIN M!Idle = {}
  BY DEF M!Commit, M!Rollback, MenuInv, M!Idle
<1>2. OverlapsNoted' /\ menuRaced' \subseteq Groups /\ menuRaced \subseteq menuRaced'
  BY OverlapsAreNoted
<1>3. DOMAIN rows' = M!Ids
  BY DEF M!Commit, M!Rollback, MenuInv
<1>4. CASE M!Rollback(r)
  <2>1. rows' = rows
    BY <1>4 DEF M!Rollback
  <2>2. M!TypeOK'
    BY <1>1, <1>2, <2>1 DEF MenuInv, M!TypeOK
  <2>3. ASSUME NEW q \in Requests
        PROVE  WritesFit(q)' /\ AddsToLive(q)'
    <3>1. CASE q = r
      BY <1>1, <3>1 DEF WritesFit, AddsToLive
    <3>2. CASE q # r
      <4>1. menuReq'[q] = menuReq[q] /\ WritesFit(q) /\ AddsToLive(q)
        BY <1>1, <3>2 DEF MenuInv
      <4>2. \A p \in Requests : DOMAIN menuReq'[p] \subseteq DOMAIN menuReq[p]
        BY <1>1
      <4> QED
        BY <1>2, <2>1, <4>1, <4>2 DEF WritesFit, AddsToLive, M!Live
    <3> QED
      BY <3>1, <3>2
  <2>4. ASSUME NEW q \in Requests, NEW g \in Groups, (q \in M!Deletes(g))'
        PROVE  DeletesAll(q, g)'
    <3>1. g \in DOMAIN menuReq'[q] /\ "live" \in DOMAIN menuReq'[q][g]
            /\ ~menuReq'[q][g].live
      BY <2>4 DEF M!Deletes
    <3>2. menuReq'[q] = menuReq[q]
      BY <1>1, <3>1
    <3>3. DeletesAll(q, g)
      BY <3>1, <3>2 DEF MenuInv, M!Deletes
    <3> QED
      BY <1>2, <2>1, <3>2, <3>3 DEF DeletesAll, M!OptionOf, M!Live
  <2>5. NoneOutlives'
    BY <1>2, <2>1 DEF MenuInv, NoneOutlives, M!OptionOf, M!Live
  <2> QED
    BY <1>1, <1>2, <1>3, <2>2, <2>3, <2>4, <2>5 DEF MenuInv
<1>5. CASE M!Commit(r)
  <2> DEFINE q0 == menuReq[r]
  <2>1. M!TypeOK'
    <3>1. \A x \in M!Ids : /\ x \in Shops => rows'[x] \in M!Shop
                           /\ x \in Items => rows'[x] \in M!Item \cup {M!Absent}
                           /\ x \in Groups => rows'[x] \in M!Group \cup {M!Absent}
                           /\ x \in Options => rows'[x] \in M!Option \cup {M!Absent}
      BY <1>5, MenuWritten
    <3> QED
      BY <1>1, <1>2, <3>1 DEF MenuInv, M!TypeOK, M!Ids, M!Parents
  <2>2. ASSUME NEW x \in M!Parents
        PROVE  /\ rows[x] # M!Absent =>
                    /\ rows'[x] # M!Absent /\ (rows'[x].live => rows[x].live)
                    /\ x \in DOMAIN menuReq[r] /\ "live" \in DOMAIN menuReq[r][x] =>
                         ~rows'[x].live
                    /\ x \in Groups
                         /\ ~(x \in DOMAIN menuReq[r] /\ "live" \in DOMAIN menuReq[r][x]) =>
                         rows'[x].live = rows[x].live
                    /\ x \in Options => rows'[x].group = rows[x].group
               /\ rows[x] = M!Absent =>
                    rows'[x] = IF x \in DOMAIN menuReq[r] THEN menuReq[r][x] ELSE M!Absent
    <3>1. x \in M!Ids
      BY DEF M!Ids
    <3> QED
      BY <1>5, <3>1, MenuWritten
  <2>3. ASSUME NEW g \in Groups, M!Live(g)
        PROVE  M!Live(g)' \/ r \in M!Deletes(g)
    <3>1. g \in M!Parents /\ rows[g] # M!Absent /\ rows[g].live
      BY <2>3 DEF M!Parents, M!Live
    <3>2. CASE g \in DOMAIN menuReq[r] /\ "live" \in DOMAIN menuReq[r][g]
      <4>1. EditFits(g, menuReq[r][g])
        BY <3>1, <3>2 DEF MenuInv, WritesFit
      <4> QED
        BY <3>2, <4>1 DEF EditFits, RowEdit, M!Deletes
    <3>3. CASE ~(g \in DOMAIN menuReq[r] /\ "live" \in DOMAIN menuReq[r][g])
      BY <2>2, <3>1, <3>3 DEF M!Live
    <3> QED
      BY <3>2, <3>3
  <2>4. ASSUME NEW g \in Groups, NEW o \in Options, M!OptionOf(o, g)'
        PROVE  \/ M!OptionOf(o, g)
                    /\ ~(o \in DOMAIN menuReq[r] /\ "live" \in DOMAIN menuReq[r][o])
               \/ /\ rows[o] = M!Absent /\ o \in DOMAIN menuReq[r]
                       /\ menuReq[r][o].group = g
                  /\ r \in M!AddsTo(g)
    <3>1. o \in M!Parents /\ rows'[o] # M!Absent /\ rows'[o].live /\ rows'[o].group = g
      BY <2>4 DEF M!Parents, M!OptionOf, M!Live
    <3>2. CASE rows[o] # M!Absent
      BY <2>2, <3>1, <3>2 DEF M!OptionOf, M!Live
    <3>3. CASE rows[o] = M!Absent
      <4>1. o \in DOMAIN menuReq[r] /\ rows'[o] = menuReq[r][o]
        BY <2>2, <3>1, <3>3
      <4>2. menuReq[r][o] \in M!Option
        BY <3>1, <3>3, <4>1 DEF MenuInv, WritesFit, AddFits
      <4>3. "group" \in DOMAIN menuReq[r][o]
        BY <4>2 DEF M!Option
      <4> QED
        BY <3>1, <3>3, <4>1, <4>3 DEF M!AddsTo
    <3> QED
      BY <3>2, <3>3
  <2>5. ASSUME NEW q \in Requests
        PROVE  WritesFit(q)'
    <3> SUFFICES ASSUME NEW x \in DOMAIN menuReq'[q]
                 PROVE  IF x \in M!Parents /\ rows'[x] = M!Absent
                          THEN /\ AddFits(x, menuReq'[q][x])
                               /\ \A p \in Requests : x \in DOMAIN menuReq'[p] => p = q
                          ELSE EditFits(x, menuReq'[q][x])
      BY DEF WritesFit
    <3>1. q # r /\ menuReq'[q] = menuReq[q]
      BY <1>1
    <3>2. IF x \in M!Parents /\ rows[x] = M!Absent
            THEN /\ AddFits(x, menuReq[q][x])
                 /\ \A p \in Requests : x \in DOMAIN menuReq[p] => p = q
            ELSE EditFits(x, menuReq[q][x])
      BY <3>1 DEF MenuInv, WritesFit
    <3>3. CASE x \in M!Parents /\ rows[x] = M!Absent
      <4>1. x \notin DOMAIN menuReq[r]
        BY <3>1, <3>2, <3>3
      <4>2. rows'[x] = M!Absent
        BY <2>2, <3>3, <4>1
      <4> QED
        BY <1>1, <3>1, <3>2, <3>3, <4>2
    <3>4. CASE ~(x \in M!Parents /\ rows[x] = M!Absent)
      BY <2>2, <3>1, <3>2, <3>4
    <3> QED
      BY <3>3, <3>4
  <2>6. ASSUME NEW q \in Requests
        PROVE  AddsToLive(q)'
    <3> SUFFICES ASSUME NEW o \in Options, o \in DOMAIN menuReq'[q], rows'[o] = M!Absent
                 PROVE  \/ /\ rows'[menuReq'[q][o].group] # M!Absent
                           /\ rows'[menuReq'[q][o].group].live
                        \/ menuReq'[q][o].group \in menuRaced'
      BY DEF AddsToLive, M!Live
    <3>1. q # r /\ menuReq'[q] = menuReq[q] /\ o \in M!Parents
      BY <1>1 DEF M!Parents
    <3>2. rows[o] = M!Absent
      BY <2>2, <3>1
    <3>3. menuReq[q][o] \in M!Option
      BY <3>1, <3>2 DEF MenuInv, WritesFit, AddFits
    <3>4. PICK g \in Groups : g = menuReq[q][o].group /\ q \in M!AddsTo(g)
      BY <3>1, <3>3 DEF M!Option, M!AddsTo
    <3>5. M!Live(g) \/ g \in menuRaced
      BY <3>1, <3>2, <3>4 DEF MenuInv, AddsToLive
    <3>6. r \in M!Deletes(g) => g \in menuRaced
      BY <3>4 DEF MenuInv, OverlapsNoted
    <3>7. (rows'[g] # M!Absent /\ rows'[g].live) \/ g \in menuRaced'
      BY <1>2, <2>3, <3>5, <3>6 DEF M!Live
    <3> QED
      BY <3>1, <3>4, <3>7
  <2>7. ASSUME NEW q \in Requests, NEW g \in Groups, (q \in M!Deletes(g))'
        PROVE  DeletesAll(q, g)'
    <3>1. g \in DOMAIN menuReq'[q] /\ "live" \in DOMAIN menuReq'[q][g]
            /\ ~menuReq'[q][g].live
      BY <2>7 DEF M!Deletes
    <3>2. q # r /\ menuReq'[q] = menuReq[q]
      BY <1>1, <3>1
    <3>3. q \in M!Deletes(g)
      BY <3>1, <3>2 DEF M!Deletes
    <3>4. ASSUME NEW o \in Options, M!OptionOf(o, g)', g \notin menuRaced'
          PROVE  o \in DOMAIN menuReq'[q] /\ "live" \in DOMAIN menuReq'[q][o]
      <4>1. r \notin M!AddsTo(g)
        BY <1>2, <3>3, <3>4 DEF MenuInv, OverlapsNoted
      <4>2. M!OptionOf(o, g)
        BY <2>4, <3>4, <4>1
      <4> QED
        BY <1>2, <3>2, <3>3, <3>4, <4>2 DEF MenuInv, DeletesAll
    <3> QED
      BY <3>4 DEF DeletesAll
  <2>8. NoneOutlives'
    <3> SUFFICES ASSUME NEW g \in Groups, NEW o \in Options, M!OptionOf(o, g)',
                        g \notin menuRaced'
                 PROVE  M!Live(g)'
      BY DEF NoneOutlives
    <3>1. g \notin menuRaced
      BY <1>2
    <3>2. CASE M!OptionOf(o, g)
                 /\ ~(o \in DOMAIN menuReq[r] /\ "live" \in DOMAIN menuReq[r][o])
      <4>1. M!Live(g)
        BY <3>1, <3>2 DEF MenuInv, NoneOutlives
      <4>2. r \notin M!Deletes(g)
        BY <3>1, <3>2 DEF MenuInv, DeletesAll
      <4> QED
        BY <2>3, <4>1, <4>2
    <3>3. CASE rows[o] = M!Absent /\ o \in DOMAIN menuReq[r] /\ menuReq[r][o].group = g
                 /\ r \in M!AddsTo(g)
      <4>1. M!Live(g)
        BY <3>1, <3>3 DEF MenuInv, AddsToLive
      <4>2. r \notin M!Deletes(g)
        BY <3>1, <3>3 DEF MenuInv, OverlapsNoted
      <4> QED
        BY <2>3, <4>1, <4>2
    <3> QED
      BY <2>4, <3>2, <3>3
  <2> QED
    BY <1>1, <1>2, <1>3, <2>1, <2>5, <2>6, <2>7, <2>8 DEF MenuInv
<1> QED
  BY <1>4, <1>5

LEMMA MenuNext ==
  ASSUME MenuInv, [M!Next]_M!vars
  PROVE  MenuInv'
<1>1. CASE UNCHANGED M!vars
  <2>1. rows' = rows /\ menuReq' = menuReq /\ menuRaced' = menuRaced
    BY <1>1 DEF M!vars
  <2> QED
    BY <2>1 DEF MenuInv, M!TypeOK, WritesFit, AddsToLive, DeletesAll, OverlapsNoted,
       NoneOutlives, M!Deletes, M!AddsTo, M!OptionOf, M!Live
<1>2. CASE M!Next
  BY <1>2, MenuShopEdits, MenuItemEdits, MenuGroupEdits, MenuOptionEdits, MenuEnds
     DEF M!Next
<1> QED
  BY <1>1, <1>2

(* Every step keeps what is deleted so, and what is approved.              *)
LEMMA MenuKeepsDeleted ==
  ASSUME MenuInv, [M!Next]_M!vars
  PROVE  /\ \A x \in M!Parents : (rows[x] # M!Absent /\ ~rows[x].live) => ~rows'[x].live
         /\ \A s \in Shops : rows[s].status = "ACTIVE" => rows'[s].status = "ACTIVE"
<1>1. CASE rows' = rows
  BY <1>1
<1>2. ASSUME NEW r \in Requests, M!Commit(r)
      PROVE  /\ \A x \in M!Parents : (rows[x] # M!Absent /\ ~rows[x].live) => ~rows'[x].live
             /\ \A s \in Shops : rows[s].status = "ACTIVE" => rows'[s].status = "ACTIVE"
  <2>1. \A x \in M!Ids :
          /\ x \in M!Parents /\ rows[x] # M!Absent => (rows'[x].live => rows[x].live)
          /\ x \in Shops /\ rows[x].status = "ACTIVE" => rows'[x].status = "ACTIVE"
    BY <1>2, MenuWritten
  <2> QED
    BY <2>1 DEF M!Ids
<1>3. rows' = rows \/ \E r \in Requests : M!Commit(r)
  <2>1. \A r, writes : M!Begin(r, writes) => rows' = rows
    BY DEF M!Begin
  <2>2. \A r, x, row : M!Edits(r, x, row) \/ M!Adds(r, x, row) => rows' = rows
    BY <2>1 DEF M!Edits, M!Adds
  <2>3. \A r, s : M!EditsShop(r, s) => rows' = rows
    BY <2>2 DEF M!EditsShop, M!ReadShop, M!ReadApprove
  <2>4. \A r, s, i : M!EditsItem(r, s, i) => rows' = rows
    BY <2>2 DEF M!EditsItem, M!ReadAddItem, M!ReadItem, M!ReadDeleteItem
  <2>5. \A r, s, i, g : M!EditsGroup(r, s, i, g) => rows' = rows
    <3>1. \A r, s, i, g : M!ReadAddGroup(r, s, i, g) => rows' = rows
      BY <2>2 DEF M!ReadAddGroup
    <3>2. \A r, s, i, g, q : M!ReadGroup(r, s, i, g, q) => rows' = rows
      BY <2>2 DEF M!ReadGroup
    <3>3. \A r, s, i, g : M!ReadDeleteGroup(r, s, i, g) => rows' = rows
      BY <2>1 DEF M!ReadDeleteGroup
    <3> QED
      BY <3>1, <3>2, <3>3 DEF M!EditsGroup
  <2>6. \A r, s, i, g, o : M!EditsOption(r, s, i, g, o) => rows' = rows
    <3>1. \A r, s, i, g, o, p : M!ReadAddOption(r, s, i, g, o, p) => rows' = rows
      BY <2>2 DEF M!ReadAddOption
    <3>2. \A r, s, i, g, o, p : M!ReadOption(r, s, i, g, o, p) => rows' = rows
      BY <2>2 DEF M!ReadOption
    <3>3. \A r, s, i, g, o : M!ReadDeleteOption(r, s, i, g, o) => rows' = rows
      BY <2>2 DEF M!ReadDeleteOption
    <3> QED
      BY <3>1, <3>2, <3>3 DEF M!EditsOption
  <2> QED
    BY <2>3, <2>4, <2>5, <2>6 DEF M!Next, M!vars, M!Rollback
<1> QED
  BY <1>1, <1>2, <1>3

LEMMA MenuInvariance == M!Spec => []MenuInv
<1>1. M!Init => MenuInv
  <2> SUFFICES ASSUME M!Init PROVE MenuInv
    OBVIOUS
  <2>1. /\ DOMAIN rows = M!Ids /\ DOMAIN menuReq = Requests /\ menuRaced = {}
        /\ \A r \in Requests : DOMAIN menuReq[r] = {}
        /\ \A x \in M!Parents : rows[x] = M!Absent
        /\ \A s \in Shops : rows[s] \in M!Shop
    BY IdsAssumption DEF M!Init, M!Idle, M!Ids, M!Parents, M!Shop
  <2>2. M!TypeOK
    BY <2>1 DEF M!TypeOK, M!Parents
  <2>3. \A g \in Groups : M!Deletes(g) = {}
    BY <2>1 DEF M!Deletes
  <2>4. \A g \in Groups, o \in Options : ~M!OptionOf(o, g)
    BY <2>1 DEF M!OptionOf, M!Live, M!Parents
  <2> QED
    BY <2>1, <2>2, <2>3, <2>4
       DEF MenuInv, WritesFit, AddsToLive, OverlapsNoted, NoneOutlives
<1>2. MenuInv /\ [M!Next]_M!vars => MenuInv'
  BY MenuNext
<1> QED
  BY <1>1, <1>2, PTL DEF M!Spec

(* What is shown can be ordered.                                           *)
LEMMA MenuShows ==
  ASSUME MenuInv
  PROVE  M!TypeOK /\ M!ShownIsOrderable
  BY DEF MenuInv, M!ShownIsOrderable, M!Orderable, M!Shown, M!GroupAccepted, M!OptionsOf,
     NoneOutlives

-----------------------------------------------------------------------------
(***************************************************************************)
(* Driver profiles.  A request that counts, or moves the driver, relies on *)
(* the column it has read.  Others write other columns, or the same one    *)
(* only after they were marked, and so does the position it records.       *)
(***************************************************************************)
MoveWrites(w, p) ==
  DOMAIN w \subseteq {"place"} /\ ("place" \in DOMAIN w => w["place"] = p)

EditWrites(w) ==
  /\ DOMAIN w \subseteq {"status", "vehicle"}
  /\ "status" \in DOMAIN w => w["status"] \in D!Statuses
  /\ "vehicle" \in DOMAIN w => w["vehicle"] \in {"old", "new"}

CountWrites(w) ==
  /\ DOMAIN w \subseteq {"status", "total_deliveries"} /\ "total_deliveries" \in DOMAIN w
  /\ "status" \in DOMAIN w => w["status"] = "ONLINE"
  /\ w["total_deliveries"] \in Nat

DriverRequest(q) ==
  \/ q = D!Idle
  \/ q.op = "ends" /\ q.order \in Orders
  \/ /\ q.op = "create" /\ q.writes \in D!Driver /\ q.writes.total_deliveries = 0
     /\ IF "place" \in DOMAIN q THEN q.place \in Places /\ q.writes.place = q.place
                                ELSE q.writes.place = D!Nowhere
  \/ q.op = "edit" /\ "place" \notin DOMAIN q /\ EditWrites(q.writes)
  \/ /\ q.op = "move" /\ "place" \in DOMAIN q /\ q.place \in Places
     /\ MoveWrites(q.writes, q.place)
  \/ q.op = "count" /\ "place" \notin DOMAIN q /\ CountWrites(q.writes)

Relies(r) ==
  /\ driverReq[r].op \in {"edit", "move", "ends", "count"} => driver # D!None
  /\ driverReq[r].op = "move" /\ "place" \notin driverRaced =>
       "place" \in DOMAIN driverReq[r].writes \/ driver.place = driverReq[r].place
  /\ driverReq[r].op = "count" /\ "total_deliveries" \notin driverRaced =>
       driverReq[r].writes["total_deliveries"] = finished + 1
  /\ driverReq[r].op = "count" =>
       driverReq[r].writes["total_deliveries"] <= finished + 1

(* Two requests of a kind are marked.                                      *)
PairsNoted ==
  \A r, s \in Requests : r # s /\ driverReq[r].op = driverReq[s].op =>
    /\ driverReq[r].op = "move" => "place" \in driverRaced
    /\ driverReq[r].op = "count" => "total_deliveries" \in driverRaced

DriversInv ==
  /\ D!TypeOK /\ DOMAIN driverReq = Requests
  /\ \A r \in Requests : DriverRequest(driverReq[r]) /\ Relies(r)
  /\ PairsNoted
  /\ driver = D!None => positions = D!Nowhere /\ finished = 0
  /\ finished + Cardinality(D!Running("count")) <= MaxFinishes
  /\ D!DriversSound

(* The instance counts as the library does.                                *)
LEMMA DriversCount ==
  ASSUME NEW T
  PROVE  D!Cardinality(T) = Cardinality(T)
  BY DEF D!Cardinality, Cardinality

(* The requests that count are finitely many.                              *)
LEMMA CountsFinite ==
  /\ IsFiniteSet(D!Running("count")) /\ Cardinality(D!Running("count")) \in Nat
  /\ IsFiniteSet(D!Running("count"))' /\ Cardinality(D!Running("count"))' \in Nat
<1>1. D!Running("count") \subseteq Requests /\ D!Running("count")' \subseteq Requests
  BY DEF D!Running
<1> QED
  BY <1>1, FiniteAssumption, FS_Subset, FS_CardinalityType

(* The types of requests, by what they must be.                            *)
LEMMA DriverRequestTyped ==
  ASSUME NEW q, DriverRequest(q)
  PROVE  \/ q = D!Idle
         \/ q.op = "ends" /\ q.order \in Orders
         \/ /\ q.op \in {"create", "edit", "move", "count"}
            /\ DOMAIN q.writes \subseteq DOMAIN D!Created
<1>1. DOMAIN D!Created = {"status", "vehicle", "place", "total_deliveries"}
  BY DEF D!Created
<1>2. \A row \in D!Driver : DOMAIN row = {"status", "vehicle", "place", "total_deliveries"}
  BY DEF D!Driver
<1> QED
  BY <1>1, <1>2 DEF DriverRequest, EditWrites, MoveWrites, CountWrites

(* A request begins, goes on or is given up: nothing is stored yet.        *)
LEMMA DriversGoOn ==
  ASSUME DriversInv, NEW r \in Requests, NEW q, driverReq' = [driverReq EXCEPT ![r] = q],
         UNCHANGED D!stored, DriverRequest(q), Relies(r)',
         driverRaced \subseteq driverRaced',
         driverRaced' \subseteq {"place", "total_deliveries"},
         q.op = "move" => \A p \in D!Running("move") : p = r \/ "place" \in driverRaced',
         q.op = "count" => /\ \A p \in D!Running("count") : p = r \/ "total_deliveries" \in driverRaced'
                           /\ finished + Cardinality(D!Running("count")) < MaxFinishes
  PROVE  DriversInv'
<1>1. /\ \A p \in Requests : driverReq'[p] = IF p = r THEN q ELSE driverReq[p]
      /\ DOMAIN driverReq' = Requests
      /\ driver' = driver /\ positions' = positions /\ finished' = finished
  BY DEF DriversInv, D!stored
<1>2. D!TypeOK'
  BY <1>1, DriverRequestTyped DEF DriversInv, D!TypeOK
<1>3. ASSUME NEW p \in Requests
      PROVE  DriverRequest(driverReq'[p]) /\ Relies(p)'
  BY <1>1 DEF DriversInv, Relies
<1>4. PairsNoted'
  <2>1. ASSUME NEW p \in Requests, NEW s \in Requests, p # s,
               driverReq'[p].op = driverReq'[s].op
        PROVE  /\ driverReq'[p].op = "move" => "place" \in driverRaced'
               /\ driverReq'[p].op = "count" => "total_deliveries" \in driverRaced'
    <3>1. CASE p # r /\ s # r
      BY <1>1, <2>1, <3>1 DEF DriversInv, PairsNoted
    <3>2. CASE p = r
      <4>1. driverReq'[p] = q /\ driverReq'[s] = driverReq[s] /\ s # r
        BY <1>1, <2>1, <3>2
      <4>2. q.op = driverReq[s].op
        BY <2>1, <4>1
      <4> QED
        BY <4>1, <4>2 DEF D!Running
    <3>3. CASE s = r
      <4>1. driverReq'[s] = q /\ driverReq'[p] = driverReq[p] /\ p # r
        BY <1>1, <2>1, <3>3
      <4>2. q.op = driverReq[p].op
        BY <2>1, <4>1
      <4> QED
        BY <4>1, <4>2 DEF D!Running
    <3> QED
      BY <3>1, <3>2, <3>3
  <2> QED
    BY <2>1 DEF PairsNoted
<1>5. finished' + Cardinality(D!Running("count"))' <= MaxFinishes
  <2>1. finished \in Nat /\ finished + Cardinality(D!Running("count")) <= MaxFinishes
    BY FiniteAssumption DEF DriversInv, D!TypeOK
  <2>2. CASE q.op = "count"
    <3>1. D!Running("count")' = D!Running("count") \cup {r}
      BY <1>1, <2>2 DEF D!Running
    <3>2. Cardinality(D!Running("count"))' <= Cardinality(D!Running("count")) + 1
      <4>1. Cardinality(D!Running("count") \cup {r}) <= Cardinality(D!Running("count")) + 1
        <5> DEFINE counting == D!Running("count")
        <5>1. IsFiniteSet(counting) /\ Cardinality(counting) \in Nat
          BY CountsFinite
        <5> HIDE DEF counting
        <5>2. Cardinality(counting \cup {r}) =
                IF r \in counting THEN Cardinality(counting) ELSE Cardinality(counting) + 1
          BY <5>1, FS_AddElement
        <5>3. Cardinality(counting \cup {r}) <= Cardinality(counting) + 1
          BY <5>1, <5>2
        <5> QED
          BY <5>3 DEF counting
      <4> QED
        BY <3>1, <4>1
    <3> QED
      BY <1>1, <2>1, <2>2, <3>2, CountsFinite, FiniteAssumption
  <2>3. CASE q.op # "count"
    <3>1. D!Running("count")' \subseteq D!Running("count")
      BY <1>1, <2>3 DEF D!Running
    <3>2. Cardinality(D!Running("count"))' <= Cardinality(D!Running("count"))
      BY <3>1, CountsFinite, FS_Subset
    <3> QED
      BY <1>1, <2>1, <3>2, CountsFinite, FiniteAssumption
  <2> QED
    BY <2>2, <2>3
<1>6. D!DriversSound'
  BY <1>1 DEF DriversInv, D!DriversSound
<1>7. (\A p \in Requests : DriverRequest(driverReq[p]) /\ Relies(p))'
  BY <1>3
<1> QED
  BY <1>1, <1>2, <1>4, <1>5, <1>6, <1>7 DEF DriversInv

(* The columns an edit changes.                                            *)
LEMMA DriverChanges ==
  ASSUME NEW row \in D!Driver
  PROVE  /\ \A new \in D!Edited(row) : EditWrites(D!Changes(row, new))
         /\ \A p \in Places : /\ MoveWrites(D!Changes(row, D!Moved(row, p)), p)
                              /\ "place" \notin DOMAIN D!Changes(row, D!Moved(row, p)) =>
                                   row.place = p
         /\ CountWrites(D!Changes(row, D!Counted(row)))
         /\ D!Changes(row, D!Counted(row))["total_deliveries"] = row.total_deliveries + 1
<1>1. /\ DOMAIN row = {"status", "vehicle", "place", "total_deliveries"}
      /\ row.total_deliveries \in Nat /\ row.status \in D!Statuses
  BY DEF D!Driver
<1>2. ASSUME NEW new \in D!Edited(row)
      PROVE  EditWrites(D!Changes(row, new))
  <2>1. CASE new = [row EXCEPT !.vehicle = "new"]
    BY <1>1, <2>1 DEF D!Changes, EditWrites
  <2>2. ASSUME NEW s \in D!Statuses, new = [row EXCEPT !.status = s]
        PROVE  EditWrites(D!Changes(row, new))
    BY <1>1, <2>2 DEF D!Changes, EditWrites
  <2> QED
    BY <2>1, <2>2 DEF D!Edited
<1>3. ASSUME NEW p \in Places
      PROVE  /\ MoveWrites(D!Changes(row, D!Moved(row, p)), p)
             /\ "place" \notin DOMAIN D!Changes(row, D!Moved(row, p)) => row.place = p
  BY <1>1 DEF D!Changes, D!Moved, MoveWrites
<1>4. /\ CountWrites(D!Changes(row, D!Counted(row)))
      /\ D!Changes(row, D!Counted(row))["total_deliveries"] = row.total_deliveries + 1
  <2> DEFINE new == [row EXCEPT !.status = "ONLINE", !.total_deliveries = @ + 1]
  <2>1. /\ new["status"] = "ONLINE" /\ new["total_deliveries"] = row.total_deliveries + 1
        /\ new["vehicle"] = row["vehicle"] /\ new["place"] = row["place"]
    BY <1>1
  <2>2. D!Counted(row) = new
    BY DEF D!Counted
  <2> HIDE DEF new
  <2>3. row["total_deliveries"] # new["total_deliveries"] /\ new["total_deliveries"] \in Nat
    BY <1>1, <2>1
  <2> QED
    BY <1>1, <2>1, <2>2, <2>3 DEF D!Changes, CountWrites
<1> QED
  BY <1>2, <1>3, <1>4

(* What a commit leaves of the row.                                        *)
LEMMA DriverWritten ==
  ASSUME NEW row \in D!Driver, NEW w, DOMAIN w \subseteq DOMAIN D!Created,
         "status" \in DOMAIN w => w["status"] \in D!Statuses,
         "vehicle" \in DOMAIN w => w["vehicle"] \in {"old", "new"},
         "place" \in DOMAIN w => w["place"] \in Places,
         "total_deliveries" \in DOMAIN w => w["total_deliveries"] \in Nat
  PROVE  /\ D!Written(w, row) \in D!Driver
         /\ D!Written(w, row).place = IF "place" \in DOMAIN w THEN w["place"] ELSE row.place
         /\ D!Written(w, row).total_deliveries =
              IF "total_deliveries" \in DOMAIN w THEN w["total_deliveries"]
              ELSE row.total_deliveries
<1> DEFINE new == D!Written(w, row)
<1>1. /\ DOMAIN row = {"status", "vehicle", "place", "total_deliveries"}
      /\ DOMAIN D!Created = {"status", "vehicle", "place", "total_deliveries"}
      /\ row["status"] \in D!Statuses /\ row["vehicle"] \in {"old", "new"}
      /\ row["place"] \in Places \cup {D!Nowhere} /\ row["total_deliveries"] \in Nat
  BY DEF D!Driver, D!Created
<1>2. new = [f \in {"status", "vehicle", "place", "total_deliveries"} |->
               IF f \in DOMAIN w THEN w[f] ELSE row[f]]
  BY <1>1 DEF D!Written
<1>3. new = [status |-> new["status"], vehicle |-> new["vehicle"], place |-> new["place"],
             total_deliveries |-> new["total_deliveries"]]
  BY <1>2
<1>4. /\ new["status"] = IF "status" \in DOMAIN w THEN w["status"] ELSE row["status"]
      /\ new["vehicle"] = IF "vehicle" \in DOMAIN w THEN w["vehicle"] ELSE row["vehicle"]
      /\ new["place"] = IF "place" \in DOMAIN w THEN w["place"] ELSE row["place"]
      /\ new["total_deliveries"] = IF "total_deliveries" \in DOMAIN w
                                     THEN w["total_deliveries"] ELSE row["total_deliveries"]
  BY <1>2
<1> HIDE DEF new
<1>5. new \in D!Driver
  BY <1>1, <1>3, <1>4 DEF D!Driver
<1> QED
  BY <1>4, <1>5 DEF new

LEMMA DriversCreate ==
  ASSUME DriversInv, NEW r \in Requests, D!ReadForCreate(r)
  PROVE  DriversInv'
<1>1. D!Created \in D!Driver /\ D!Created.total_deliveries = 0
        /\ D!Created.place = D!Nowhere
      /\ DOMAIN D!Created = {"status", "vehicle", "place", "total_deliveries"}
  BY DEF D!Created, D!Driver, D!Statuses
<1>2. PICK q : /\ driverReq' = [driverReq EXCEPT ![r] = q] /\ DriverRequest(q)
                    /\ q.op = "create"
  <2>1. ASSUME NEW row \in {D!Created} \cup D!Edited(D!Created)
        PROVE  DriverRequest([op |-> "create", writes |-> row])
    <3>1. row \in D!Driver /\ row.total_deliveries = 0 /\ row.place = D!Nowhere
      <4>1. CASE row = D!Created
        BY <1>1, <4>1
      <4>2. CASE row = [D!Created EXCEPT !.vehicle = "new"]
        BY <1>1, <4>2 DEF D!Driver
      <4>3. ASSUME NEW s \in D!Statuses, row = [D!Created EXCEPT !.status = s]
            PROVE  row \in D!Driver /\ row.total_deliveries = 0 /\ row.place = D!Nowhere
        BY <1>1, <4>3 DEF D!Driver
      <4> QED
        BY <4>1, <4>2, <4>3 DEF D!Edited
    <3> QED
      BY <3>1 DEF DriverRequest
  <2>2. ASSUME NEW p \in Places
        PROVE  DriverRequest([op |-> "create", writes |-> D!Moved(D!Created, p), place |-> p])
    <3>1. /\ D!Moved(D!Created, p) \in D!Driver
          /\ D!Moved(D!Created, p).total_deliveries = 0
          /\ D!Moved(D!Created, p).place = p
      BY <1>1 DEF D!Moved, D!Driver
    <3> QED
      BY <3>1 DEF DriverRequest
  <2>3. CASE \E row \in {D!Created} \cup D!Edited(D!Created) :
               driverReq' = [driverReq EXCEPT ![r] = [op |-> "create", writes |-> row]]
    <3>1. PICK row \in {D!Created} \cup D!Edited(D!Created) :
            driverReq' = [driverReq EXCEPT ![r] = [op |-> "create", writes |-> row]]
      BY <2>3
    <3> DEFINE q == [op |-> "create", writes |-> row]
    <3>2. q.op = "create" /\ DriverRequest(q) /\ driverReq' = [driverReq EXCEPT ![r] = q]
      BY <2>1, <3>1
    <3> QED
      BY <3>2
  <2>4. CASE \E p \in Places :
               driverReq' = [driverReq EXCEPT ![r] =
                 [op |-> "create", writes |-> D!Moved(D!Created, p), place |-> p]]
    <3>1. PICK p \in Places :
            driverReq' = [driverReq EXCEPT ![r] =
              [op |-> "create", writes |-> D!Moved(D!Created, p), place |-> p]]
      BY <2>4
    <3> DEFINE q == [op |-> "create", writes |-> D!Moved(D!Created, p), place |-> p]
    <3>2. q.op = "create" /\ DriverRequest(q) /\ driverReq' = [driverReq EXCEPT ![r] = q]
      BY <2>2, <3>1
    <3> QED
      BY <3>2
  <2> QED
    BY <2>3, <2>4 DEF D!ReadForCreate
<1>3. UNCHANGED D!stored /\ driverRaced' = driverRaced /\ driverReq'[r] = q
  BY <1>2 DEF D!ReadForCreate, DriversInv
<1>4. Relies(r)'
  BY <1>2, <1>3 DEF Relies
<1> QED
  BY <1>2, <1>3, <1>4, DriversGoOn DEF DriversInv, D!TypeOK

LEMMA DriversReadRow ==
  ASSUME DriversInv, NEW r \in Requests,
         \/ D!ReadForEdit(r)
         \/ \E p \in Places : D!ReadForMove(r, p)
         \/ \E o \in Orders : D!EndOrder(r, o)
         \/ D!ReadForCount(r)
         \/ D!Rollback(r)
  PROVE  DriversInv'
<1>0. driverRaced \subseteq {"place", "total_deliveries"} /\ DOMAIN driverReq = Requests
      /\ (driver # D!None => driver \in D!Driver)
  BY DEF DriversInv, D!TypeOK
<1>1. CASE D!ReadForEdit(r)
  <2>1. PICK row \in D!Edited(driver) :
          driverReq' = [driverReq EXCEPT ![r] =
                          [op |-> "edit", writes |-> D!Changes(driver, row)]]
    BY <1>1 DEF D!ReadForEdit
  <2> DEFINE q == [op |-> "edit", writes |-> D!Changes(driver, row)]
  <2>2. DriverRequest(q) /\ q.op = "edit" /\ driver # D!None
    BY <1>0, <1>1, DriverChanges DEF D!ReadForEdit, DriverRequest
  <2>3. UNCHANGED D!stored /\ driverRaced' = driverRaced /\ driverReq'[r] = q
    BY <1>0, <1>1, <2>1 DEF D!ReadForEdit
  <2> HIDE DEF q
  <2>4. Relies(r)'
    BY <2>2, <2>3 DEF Relies, D!stored
  <2> QED
    BY <1>0, <2>1, <2>2, <2>3, <2>4, DriversGoOn DEF q
<1>2. ASSUME NEW p \in Places, D!ReadForMove(r, p)
      PROVE  DriversInv'
  <2> DEFINE q == [op |-> "move", writes |-> D!Changes(driver, D!Moved(driver, p)),
                   place |-> p]
  <2>1. /\ driverReq' = [driverReq EXCEPT ![r] = q] /\ driver # D!None /\ UNCHANGED D!stored
        /\ driverRaced' = IF D!Running("move") # {} THEN driverRaced \cup {"place"}
             ELSE driverRaced
    BY <1>2 DEF D!ReadForMove
  <2>2. DriverRequest(q) /\ q.op = "move"
    BY <1>0, <2>1, DriverChanges DEF DriverRequest
  <2>3. "place" \in DOMAIN q.writes \/ driver.place = q.place
    BY <1>0, <2>1, DriverChanges
  <2>4. driverReq'[r] = q
    BY <1>0, <2>1
  <2> HIDE DEF q
  <2>5. Relies(r)'
    BY <2>1, <2>2, <2>3, <2>4 DEF Relies, D!stored
  <2> QED
    BY <1>0, <2>1, <2>2, <2>5, DriversGoOn
<1>3. ASSUME NEW o \in Orders, D!EndOrder(r, o)
      PROVE  DriversInv'
  <2> DEFINE q == [op |-> "ends", order |-> o]
  <2>1. /\ driverReq' = [driverReq EXCEPT ![r] = q] /\ driver # D!None
        /\ UNCHANGED D!stored /\ driverRaced' = driverRaced
        /\ DriverRequest(q) /\ q.op = "ends"
    BY <1>3 DEF D!EndOrder, DriverRequest
  <2>2. driverReq'[r] = q
    BY <1>0, <2>1
  <2> HIDE DEF q
  <2>3. Relies(r)'
    BY <2>1, <2>2 DEF Relies, D!stored
  <2> QED
    BY <1>0, <2>1, <2>3, DriversGoOn
<1>4. CASE D!ReadForCount(r)
  <2> DEFINE q == [op |-> "count", order |-> driverReq[r].order,
                   writes |-> D!Changes(driver, D!Counted(driver))]
  <2>1. /\ driverReq' = [driverReq EXCEPT ![r] = q] /\ driver # D!None /\ UNCHANGED D!stored
        /\ driverRaced' = IF D!Running("count") # {}
             THEN driverRaced \cup {"total_deliveries"} ELSE driverRaced
        /\ finished + Cardinality(D!Running("count")) < MaxFinishes
    BY <1>4, DriversCount DEF D!ReadForCount, DriversInv, Relies
  <2>2. DriverRequest(q) /\ q.op = "count"
    BY <1>0, <2>1, DriverChanges DEF DriverRequest
  <2>3. q.writes["total_deliveries"] = driver.total_deliveries + 1
    BY <1>0, <2>1, DriverChanges
  <2>4. /\ "total_deliveries" \notin driverRaced' =>
               q.writes["total_deliveries"] = finished + 1
        /\ q.writes["total_deliveries"] <= finished + 1
    <3>1. driver.total_deliveries \in Nat /\ finished \in Nat
      BY <1>0, <2>1, FiniteAssumption DEF DriversInv, D!TypeOK, D!Driver
    <3> QED
      BY <2>1, <2>3, <3>1 DEF DriversInv, D!DriversSound
  <2>5. driverReq'[r] = q
    BY <1>0, <2>1
  <2> HIDE DEF q
  <2>6. Relies(r)'
    BY <2>1, <2>2, <2>4, <2>5 DEF Relies, D!stored
  <2> QED
    BY <1>0, <2>1, <2>2, <2>6, DriversGoOn
<1>5. CASE D!Rollback(r)
  <2>1. /\ driverReq' = [driverReq EXCEPT ![r] = D!Idle] /\ UNCHANGED D!stored
        /\ driverRaced' = driverRaced
        /\ D!Idle.op = "idle" /\ DriverRequest(D!Idle)
    BY <1>5 DEF D!Rollback, D!Idle, DriverRequest
  <2>2. Relies(r)'
    BY <1>0, <2>1 DEF Relies
  <2> QED
    BY <1>0, <2>1, <2>2, DriversGoOn
<1> QED
  BY <1>1, <1>2, <1>3, <1>4, <1>5

(* The row is created, for the first time.                                 *)
LEMMA DriversCommitCreate ==
  ASSUME DriversInv, NEW r \in Requests, D!CommitCreate(r)
  PROVE  DriversInv'
<1>1. /\ driver = D!None /\ driverReq[r].op = "create" /\ driver' = driverReq[r].writes
      /\ positions' = D!Recorded(r) /\ finished' = finished /\ driverRaced' = driverRaced
      /\ \A p \in Requests : driverReq'[p] = IF p = r THEN D!Idle ELSE driverReq[p]
      /\ DOMAIN driverReq' = Requests
  BY DEF D!CommitCreate, DriversInv
<1>2. /\ driver' \in D!Driver /\ driver'.total_deliveries = 0
      /\ driver'.place = positions' /\ positions' \in Places \cup {D!Nowhere}
  <2>1. DriverRequest(driverReq[r]) /\ positions = D!Nowhere
    BY <1>1 DEF DriversInv
  <2> QED
    BY <1>1, <2>1 DEF DriverRequest, D!Recorded, D!Idle
<1>3. driver' # D!None
  <2>1. DOMAIN driver' = {"status", "vehicle", "place", "total_deliveries"}
    BY <1>2 DEF D!Driver
  <2> QED
    BY <2>1 DEF D!None
<1>4. DriverRequest(D!Idle) /\ D!Idle.op = "idle"
  BY DEF DriverRequest, D!Idle
<1>5. ASSUME NEW p \in Requests
      PROVE  /\ DriverRequest(driverReq'[p]) /\ Relies(p)'
             /\ driverReq'[p].op \notin {"move", "count"}
  <2>1. DriverRequest(driverReq[p]) /\ Relies(p)
    BY DEF DriversInv
  <2>2. driverReq[p].op \notin {"edit", "move", "ends", "count"}
    BY <1>1, <2>1 DEF Relies
  <2> QED
    BY <1>1, <1>4, <2>1, <2>2 DEF Relies
<1>6. D!TypeOK'
  BY <1>1, <1>2, <1>5, DriverRequestTyped DEF DriversInv, D!TypeOK
<1>7. PairsNoted'
  BY <1>5 DEF PairsNoted
<1>8. finished' + Cardinality(D!Running("count"))' <= MaxFinishes
  <2>1. D!Running("count")' \subseteq D!Running("count")
    BY <1>5 DEF D!Running
  <2>2. Cardinality(D!Running("count"))' <= Cardinality(D!Running("count"))
    BY <2>1, CountsFinite, FS_Subset
  <2> QED
    BY <1>1, <2>2, CountsFinite, FiniteAssumption DEF DriversInv, D!TypeOK
<1>9. D!DriversSound'
  BY <1>1, <1>2 DEF DriversInv, D!DriversSound
<1>10. (\A p \in Requests : DriverRequest(driverReq[p]) /\ Relies(p))'
  BY <1>5
<1> QED
  BY <1>1, <1>3, <1>6, <1>7, <1>8, <1>9, <1>10 DEF DriversInv

(* An edit, a move or a count is stored.                                   *)
LEMMA DriversCommit ==
  ASSUME DriversInv, NEW r \in Requests, D!Commit(r)
  PROVE  DriversInv'
<1> DEFINE w == driverReq[r].writes
<1>1. /\ driverReq[r].op \in {"edit", "move", "count"} /\ driver' = D!Written(w, driver)
      /\ positions' = D!Recorded(r) /\ driverRaced' = driverRaced
      /\ finished' = IF driverReq[r].op = "count" THEN finished + 1 ELSE finished
      /\ \A p \in Requests : driverReq'[p] = IF p = r THEN D!Idle ELSE driverReq[p]
      /\ DOMAIN driverReq' = Requests
  BY DEF D!Commit, DriversInv
<1>2. /\ DriverRequest(driverReq[r]) /\ Relies(r) /\ driver # D!None /\ driver \in D!Driver
      /\ positions \in Places \cup {D!Nowhere} /\ finished \in Nat
  BY <1>1, FiniteAssumption DEF DriversInv, Relies, D!TypeOK
<1>3. /\ driverReq[r].op = "edit" => "place" \notin DOMAIN driverReq[r] /\ EditWrites(w)
      /\ driverReq[r].op = "move" => /\ "place" \in DOMAIN driverReq[r]
           /\ driverReq[r].place \in Places
                                     /\ MoveWrites(w, driverReq[r].place)
      /\ driverReq[r].op = "count" => "place" \notin DOMAIN driverReq[r] /\ CountWrites(w)
  BY <1>2 DEF DriverRequest, D!Idle
<1>4. /\ driver' \in D!Driver
      /\ driver'.place = IF "place" \in DOMAIN w THEN w["place"] ELSE driver.place
      /\ driver'.total_deliveries =
           IF "total_deliveries" \in DOMAIN w THEN w["total_deliveries"]
           ELSE driver.total_deliveries
  <2>1. /\ DOMAIN w \subseteq {"status", "vehicle", "place", "total_deliveries"}
        /\ "status" \in DOMAIN w => w["status"] \in D!Statuses
        /\ "vehicle" \in DOMAIN w => w["vehicle"] \in {"old", "new"}
        /\ "place" \in DOMAIN w => w["place"] \in Places
        /\ "total_deliveries" \in DOMAIN w => w["total_deliveries"] \in Nat
    BY <1>1, <1>3 DEF EditWrites, MoveWrites, CountWrites, D!Statuses
  <2>2. DOMAIN D!Created = {"status", "vehicle", "place", "total_deliveries"}
    BY DEF D!Created
  <2> HIDE DEF w
  <2> QED
    BY <1>1, <1>2, <2>1, <2>2, DriverWritten
<1>5. /\ "place" \notin driverRaced => driver'.place = positions'
      /\ driver'.total_deliveries <= finished'
      /\ "total_deliveries" \notin driverRaced => driver'.total_deliveries = finished'
  <2>1. CASE driverReq[r].op = "edit"
    BY <1>1, <1>2, <1>3, <1>4, <2>1 DEF EditWrites, D!Recorded, DriversInv, D!DriversSound
  <2>2. CASE driverReq[r].op = "move"
    BY <1>1, <1>2, <1>3, <1>4, <2>2
       DEF MoveWrites, D!Recorded, Relies, DriversInv, D!DriversSound
  <2>3. CASE driverReq[r].op = "count"
    BY <1>1, <1>2, <1>3, <1>4, <2>3
       DEF CountWrites, D!Recorded, Relies, DriversInv, D!DriversSound
  <2> QED
    BY <1>1, <2>1, <2>2, <2>3
<1>6. driver' # D!None /\ positions' \in Places \cup {D!Nowhere}
  <2>1. DOMAIN driver' = {"status", "vehicle", "place", "total_deliveries"}
    BY <1>4 DEF D!Driver
  <2> QED
    BY <1>1, <1>2, <1>3, <2>1 DEF D!None, D!Recorded
<1>7. DriverRequest(D!Idle) /\ D!Idle.op = "idle"
  BY DEF DriverRequest, D!Idle
<1>8. ASSUME NEW p \in Requests
      PROVE  DriverRequest(driverReq'[p]) /\ Relies(p)'
  <2>1. CASE p = r
    BY <1>1, <1>7, <2>1 DEF Relies
  <2>2. CASE p # r
    <3>1. driverReq'[p] = driverReq[p] /\ DriverRequest(driverReq[p]) /\ Relies(p)
      BY <1>1, <2>2 DEF DriversInv
    <3>2. driverReq[p].op = "move" /\ "place" \notin driverRaced =>
            driver'.place = driver.place
      <4>1. driverReq[p].op = "move" /\ "place" \notin driverRaced =>
              driverReq[r].op # "move"
        BY <2>2 DEF DriversInv, PairsNoted
      <4>2. driverReq[r].op # "move" => "place" \notin DOMAIN w
        BY <1>1, <1>3 DEF EditWrites, CountWrites
      <4> QED
        BY <1>4, <4>1, <4>2
    <3>3. driverReq[p].op = "count" /\ "total_deliveries" \notin driverRaced =>
            finished' = finished
      <4>1. driverReq[p].op = "count" /\ "total_deliveries" \notin driverRaced =>
              driverReq[r].op # "count"
        BY <2>2 DEF DriversInv, PairsNoted
      <4> QED
        BY <1>1, <4>1
    <3>4. driverReq[p].op = "count" =>
            driverReq'[p].writes["total_deliveries"] <= finished' + 1
      <4>1. driverReq[p].op = "count" => driverReq[p].writes["total_deliveries"] \in Nat
        BY <3>1 DEF DriverRequest, CountWrites, D!Idle
      <4> QED
        BY <1>1, <1>2, <3>1, <4>1 DEF Relies
    <3> QED
      BY <1>1, <1>6, <3>1, <3>2, <3>3, <3>4 DEF Relies
  <2> QED
    BY <2>1, <2>2
<1>9. finished' + Cardinality(D!Running("count"))' <= MaxFinishes
        /\ finished' \in 0..MaxFinishes
  <2>1. CASE driverReq[r].op = "count"
    <3>1. D!Running("count")' = D!Running("count") \ {r} /\ r \in D!Running("count")
      BY <1>1, <1>7, <2>1 DEF D!Running
    <3>2. Cardinality(D!Running("count"))' = Cardinality(D!Running("count")) - 1
      BY <3>1, CountsFinite, FS_RemoveElement
    <3> QED
      BY <1>1, <1>2, <2>1, <3>2, CountsFinite, FiniteAssumption DEF DriversInv
  <2>2. CASE driverReq[r].op # "count"
    <3>1. D!Running("count")' \subseteq D!Running("count")
      BY <1>1, <1>7 DEF D!Running
    <3>2. Cardinality(D!Running("count"))' <= Cardinality(D!Running("count"))
      BY <3>1, CountsFinite, FS_Subset
    <3> QED
      BY <1>1, <1>2, <2>2, <3>2, CountsFinite, FiniteAssumption DEF DriversInv
  <2> QED
    BY <2>1, <2>2
<1>10. D!TypeOK'
  BY <1>1, <1>4, <1>6, <1>8, <1>9, DriverRequestTyped DEF DriversInv, D!TypeOK
<1>11. PairsNoted'
  BY <1>1, <1>7 DEF DriversInv, PairsNoted
<1>12. (\A p \in Requests : DriverRequest(driverReq[p]) /\ Relies(p))'
  BY <1>8
<1>13. D!DriversSound'
  BY <1>1, <1>5 DEF D!DriversSound
<1> QED
  BY <1>1, <1>6, <1>9, <1>10, <1>11, <1>12, <1>13 DEF DriversInv

(* Dispatch writes the status.                                             *)
LEMMA DriversDispatch ==
  ASSUME DriversInv, NEW s \in {"ONLINE", "BUSY"}, D!DispatchSets(s)
  PROVE  DriversInv'
<1>1. /\ driver # D!None /\ driver' = [driver EXCEPT !.status = s]
      /\ positions' = positions /\ finished' = finished /\ driverReq' = driverReq
      /\ driverRaced' = driverRaced
  BY DEF D!DispatchSets
<1>2. driver \in D!Driver
  BY <1>1 DEF DriversInv, D!TypeOK
<1>3. /\ driver' \in D!Driver /\ driver'.place = driver.place
      /\ driver'.total_deliveries = driver.total_deliveries
  BY <1>1, <1>2 DEF D!Driver, D!Statuses
<1>4. driver' # D!None
  <2>1. DOMAIN driver' = {"status", "vehicle", "place", "total_deliveries"}
    BY <1>3 DEF D!Driver
  <2> QED
    BY <2>1 DEF D!None
<1>5. D!TypeOK'
  BY <1>1, <1>3 DEF DriversInv, D!TypeOK
<1>6. (\A p \in Requests : DriverRequest(driverReq[p]) /\ Relies(p))'
  BY <1>1, <1>3, <1>4 DEF DriversInv, Relies
<1>7. PairsNoted' /\ D!Running("count")' = D!Running("count")
  BY <1>1 DEF DriversInv, PairsNoted, D!Running
<1>8. D!DriversSound'
  BY <1>1, <1>3 DEF DriversInv, D!DriversSound
<1> QED
  BY <1>1, <1>4, <1>5, <1>6, <1>7, <1>8 DEF DriversInv

(* Counted is every delivery, shown the last position.                     *)
LEMMA DriversInvariance == D!Spec => [](D!TypeOK /\ D!DriversSound)
<1>1. D!Init => DriversInv
  <2> SUFFICES ASSUME D!Init PROVE DriversInv
    OBVIOUS
  <2>1. /\ driver = D!None /\ positions = D!Nowhere /\ finished = 0 /\ driverRaced = {}
        /\ DOMAIN driverReq = Requests /\ \A r \in Requests : driverReq[r] = D!Idle
    BY DEF D!Init
  <2>2. DriverRequest(D!Idle) /\ D!Idle.op = "idle"
    BY DEF DriverRequest, D!Idle
  <2>3. D!Running("count") = {}
    BY <2>1, <2>2 DEF D!Running
  <2>4. Cardinality(D!Running("count")) = 0
    BY <2>3, FS_EmptySet
  <2> QED
    BY <2>1, <2>2, <2>4, FiniteAssumption
    DEF DriversInv, D!TypeOK, Relies, PairsNoted, D!DriversSound
<1>2. DriversInv /\ [D!Next]_D!vars => DriversInv'
  <2> SUFFICES ASSUME DriversInv, [D!Next]_D!vars PROVE DriversInv'
    OBVIOUS
  <2>1. CASE UNCHANGED D!vars
    <3>1. /\ driver' = driver /\ positions' = positions /\ finished' = finished
          /\ driverReq' = driverReq /\ driverRaced' = driverRaced
      BY <2>1 DEF D!vars
    <3> QED
      BY <3>1 DEF DriversInv, D!TypeOK, Relies, PairsNoted, D!Running, D!DriversSound
  <2> QED
    BY <2>1, DriversDispatch, DriversCreate, DriversReadRow, DriversCommitCreate,
       DriversCommit
    DEF D!Next
<1>3. DriversInv => D!TypeOK /\ D!DriversSound
  BY DEF DriversInv
<1> QED
  BY <1>1, <1>2, <1>3, PTL DEF D!Spec

-----------------------------------------------------------------------------
(***************************************************************************)
(* Settings.  Nothing that writes is under way with a request that is      *)
(* alone, so that what it has read of a key is still there when it ends.   *)
(* Of the two keys that belong together, a save that is alone has put the  *)
(* version it brings, or has found it there; a use has read what is there. *)
(* A key whose turn has not come is not in the row.                        *)
(***************************************************************************)
SettingsRequest(q) ==
  /\ DOMAIN q = {"op", "version", "next", "last", "row", "inserts", "alone"}
  /\ q.op \in {"save", "edit", "use"} /\ q.version \in S!Values
  /\ q.next \in 1..4 /\ q.last \in 1..3 /\ q.next <= q.last + 1
  /\ q.op \in {"save", "use"} => q.last = 3
  /\ q.row \in S!Partial /\ q.inserts \subseteq S!KeySet /\ q.alone \in BOOLEAN
  /\ "base_url" \in DOMAIN q.row => q.next > 2
  /\ "chat_model" \in DOMAIN q.row => q.next > 3

(* What is in the row of a key that had its turn, the nth of all.          *)
Holds(q, k, n) ==
  q.next > n =>
    /\ q.op = "save" => IF k \in DOMAIN q.row THEN q.row[k] = q.version
                                              ELSE config[k] = q.version
    /\ q.op = "use" => k \in DOMAIN q.row /\ q.row[k] = config[k]

SettingsRelies(q) ==
  q.alone => Holds(q, "base_url", 2) /\ Holds(q, "chat_model", 3)

AloneNoted ==
  \A r, s \in Requests :
    r # s /\ configReq[r] # S!Idle /\ configReq[s] # S!Idle /\ S!Writes(configReq[s].op) =>
      ~configReq[r].alone

SettingsInv ==
  /\ S!TypeOK /\ DOMAIN configReq = Requests
  /\ \A r \in Requests : configReq[r] # S!Idle =>
       SettingsRequest(configReq[r]) /\ SettingsRelies(configReq[r])
  /\ AloneNoted
  /\ S!SettingsWhole

(* What is a partial map of keys.                                          *)
LEMMA Partials ==
  ASSUME NEW row
  PROVE  row \in S!Partial <=> /\ DOMAIN row \subseteq S!KeySet
                               /\ row \in [DOMAIN row -> S!Values]
<1>1. ASSUME row \in S!Partial
      PROVE  DOMAIN row \subseteq S!KeySet /\ row \in [DOMAIN row -> S!Values]
  <2>1. PICK K \in SUBSET S!KeySet : row \in [K -> S!Values]
    BY <1>1 DEF S!Partial
  <2> QED
    BY <2>1
<1>2. ASSUME DOMAIN row \subseteq S!KeySet, row \in [DOMAIN row -> S!Values]
      PROVE  row \in S!Partial
  BY <1>2 DEF S!Partial
<1> QED
  BY <1>1, <1>2

LEMMA WrittenPartial ==
  ASSUME NEW a \in S!Partial, NEW b \in S!Partial
  PROVE  S!Written(a, b) \in S!Partial
<1>1. /\ DOMAIN a \subseteq S!KeySet /\ \A k \in DOMAIN a : a[k] \in S!Values
      /\ DOMAIN b \subseteq S!KeySet /\ \A k \in DOMAIN b : b[k] \in S!Values
  BY Partials
<1> DEFINE c == S!Written(a, b)
<1>2. c = [k \in DOMAIN a \cup DOMAIN b |-> IF k \in DOMAIN a THEN a[k] ELSE b[k]]
  BY DEF S!Written
<1>3. DOMAIN c \subseteq S!KeySet /\ c \in [DOMAIN c -> S!Values]
  BY <1>1, <1>2
<1> HIDE DEF c
<1>4. c \in S!Partial
  BY <1>3, Partials
<1> QED
  BY <1>4 DEF c

LEMMA OneKey ==
  ASSUME NEW k \in S!KeySet, NEW v \in S!Values
  PROVE  [x \in {k} |-> v] \in S!Partial /\ S!Nothing \in S!Partial
<1>1. [x \in {k} |-> v] \in [{k} -> S!Values] /\ S!Nothing \in [{} -> S!Values]
  BY DEF S!Nothing
<1>2. {k} \in SUBSET S!KeySet /\ {} \in SUBSET S!KeySet
  OBVIOUS
<1> QED
  BY <1>1, <1>2 DEF S!Partial

LEMMA KeysAre ==
  /\ S!Keys[1] = "api_key" /\ S!Keys[2] = "base_url" /\ S!Keys[3] = "chat_model"
  /\ DOMAIN S!Keys = 1..3 /\ S!KeySet = {"api_key", "base_url", "chat_model"}
<1>1. /\ S!Keys[1] = "api_key" /\ S!Keys[2] = "base_url" /\ S!Keys[3] = "chat_model"
      /\ DOMAIN S!Keys = 1..3
  BY DEF S!Keys
<1>2. 1..3 = {1, 2, 3}
  OBVIOUS
<1> QED
  BY <1>1, <1>2 DEF S!KeySet

(* The types of requests, by what they must be.                            *)
LEMMA SettingsRequestTyped ==
  ASSUME NEW q, SettingsRequest(q)
  PROVE  /\ q # S!Idle
         /\ q.op \in {"save", "edit", "use"} /\ q.row \in S!Partial
         /\ q.next \in 1..4 /\ q.last \in 1..3
         /\ q.inserts \subseteq S!KeySet /\ q.alone \in BOOLEAN
<1>1. DOMAIN S!Idle = {"op"}
  BY DEF S!Idle
<1> QED
  BY <1>1 DEF SettingsRequest

(* A request goes on, or ends, without anything stored.                    *)
LEMMA SettingsGoOn ==
  ASSUME SettingsInv, NEW r \in Requests, NEW q, configReq' = [configReq EXCEPT ![r] = q],
         UNCHANGED <<config, used, mixed>>, configReq[r] # S!Idle,
         q = S!Idle \/ /\ SettingsRequest(q) /\ SettingsRelies(q)
                       /\ q.op = configReq[r].op /\ q.alone = configReq[r].alone
  PROVE  SettingsInv'
<1>1. /\ \A p \in Requests : configReq'[p] = IF p = r THEN q ELSE configReq[p]
      /\ DOMAIN configReq' = Requests
      /\ config' = config /\ used' = used /\ mixed' = mixed
  BY DEF SettingsInv
<1>2. S!TypeOK'
  BY <1>1, SettingsRequestTyped DEF SettingsInv, S!TypeOK
<1>3. (\A p \in Requests : configReq[p] # S!Idle =>
        SettingsRequest(configReq[p]) /\ SettingsRelies(configReq[p]))'
  BY <1>1 DEF SettingsInv, SettingsRelies, Holds
<1>4. AloneNoted'
  BY <1>1 DEF SettingsInv, AloneNoted
<1>5. S!SettingsWhole'
  BY <1>1 DEF SettingsInv, S!SettingsWhole
<1> QED
  BY <1>1, <1>2, <1>3, <1>4, <1>5 DEF SettingsInv

(* A request begins: those that are under way learn of it if it writes.    *)
LEMMA SettingsBegins ==
  ASSUME SettingsInv, NEW r \in Requests, NEW op \in {"save", "edit", "use"},
         NEW v \in S!Values, NEW first \in 1..3, NEW last \in 1..3, first <= last,
         op \in {"save", "use"} => first <= 2 /\ last = 3,
         S!Begin(r, op, v, first, last)
  PROVE  SettingsInv'
<1> DEFINE alone == \A p \in S!Others(r) : ~S!Writes(configReq[p].op)
           new == [op |-> op, version |-> v, next |-> first, last |-> last,
                   row |-> S!Nothing, inserts |-> {}, alone |-> alone]
<1>1. /\ configReq[r] = S!Idle /\ config' = config /\ used' = used /\ mixed' = mixed
      /\ DOMAIN configReq' = Requests /\ configReq'[r] = new
      /\ \A q \in Requests : q # r =>
           configReq'[q] = IF configReq[q] # S!Idle /\ S!Writes(op)
             THEN [configReq[q] EXCEPT !.alone = FALSE]
                     ELSE configReq[q]
  BY DEF S!Begin, S!Others
<1>2. SettingsRequest(new) /\ SettingsRelies(new) /\ new.op = op /\ new.alone = alone
  <2>1. S!Nothing \in S!Partial
    BY OneKey, KeysAre
  <2>2. alone \in BOOLEAN /\ DOMAIN S!Nothing = {}
    BY DEF S!Nothing
  <2> HIDE DEF alone
  <2> QED
    BY <2>1, <2>2 DEF SettingsRequest, SettingsRelies, Holds
<1>3. ASSUME NEW q \in Requests, q # r, configReq[q] # S!Idle
      PROVE  /\ configReq'[q] # S!Idle /\ configReq'[q].op = configReq[q].op
             /\ SettingsRequest(configReq'[q]) /\ SettingsRelies(configReq'[q])
             /\ configReq'[q].alone => configReq[q].alone /\ ~S!Writes(op)
  <2>1. SettingsRequest(configReq[q]) /\ SettingsRelies(configReq[q])
    BY <1>3 DEF SettingsInv
  <2>2. CASE S!Writes(op)
    <3>1. configReq'[q] = [configReq[q] EXCEPT !.alone = FALSE]
      BY <1>1, <1>3, <2>2
    <3>2. /\ SettingsRequest(configReq'[q]) /\ configReq'[q].op = configReq[q].op
          /\ configReq'[q].alone = FALSE
      BY <2>1, <3>1 DEF SettingsRequest
    <3> QED
      BY <3>2, SettingsRequestTyped DEF SettingsRelies
  <2>3. CASE ~S!Writes(op)
    BY <1>1, <1>3, <2>1, <2>3
  <2> QED
    BY <2>2, <2>3
<1>4. ASSUME NEW q \in Requests, q # r, configReq[q] = S!Idle PROVE configReq'[q] = S!Idle
  BY <1>1, <1>4
<1> HIDE DEF new
<1>5. S!TypeOK'
  BY <1>1, <1>2, <1>3, <1>4, SettingsRequestTyped DEF SettingsInv, S!TypeOK
<1>6. \A q \in Requests : configReq'[q] # S!Idle =>
        SettingsRequest(configReq'[q]) /\ SettingsRelies(configReq'[q])
  BY <1>1, <1>2, <1>3, <1>4
<1>7. (\A q \in Requests : configReq[q] # S!Idle =>
        SettingsRequest(configReq[q]) /\ SettingsRelies(configReq[q]))'
  BY <1>1, <1>6 DEF SettingsRelies, Holds
<1>8. AloneNoted'
  <2> SUFFICES ASSUME NEW p \in Requests, NEW s \in Requests, p # s, configReq'[p] # S!Idle,
                      configReq'[s] # S!Idle, S!Writes(configReq'[s].op), configReq'[p].alone
               PROVE  FALSE
    BY DEF AloneNoted
  <2>1. CASE p = r
    <3>1. configReq[s] # S!Idle /\ S!Writes(configReq[s].op)
      BY <1>3, <1>4, <2>1
    <3>2. s \in S!Others(r)
      BY <2>1, <3>1 DEF S!Others
    <3> QED
      BY <1>1, <1>2, <2>1, <3>1, <3>2
  <2>2. CASE s = r
    BY <1>1, <1>2, <1>3, <1>4, <2>2
  <2>3. CASE p # r /\ s # r
    BY <1>3, <1>4, <2>3 DEF SettingsInv, AloneNoted
  <2> QED
    BY <2>1, <2>2, <2>3
<1>9. S!SettingsWhole'
  BY <1>1 DEF SettingsInv, S!SettingsWhole
<1> QED
  BY <1>1, <1>5, <1>7, <1>8, <1>9 DEF SettingsInv

(* The turn of a key: its value is found, and replaced if it differs.      *)
LEMMA SettingsUpsert ==
  ASSUME SettingsInv, NEW r \in Requests, S!Upsert(r)
  PROVE  SettingsInv'
<1> DEFINE n == configReq[r].next
           k == S!Keys[n]
           up == S!Upserted(k, config[k], configReq[r].version)
           ins == IF config[k] = S!None THEN configReq[r].inserts \cup {k}
                                         ELSE configReq[r].inserts
           q == [configReq[r] EXCEPT !.row = S!Written(up, configReq[r].row),
                                     !.inserts = ins,
                               !.next = n + 1]
<1>1. /\ configReq[r] # S!Idle /\ n <= configReq[r].last /\ S!Writes(configReq[r].op)
      /\ UNCHANGED <<config, used, mixed>>
  BY DEF S!Upsert, S!Turn
<1>2. SettingsRequest(configReq[r]) /\ SettingsRelies(configReq[r])
  BY <1>1 DEF SettingsInv
<1>3. configReq' = [configReq EXCEPT ![r] = q]
  BY DEF S!Upsert, SettingsInv
<1>4. n \in 1..3 /\ k \in S!KeySet
  BY <1>1, <1>2, KeysAre DEF SettingsRequest
<1>5. config \in [S!KeySet -> S!Values]
  BY DEF SettingsInv, S!TypeOK
<1>6. /\ up \in S!Partial /\ DOMAIN up \subseteq {k}
      /\ IF k \in DOMAIN up THEN up[k] = configReq[r].version
           ELSE config[k] = configReq[r].version
  <2>1. configReq[r].version \in S!Values
    BY <1>2 DEF SettingsRequest
  <2>2. [x \in {k} |-> configReq[r].version] \in S!Partial /\ S!Nothing \in S!Partial
    BY <1>4, <2>1, OneKey
  <2> HIDE DEF k
  <2> QED
    BY <2>2 DEF S!Upserted, S!Nothing
<1> DEFINE row == S!Written(up, configReq[r].row)
<1>7. row \in S!Partial
  BY <1>2, <1>6, WrittenPartial DEF SettingsRequest
<1>8. \A f : /\ f \in DOMAIN row <=> f \in DOMAIN up \/ f \in DOMAIN configReq[r].row
             /\ f \in DOMAIN row =>
                  row[f] = IF f \in DOMAIN up THEN up[f] ELSE configReq[r].row[f]
  BY DEF S!Written
<1>9. ins \subseteq S!KeySet
  BY <1>2, <1>4 DEF SettingsRequest
<1>10. q = [configReq[r] EXCEPT !.row = row, !.inserts = ins, !.next = n + 1]
  OBVIOUS
<1> HIDE DEF up, row, ins, q
<1>11. /\ SettingsRequest(q) /\ q.op = configReq[r].op /\ q.alone = configReq[r].alone
       /\ q.row = row /\ q.next = n + 1 /\ q.version = configReq[r].version
  <2>1. /\ "base_url" \in DOMAIN row => n + 1 > 2
        /\ "chat_model" \in DOMAIN row => n + 1 > 3
    BY <1>2, <1>4, <1>6, <1>8, KeysAre DEF SettingsRequest
  <2> QED
    BY <1>1, <1>2, <1>4, <1>7, <1>9, <1>10, <2>1 DEF SettingsRequest
<1>12. SettingsRelies(q)
  <2> SUFFICES ASSUME q.alone, q.op = "save"
               PROVE  Holds(q, "base_url", 2) /\ Holds(q, "chat_model", 3)
    BY <1>1, <1>11 DEF SettingsRelies, Holds, S!Writes
  <2>1. Holds(configReq[r], "base_url", 2) /\ Holds(configReq[r], "chat_model", 3)
    BY <1>2, <1>11 DEF SettingsRelies
  <2>2. Holds(q, "base_url", 2)
    <3>1. CASE n = 2
      <4>1. "base_url" \notin DOMAIN configReq[r].row
        BY <1>2, <3>1 DEF SettingsRequest
      <4>2. k = "base_url"
        BY <3>1, KeysAre
      <4> QED
        BY <1>1, <1>6, <1>8, <1>11, <4>1, <4>2, KeysAre DEF Holds
    <3>2. CASE n # 2
      <4>1. k # "base_url"
        BY <1>4, <3>2, KeysAre
      <4> QED
        BY <1>4, <1>6, <1>8, <1>11, <2>1, <3>2, <4>1 DEF Holds
    <3> QED
      BY <3>1, <3>2
  <2>3. Holds(q, "chat_model", 3)
    <3>1. CASE n = 3
      <4>1. "chat_model" \notin DOMAIN configReq[r].row
        BY <1>2, <3>1 DEF SettingsRequest
      <4>2. k = "chat_model"
        BY <3>1, KeysAre
      <4> QED
        BY <1>1, <1>6, <1>8, <1>11, <4>1, <4>2, KeysAre DEF Holds
    <3>2. CASE n # 3
      BY <1>4, <1>11, <3>2 DEF Holds
    <3> QED
      BY <3>1, <3>2
  <2> QED
    BY <2>2, <2>3
<1> QED
  BY <1>1, <1>3, <1>11, <1>12, SettingsGoOn

(* The turn of a key for who reads it.                                     *)
LEMMA SettingsReadKey ==
  ASSUME SettingsInv, NEW r \in Requests, S!ReadKey(r)
  PROVE  SettingsInv'
<1> DEFINE n == configReq[r].next
           k == S!Keys[n]
           up == [x \in {k} |-> config[k]]
           row == S!Written(up, configReq[r].row)
           q == [configReq[r] EXCEPT !.row = row, !.next = n + 1]
<1>1. /\ configReq[r] # S!Idle /\ n <= configReq[r].last /\ configReq[r].op = "use"
      /\ UNCHANGED <<config, used, mixed>>
  BY DEF S!ReadKey, S!Turn
<1>2. SettingsRequest(configReq[r]) /\ SettingsRelies(configReq[r])
  BY <1>1 DEF SettingsInv
<1>3. configReq' = [configReq EXCEPT ![r] = q]
  BY DEF S!ReadKey, SettingsInv
<1>4. n \in 1..3 /\ k \in S!KeySet
  BY <1>1, <1>2, KeysAre DEF SettingsRequest
<1>5. up \in S!Partial /\ DOMAIN up = {k} /\ up[k] = config[k]
  BY <1>4, OneKey DEF SettingsInv, S!TypeOK
<1>6. row \in S!Partial
  BY <1>2, <1>5, WrittenPartial DEF SettingsRequest
<1>7. \A f : /\ f \in DOMAIN row <=> f = k \/ f \in DOMAIN configReq[r].row
             /\ f \in DOMAIN row =>
                  row[f] = IF f = k THEN config[k] ELSE configReq[r].row[f]
  BY DEF S!Written
<1> HIDE DEF up, row
<1>8. /\ SettingsRequest(q) /\ q.op = "use" /\ q.alone = configReq[r].alone
      /\ q.row = row /\ q.next = n + 1
  <2>1. /\ "base_url" \in DOMAIN row => n + 1 > 2
        /\ "chat_model" \in DOMAIN row => n + 1 > 3
    BY <1>2, <1>4, <1>7, KeysAre DEF SettingsRequest
  <2> QED
    BY <1>1, <1>2, <1>4, <1>6, <2>1 DEF SettingsRequest
<1> HIDE DEF q
<1>9. SettingsRelies(q)
  <2> SUFFICES ASSUME q.alone
               PROVE  Holds(q, "base_url", 2) /\ Holds(q, "chat_model", 3)
    BY DEF SettingsRelies
  <2>1. Holds(configReq[r], "base_url", 2) /\ Holds(configReq[r], "chat_model", 3)
    BY <1>2, <1>8 DEF SettingsRelies
  <2>2. Holds(q, "base_url", 2)
    <3>1. CASE n = 2
      BY <1>7, <1>8, <3>1, KeysAre DEF Holds
    <3>2. CASE n # 2
      <4>1. k # "base_url"
        BY <1>4, <3>2, KeysAre
      <4> QED
        BY <1>1, <1>4, <1>7, <1>8, <2>1, <3>2, <4>1 DEF Holds
    <3> QED
      BY <3>1, <3>2
  <2>3. Holds(q, "chat_model", 3)
    <3>1. CASE n = 3
      BY <1>7, <1>8, <3>1, KeysAre DEF Holds
    <3>2. CASE n # 3
      BY <1>4, <1>8, <3>2 DEF Holds
    <3> QED
      BY <3>1, <3>2
  <2> QED
    BY <2>2, <2>3
<1> QED
  BY <1>1, <1>3, <1>8, <1>9, SettingsGoOn

(* What is written is stored: who else is under way is not alone.          *)
LEMMA SettingsSave ==
  ASSUME SettingsInv, NEW r \in Requests, S!Save(r)
  PROVE  SettingsInv'
<1> DEFINE row == configReq[r].row
<1>1. /\ configReq[r] # S!Idle /\ S!Writes(configReq[r].op)
      /\ ~(configReq[r].next <= configReq[r].last)
      /\ config' = S!Written(row, config) /\ used' = used
      /\ mixed' = ~(configReq[r].op = "save" /\ configReq[r].alone)
      /\ DOMAIN configReq' = Requests
      /\ \A p \in Requests : configReq'[p] = IF p = r THEN S!Idle ELSE configReq[p]
  BY DEF S!Save, S!Turn, SettingsInv
<1>2. SettingsRequest(configReq[r]) /\ SettingsRelies(configReq[r])
  BY <1>1 DEF SettingsInv
<1>3. DOMAIN row \subseteq S!KeySet /\ \A f \in DOMAIN row : row[f] \in S!Values
  BY <1>2, Partials DEF SettingsRequest
<1>4. config \in [S!KeySet -> S!Values] /\ used \in S!Partial /\ mixed \in BOOLEAN
  BY DEF SettingsInv, S!TypeOK
<1>5. config' = [f \in S!KeySet |-> IF f \in DOMAIN row THEN row[f] ELSE config[f]]
  BY <1>1, <1>3, <1>4 DEF S!Written
<1>6. config' \in [S!KeySet -> S!Values]
  BY <1>3, <1>4, <1>5
<1>7. ~mixed' => config'["base_url"] = config'["chat_model"]
  <2> SUFFICES ASSUME configReq[r].op = "save", configReq[r].alone
               PROVE  config'["base_url"] = config'["chat_model"]
    BY <1>1
  <2>1. configReq[r].next = 4
    BY <1>1, <1>2 DEF SettingsRequest
  <2>2. Holds(configReq[r], "base_url", 2) /\ Holds(configReq[r], "chat_model", 3)
    BY <1>2 DEF SettingsRelies
  <2>3. /\ IF "base_url" \in DOMAIN row THEN row["base_url"] = configReq[r].version
                                          ELSE config["base_url"] = configReq[r].version
        /\ IF "chat_model" \in DOMAIN row THEN row["chat_model"] = configReq[r].version
                                            ELSE config["chat_model"] = configReq[r].version
    BY <2>1, <2>2 DEF Holds
  <2> QED
    BY <1>5, <2>3, KeysAre
<1> HIDE DEF row
<1>8. ASSUME NEW p \in Requests, configReq'[p] # S!Idle
      PROVE  SettingsRequest(configReq'[p]) /\ ~configReq'[p].alone
  <2>1. p # r /\ configReq'[p] = configReq[p]
    BY <1>1, <1>8
  <2> QED
    BY <1>1, <1>8, <2>1 DEF SettingsInv, AloneNoted
<1>9. (\A p \in Requests : configReq[p] # S!Idle =>
        SettingsRequest(configReq[p]) /\ SettingsRelies(configReq[p]))'
  BY <1>8 DEF SettingsRelies
<1>10. S!TypeOK'
  BY <1>1, <1>4, <1>6, <1>8, SettingsRequestTyped DEF S!TypeOK
<1>11. AloneNoted'
  BY <1>8 DEF AloneNoted
<1>12. S!SettingsWhole'
  BY <1>1, <1>7 DEF SettingsInv, S!SettingsWhole
<1> QED
  BY <1>1, <1>9, <1>10, <1>11, <1>12 DEF SettingsInv

(* A use that is alone works with what is stored.                          *)
LEMMA SettingsUse ==
  ASSUME SettingsInv, NEW r \in Requests, S!Use(r)
  PROVE  SettingsInv'
<1>1. /\ configReq[r] # S!Idle /\ configReq[r].op = "use"
      /\ ~(configReq[r].next <= configReq[r].last)
      /\ config' = config /\ mixed' = mixed
      /\ used' = (IF configReq[r].alone /\ ~mixed
           /\ \A k \in S!KeySet : configReq[r].row[k] # S!None
                    THEN configReq[r].row ELSE S!Nothing)
      /\ DOMAIN configReq' = Requests
      /\ \A p \in Requests : configReq'[p] = IF p = r THEN S!Idle ELSE configReq[p]
  BY DEF S!Use, S!Turn, SettingsInv
<1>2. SettingsRequest(configReq[r]) /\ SettingsRelies(configReq[r])
  BY <1>1 DEF SettingsInv
<1>3. used' \in S!Partial
  BY <1>1, <1>2, OneKey, KeysAre DEF SettingsRequest, S!Values
<1>4. used' # S!Nothing => used'["base_url"] = used'["chat_model"]
  <2> SUFFICES ASSUME configReq[r].alone, ~mixed, used' = configReq[r].row
               PROVE  used'["base_url"] = used'["chat_model"]
    BY <1>1
  <2>1. configReq[r].next = 4
    BY <1>1, <1>2 DEF SettingsRequest
  <2>2. Holds(configReq[r], "base_url", 2) /\ Holds(configReq[r], "chat_model", 3)
    BY <1>2 DEF SettingsRelies
  <2>3. /\ configReq[r].row["base_url"] = config["base_url"]
        /\ configReq[r].row["chat_model"] = config["chat_model"]
    BY <1>1, <2>1, <2>2 DEF Holds
  <2> QED
    BY <2>3 DEF SettingsInv, S!SettingsWhole
<1>5. ASSUME NEW p \in Requests, configReq'[p] # S!Idle
      PROVE  p # r /\ configReq'[p] = configReq[p] /\ SettingsRequest(configReq[p])
               /\ SettingsRelies(configReq[p])
  <2>1. p # r
    BY <1>1, <1>5
  <2>2. configReq'[p] = configReq[p]
    BY <1>1, <2>1
  <2> QED
    BY <1>5, <2>1, <2>2 DEF SettingsInv
<1>6. (\A p \in Requests : configReq[p] # S!Idle =>
        SettingsRequest(configReq[p]) /\ SettingsRelies(configReq[p]))'
  BY <1>1, <1>5 DEF SettingsRelies, Holds
<1>7. S!TypeOK'
  <2>1. \A p \in Requests : configReq'[p] # S!Idle => SettingsRequest(configReq'[p])
    BY <1>5
  <2> QED
    BY <1>1, <1>3, <2>1, SettingsRequestTyped DEF SettingsInv, S!TypeOK
<1>8. AloneNoted'
  BY <1>1, <1>5 DEF SettingsInv, AloneNoted
<1>9. S!SettingsWhole'
  BY <1>1, <1>4 DEF SettingsInv, S!SettingsWhole
<1> QED
  BY <1>1, <1>6, <1>7, <1>8, <1>9 DEF SettingsInv

(* What belongs together stays together, stored and in use.                *)
LEMMA SettingsInvariance == S!Spec => [](S!TypeOK /\ S!SettingsWhole)
<1>1. S!Init => SettingsInv
  <2> SUFFICES ASSUME S!Init PROVE SettingsInv
    OBVIOUS
  <2>1. S!Nothing \in S!Partial
    BY OneKey, KeysAre DEF S!Values
  <2>2. config \in [S!KeySet -> S!Values] /\ config["base_url"] = config["chat_model"]
    BY KeysAre DEF S!Init, S!Values
  <2> QED
    BY <2>1, <2>2 DEF S!Init, SettingsInv, S!TypeOK, AloneNoted, S!SettingsWhole
<1>2. SettingsInv /\ [S!Next]_S!vars => SettingsInv'
  <2> SUFFICES ASSUME SettingsInv, [S!Next]_S!vars PROVE SettingsInv'
    OBVIOUS
  <2>1. CASE UNCHANGED S!vars
    <3>1. config' = config /\ configReq' = configReq /\ used' = used /\ mixed' = mixed
      BY <2>1 DEF S!vars
    <3> QED
      BY <3>1 DEF SettingsInv, S!TypeOK, SettingsRelies, Holds, AloneNoted, S!SettingsWhole
  <2>2. ASSUME NEW r \in Requests, NEW v \in Versions, NEW i \in 1..3,
               S!BeginSave(r, v, i) \/ S!BeginEdit(r, v, i)
        PROVE  SettingsInv'
    <3>1. v \in S!Values
      BY DEF S!Values
    <3>2. CASE S!BeginSave(r, v, i)
      BY <3>1, <3>2, SettingsBegins DEF S!BeginSave
    <3>3. CASE S!BeginEdit(r, v, i)
      BY <3>1, <3>3, SettingsBegins DEF S!BeginEdit
    <3> QED
      BY <2>2, <3>2, <3>3
  <2>3. ASSUME NEW r \in Requests, S!BeginUse(r)
        PROVE  SettingsInv'
    <3>1. S!None \in S!Values
      BY DEF S!Values
    <3> QED
      BY <2>3, <3>1, SettingsBegins DEF S!BeginUse
  <2>4. ASSUME NEW r \in Requests, S!Rollback(r)
        PROVE  SettingsInv'
    BY <2>4, SettingsGoOn DEF S!Rollback
  <2> QED
    BY <2>1, <2>2, <2>3, <2>4, SettingsUpsert, SettingsSave, SettingsReadKey, SettingsUse
    DEF S!Next
<1>3. SettingsInv => S!TypeOK /\ S!SettingsWhole
  BY DEF SettingsInv
<1> QED
  BY <1>1, <1>2, <1>3, PTL DEF S!Spec

-----------------------------------------------------------------------------
(***************************************************************************)
(* Side by side.  A step is one of a single component and leaves the       *)
(* variables of the others alone.                                          *)
(***************************************************************************)
LEMMA Alone == AllSpec => Spec /\ M!Spec /\ D!Spec /\ S!Spec
<1>1. AllInit => Init /\ M!Init /\ D!Init /\ S!Init
  BY DEF AllInit
<1>2. [AllNext]_allVars => [Next]_vars
  BY DEF AllNext, allVars, vars
<1>3. [AllNext]_allVars => [M!Next]_M!vars
  BY DEF AllNext, allVars, menuVars, M!vars
<1>4. [AllNext]_allVars => [D!Next]_D!vars
  BY DEF AllNext, allVars, driverVars, D!vars
<1>5. [AllNext]_allVars => [S!Next]_S!vars
  BY DEF AllNext, allVars, configVars, S!vars
<1> QED
  BY <1>1, <1>2, <1>3, <1>4, <1>5, PTL DEF AllSpec, Spec, M!Spec, D!Spec, S!Spec

(* TypesOK: the variables of all components have their values.             *)
THEOREM TypeCorrect == AllSpec => []TypesOK
<1>1. RatingsInv => TypeOK
  BY DEF RatingsInv
<1>2. MenuInv => M!TypeOK
  BY MenuShows
<1>3. M!TypeOK /\ TypeOK /\ (D!TypeOK /\ D!DriversSound) /\ (S!TypeOK /\ S!SettingsWhole)
        => TypesOK
  BY DEF TypesOK
<1> QED
  BY <1>1, <1>2, <1>3, Alone, RatingsInvariance, MenuInvariance, DriversInvariance,
     SettingsInvariance, PTL

(* ShownIsOrderable: a customer who is shown an item with its groups and   *)
(* options can order it, and nothing that is not shown, whatever edits     *)
(* were made meanwhile.                                                    *)
THEOREM MenuIsTrue == AllSpec => []ShownIsOrderable
<1>1. MenuInv => ShownIsOrderable
  BY MenuShows DEF ShownIsOrderable
<1> QED
  BY <1>1, Alone, MenuInvariance, PTL

(* NothingReturns: no step makes what was deleted live again, or takes the *)
(* approval of a shop back.                                                *)
THEOREM DeletedForGood == AllSpec => NothingReturns
<1>1. MenuInv /\ [M!Next]_M!vars =>
        [/\ \A x \in M!Parents : (rows[x] # M!Absent /\ ~rows[x].live) => ~rows'[x].live
         /\ \A s \in Shops : rows[s].status = "ACTIVE" => rows'[s].status = "ACTIVE"]_M!vars
  BY MenuKeepsDeleted
<1> QED
  BY <1>1, Alone, MenuInvariance, PTL DEF NothingReturns, M!NothingReturns, M!Spec

(* RatingsCurrent: averages and summaries are of the stored reviews, and   *)
(* an order has one review, unless requests that store them met.           *)
THEOREM StayCurrent == AllSpec => []RatingsCurrent
<1>1. RatingsInv => RatingsCurrent
  BY DEF RatingsInv
<1> QED
  BY <1>1, Alone, RatingsInvariance, PTL

(* DriversSound: no more ends of orders are counted than there were,       *)
(* deliveries, cancellations and repeated ends alike; the count is exact   *)
(* and the place shown the last one recorded as long as no two requests    *)
(* counted, or moved the driver, at once.                                  *)
THEOREM CountedAndPlaced == AllSpec => []DriversSound
<1>1. D!TypeOK /\ D!DriversSound => DriversSound
  BY DEF DriversSound
<1> QED
  BY <1>1, Alone, DriversInvariance, PTL

(* SettingsWhole: the address and the model that are stored, or used, were *)
(* saved together, unless another save or edit came between.               *)
THEOREM SavedTogether == AllSpec => []SettingsWhole
<1>1. S!TypeOK /\ S!SettingsWhole => SettingsWhole
  BY DEF SettingsWhole
<1> QED
  BY <1>1, Alone, SettingsInvariance, PTL
=============================================================================
