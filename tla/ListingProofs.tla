----------------------------- MODULE ListingProofs -----------------------------
(***************************************************************************)
(* Proofs about what a venue's page shows beside its own row: the stored   *)
(* rating (Reviews), for any users, venues, ratings and concurrent         *)
(* requests, and the gallery (Uploads), for any files, any concurrent      *)
(* requests and any number of failures.                                    *)
(*                                                                         *)
(* AvgAndCount is only unfolded for a venue without reviews.  Everything   *)
(* else about ratings follows from whose reviews it was applied to.        *)
(***************************************************************************)
EXTENDS Reviews, Uploads, FiniteSetTheorems, TLAPS

(* The rating *)

Statuses == {"PENDING", "APPROVED", "REJECTED"}
Rows == [stars : Stars, status : Statuses] \cup {Nothing}
Figures == {AvgAndCount(stars) : stars \in UNION {[S -> Stars] : S \in SUBSET Users}}
Phases == {"written", "locked", "counted", "skipped"}
Txs == [key : Keys, row : Rows, inserted : BOOLEAN, phase : Phases, value : Figures \cup {Nothing}]
Ratings == [value : Figures \cup Pins, manual : BOOLEAN, by : {"reviews", "admin", "clear"}]

TypeOK ==
  /\ review \in [Keys -> Rows]
  /\ rating \in [Venues -> Ratings]
  /\ tx \in [Writers -> Txs \cup {Nothing}]
  /\ clearing \in [Venues -> Figures \cup {Nothing}]

\* The venue's row is locked by one transaction at a time.
OneLocker ==
  \A c, d \in Open :
    VenueOf(c) = VenueOf(d) /\ tx[c].phase # "written" /\ tx[d].phase # "written" => c = d

\* The reviews a transaction sees: the committed ones and its own.
Seen(c) == [review EXCEPT ![tx[c].key] = tx[c].row]

\* What a transaction has counted is still what it would count, and it skipped
\* a venue only because its rating is still pinned.
Stands(c) ==
  LET v == VenueOf(c) IN
  /\ tx[c].phase = "counted" =>
       /\ ~rating[v].manual
       /\ tx[c].value = AvgAndCount(StarsOf(Seen(c), Approved(Seen(c), v), v))
  /\ tx[c].phase = "skipped" => rating[v].manual
CountsStand == \A c \in Open : Stands(c)

\* A rating that follows the reviews is what they say.
RatingFollows ==
  \A v \in Venues : ~rating[v].manual /\ rating[v].by = "reviews" => rating[v].value = summary(v)

RatingInv == TypeOK /\ OneLocker /\ CountsStand /\ PinHolds /\ RatingFollows

-----------------------------------------------------------------------------
(* What the reviews say of a venue *)

\* No reviews: nothing to add up, nothing to count.
LEMMA NoReviews ==
  ASSUME NEW stars, DOMAIN stars = {}
  PROVE  AvgAndCount(stars) = [sum |-> 0, count |-> 0]
<1> DEFINE R(it) == [s \in SUBSET {} |-> IF s = {} THEN 0 ELSE
                       LET x == CHOOSE y \in s : TRUE IN stars[x] + it[s \ {x}]]
<1> DEFINE f == [s \in SUBSET {} |-> 0]
<1> DEFINE g == CHOOSE it : it = R(it)
<1>1. f = R(f)
  OBVIOUS
<1>2. g = R(g)
  BY <1>1
<1>3. g[{}] = 0
  BY <1>2
<1>4. Cardinality({}) = 0
  BY FS_EmptySet
<1> QED
  BY <1>3, <1>4 DEF AvgAndCount, FoldFunction, FoldFunctionOnSet, MapThenFoldSet

\* The figures of a venue depend on the reviews of that venue alone.
LEMMA OwnReviewsCount ==
  ASSUME NEW rows \in [Keys -> Rows], NEW others \in [Keys -> Rows], NEW v \in Venues,
         \A u \in Users : rows[<<u, v>>] = others[<<u, v>>]
  PROVE  StarsOf(rows, Approved(rows, v), v) = StarsOf(others, Approved(others, v), v)
<1>1. Approved(rows, v) = Approved(others, v)
  BY DEF Approved, Live
<1>2. \A u \in Approved(rows, v) : rows[<<u, v>>].stars = others[<<u, v>>].stars
  BY DEF Approved, Live
<1> QED  BY <1>1, <1>2 DEF StarsOf

\* They are figures of some of the users.
LEMMA FiguresOf ==
  ASSUME NEW rows \in [Keys -> Rows], NEW v \in Venues, NEW S \in SUBSET Live(rows, v)
  PROVE  AvgAndCount(StarsOf(rows, S, v)) \in Figures
<1>1. S \in SUBSET Users
  BY DEF Live
<1>2. \A u \in S : rows[<<u, v>>].stars \in Stars
  BY <1>1 DEF Live, Rows, Keys
<1>3. StarsOf(rows, S, v) \in [S -> Stars]
  BY <1>2 DEF StarsOf
<1> QED  BY <1>1, <1>3 DEF Figures

\* A count stands while nobody writes the venue or its reviews.
LEMMA StandsKept ==
  ASSUME NEW c \in Writers, Stands(c), tx'[c] = tx[c], UNCHANGED <<review, rating>>
  PROVE  Stands(c)'
<1>1. VenueOf(c)' = VenueOf(c) /\ Seen(c)' = Seen(c)
  BY DEF VenueOf, Seen
<1>2. Approved(Seen(c), VenueOf(c))' = Approved(Seen(c), VenueOf(c))
  BY <1>1 DEF Approved, Live
<1> QED  BY <1>1, <1>2 DEF Stands

LEMMA RatingStarts == ReviewsAssumption /\ ReviewsInit => RatingInv
<1> SUFFICES ASSUME ReviewsAssumption, ReviewsInit PROVE RatingInv
  OBVIOUS
<1> DEFINE zero == [sum |-> 0, count |-> 0]
<1>1. \A v \in Venues : StarsOf(review, Approved(review, v), v) = [u \in {} |-> 0]
  BY DEF ReviewsInit, StarsOf, Approved, Live, Keys
<1>2. AvgAndCount([u \in {} |-> 0]) = zero
  BY NoReviews
<1>3. zero \in Figures
  <2>1. [u \in {} |-> 0] \in [{} -> Stars]
    OBVIOUS
  <2> QED  BY <2>1, <1>2 DEF Figures
<1>4. TypeOK
  <2> DEFINE own == [value |-> zero, manual |-> FALSE, by |-> "reviews"]
  <2> DEFINE pinned == {[value |-> p, manual |-> TRUE, by |-> "admin"] : p \in Pins}
  <2>1. own \in Ratings /\ pinned \subseteq Ratings
    <3>1. own \in Ratings
      BY <1>3 DEF Ratings
    <3>2. \A p \in Pins : [value |-> p, manual |-> TRUE, by |-> "admin"] \in Ratings
      BY DEF Ratings
    <3> QED  BY <3>1, <3>2
  <2>2. rating \in [Venues -> {own} \cup pinned]
    BY DEF ReviewsInit
  <2>3. rating \in [Venues -> Ratings]
    <3> HIDE DEF own, pinned
    <3> QED  BY <2>1, <2>2
  <2> QED  BY <2>3 DEF ReviewsInit, TypeOK, Rows
<1>5. OneLocker /\ CountsStand
  BY DEF ReviewsInit, OneLocker, CountsStand, Open
<1>6. PinHolds
  BY DEF ReviewsInit, PinHolds
<1>7. RatingFollows
  <2> SUFFICES ASSUME NEW v \in Venues, ~rating[v].manual PROVE rating[v].value = summary(v)
    BY DEF RatingFollows
  <2>1. rating[v].value = zero
    BY DEF ReviewsInit
  <2> QED  BY <2>1, <1>1, <1>2 DEF summary
<1> QED  BY <1>4, <1>5, <1>6, <1>7 DEF RatingInv

-----------------------------------------------------------------------------
(* The statements of a transaction *)

\* Opening a transaction.
LEMMA RequestStep ==
  ASSUME RatingInv, NEW c \in Writers, ReviewRequest(c), \A k \in Keys : ~checkStayed(c, k)
  PROVE  RatingInv'
<1>1. PICK k \in Keys, new \in Rows, inserts \in BOOLEAN : Write(c, k, new, inserts)
  <2>1. \A k \in Keys, s \in Stars, t \in Statuses : Review(s, t) \in Rows
    BY DEF Review, Rows
  <2>2. ASSUME NEW k \in Keys, review[k] # Nothing
        PROVE  review[k].stars \in Stars /\ review[k].status \in Statuses
    BY <2>2 DEF RatingInv, TypeOK, Rows
  <2> QED
    BY <2>1, <2>2, Zenon DEF ReviewRequest, create, adminCreate, adminUpdate, adminUpdateStatus,
       adminDelete, delete, Rows, Statuses
<1>2. c \notin Open
  BY <1>1 DEF Write, Open
<1>3. \A d \in Writers \ {c} : tx'[d] = tx[d]
  BY <1>1 DEF Write, RatingInv, TypeOK
<1>4. TypeOK' /\ tx'[c].phase = "written"
  BY <1>1 DEF Write, RatingInv, TypeOK, Txs, Phases
<1>5. OneLocker'
  BY <1>3, <1>4 DEF RatingInv, OneLocker, Open, VenueOf
<1>6. CountsStand'
  <2>1. ASSUME NEW d \in Open', d # c PROVE Stands(d)'
    BY <1>1, <1>3, <2>1, StandsKept DEF RatingInv, CountsStand, Open, Write
  <2>2. Stands(c)'
    BY <1>4 DEF Stands
  <2> QED  BY <2>1, <2>2 DEF CountsStand
<1>7. PinHolds' /\ RatingFollows'
  BY <1>1 DEF RatingInv, PinHolds, RatingFollows, Write, summary, Approved, Live
<1> QED  BY <1>4, <1>5, <1>6, <1>7 DEF RatingInv

LEMMA LockStep ==
  ASSUME RatingInv, NEW c \in Writers, LockVenue(c)
  PROVE  RatingInv'
<1> USE DEF LockVenue
<1>1. \A d \in Writers \ {c} : tx'[d] = tx[d]
  BY DEF RatingInv, TypeOK
<1>2. tx[c] \in Txs /\ tx'[c] = [tx[c] EXCEPT !.phase = "locked"]
  BY DEF RatingInv, TypeOK, Open
<1>3. TypeOK'
  BY <1>2 DEF RatingInv, TypeOK, Txs, Phases
<1>4. \A d \in Open' : d \in Open /\ VenueOf(d)' = VenueOf(d)
  BY <1>1, <1>2 DEF Open, VenueOf, Txs
<1>5. OneLocker'
  BY <1>1, <1>4 DEF RatingInv, OneLocker, Lockers
<1>6. CountsStand'
  <2>1. ASSUME NEW d \in Open', d # c PROVE Stands(d)'
    BY <1>1, <1>4, <2>1, StandsKept DEF RatingInv, CountsStand, Open
  <2>2. Stands(c)'
    BY <1>2 DEF Stands, Txs
  <2> QED  BY <2>1, <2>2 DEF CountsStand
<1>7. PinHolds' /\ RatingFollows'
  BY DEF RatingInv, PinHolds, RatingFollows, summary, Approved, Live
<1> QED  BY <1>3, <1>5, <1>6, <1>7 DEF RatingInv

LEMMA RollbackStep ==
  ASSUME RatingInv, NEW c \in Writers, Rollback(c)
  PROVE  RatingInv'
<1> USE DEF Rollback
<1>1. \A d \in Open' : d \in Open /\ tx'[d] = tx[d]
  BY DEF RatingInv, TypeOK, Open
<1>2. TypeOK'
  BY DEF RatingInv, TypeOK
<1>3. OneLocker'
  BY <1>1 DEF RatingInv, OneLocker, VenueOf
<1>4. CountsStand'
  BY <1>1, StandsKept DEF RatingInv, CountsStand, Open
<1>5. PinHolds' /\ RatingFollows'
  BY DEF RatingInv, PinHolds, RatingFollows, summary, Approved, Live
<1> QED  BY <1>2, <1>3, <1>4, <1>5 DEF RatingInv

LEMMA RecalcStep ==
  ASSUME RatingInv, NEW c \in Writers, recalcRating(c)
  PROVE  RatingInv'
<1>0. tx[c] \in Txs /\ VenueOf(c) \in Venues
  BY DEF recalcRating, RatingInv, TypeOK, Open, Txs, Keys, VenueOf
<1>v. PICK v \in Venues : v = VenueOf(c)
  BY <1>0
<1>1. PICK figures, phase :
        /\ v = VenueOf(c) /\ tx[c] \in Txs
        /\ figures = AvgAndCount(StarsOf(Seen(c), Approved(Seen(c), v), v))
        /\ phase = IF rating[v].manual THEN "skipped" ELSE "counted"
  BY <1>0, <1>v
<1>2. figures \in Figures
  <2>1. Seen(c) \in [Keys -> Rows]
    BY <1>1 DEF RatingInv, TypeOK, Seen, Txs
  <2>2. Approved(Seen(c), v) \in SUBSET Live(Seen(c), v)
    BY DEF Approved
  <2> QED  BY <1>1, <2>1, <2>2, FiguresOf
<1>3. /\ tx' = [tx EXCEPT ![c].phase = phase, ![c].value = figures]
      /\ UNCHANGED <<review, rating, clearing>> /\ c \in Open /\ tx[c].phase = "locked"
  BY <1>1 DEF recalcRating, Seen
<1>4. \A d \in Writers \ {c} : tx'[d] = tx[d]
  BY <1>3 DEF RatingInv, TypeOK
<1>5. /\ tx'[c] = [tx[c] EXCEPT !.phase = phase, !.value = figures]
      /\ tx'[c].phase = phase /\ tx'[c].value = figures
      /\ tx'[c].key = tx[c].key /\ tx'[c].row = tx[c].row
  <2>1. tx'[c] = [tx[c] EXCEPT !.phase = phase, !.value = figures]
    BY <1>3 DEF RatingInv, TypeOK
  <2> QED  BY <1>1, <2>1 DEF Txs
<1>6. phase \in {"counted", "skipped"}
  BY <1>1
<1>7. TypeOK'
  BY <1>1, <1>2, <1>3, <1>5, <1>6 DEF RatingInv, TypeOK, Txs, Phases
<1>8. \A d \in Open' :
        d \in Open /\ VenueOf(d)' = VenueOf(d) /\ (tx'[d].phase # "written" => tx[d].phase # "written")
  BY <1>3, <1>4, <1>5 DEF Open, VenueOf
<1>9. OneLocker'
  BY <1>8 DEF RatingInv, OneLocker
<1>10. CountsStand'
  <2>1. ASSUME NEW d \in Open', d # c PROVE Stands(d)'
    BY <1>3, <1>4, <1>8, <2>1, StandsKept DEF RatingInv, CountsStand, Open
  <2>2. Stands(c)'
    <3>1. VenueOf(c)' = v /\ Seen(c)' = Seen(c) /\ tx'[c].phase = phase /\ tx'[c].value = figures
      BY <1>1, <1>3, <1>5 DEF VenueOf, Seen
    <3>2. Approved(Seen(c), VenueOf(c))' = Approved(Seen(c), v)
      BY <3>1 DEF Approved, Live
    <3>3. figures = AvgAndCount(StarsOf(Seen(c)', Approved(Seen(c), VenueOf(c))', VenueOf(c)'))
      BY <1>1, <3>1, <3>2
    <3>4. rating' = rating /\ (phase = "skipped" <=> rating[v].manual)
      BY <1>1, <1>3
    <3>5. phase = "counted" => ~rating[v].manual
      BY <1>1
    <3> QED  BY <3>1, <3>3, <3>4, <3>5 DEF Stands
  <2> QED  BY <2>1, <2>2 DEF CountsStand
<1>11. PinHolds' /\ RatingFollows'
  BY <1>3 DEF RatingInv, PinHolds, RatingFollows, summary, Approved, Live
<1> QED  BY <1>7, <1>9, <1>10, <1>11 DEF RatingInv

\* A commit publishes the row and the figures that go with it; every other
\* transaction that has counted has counted another venue.
LEMMA CommitStep ==
  ASSUME RatingInv, NEW c \in Writers, Commit(c)
  PROVE  RatingInv'
<1> USE DEF Commit
<1>0. tx[c] \in Txs /\ VenueOf(c) \in Venues
  BY DEF RatingInv, TypeOK, Open, Txs, Keys, VenueOf
<1>v. PICK v \in Venues : v = VenueOf(c)
  BY <1>0
<1>1. /\ tx[c] \in Txs /\ v \in Venues /\ c \in Open /\ review' = Seen(c)
      /\ tx[c].key \in Keys /\ tx[c].row \in Rows /\ v = tx[c].key[2]
  BY <1>0, <1>v DEF Open, Txs, Keys, VenueOf, Seen
<1>2. \A d \in Open' : d \in Open /\ d # c /\ tx'[d] = tx[d]
  BY DEF RatingInv, TypeOK, Open
<1>3. review' \in [Keys -> Rows]
  BY <1>1 DEF RatingInv, TypeOK, Seen
<1>4. \A w \in Venues \ {v}, u \in Users : review'[<<u, w>>] = review[<<u, w>>]
  BY <1>1 DEF RatingInv, TypeOK, Seen, Keys
<1>5. \A w \in Venues \ {v} : rating'[w] = rating[w]
  BY <1>v DEF RatingInv, TypeOK
<1>6. \/ rating'[v] = rating[v] /\ rating[v].manual /\ rating' = rating
      \/ ~rating[v].manual /\ ~rating'[v].manual /\ rating' \in [Venues -> Ratings] /\ rating'[v].value = summary(v)'
  <2>1. Stands(c)
    BY <1>1 DEF RatingInv, CountsStand
  <2>2. CASE tx[c].phase = "skipped"
    BY <1>v, <2>1, <2>2 DEF Stands
  <2>3. CASE tx[c].phase = "counted"
    <3>1. tx[c].value = AvgAndCount(StarsOf(Seen(c), Approved(Seen(c), v), v)) /\ ~rating[v].manual
      BY <1>v, <2>1, <2>3 DEF Stands
    <3>2. tx[c].value \in Figures
      <4>1. Approved(Seen(c), v) \in SUBSET Live(Seen(c), v)
        BY DEF Approved
      <4>2. Seen(c) \in [Keys -> Rows]
        BY <1>1, <1>3
      <4>3. AvgAndCount(StarsOf(Seen(c), Approved(Seen(c), v), v)) \in Figures
        BY <4>1, <4>2, FiguresOf
      <4> QED  BY <3>1, <4>3
    <3>3. rating' = [rating EXCEPT ![v].value = tx[c].value, ![v].by = "reviews"]
      BY <1>v, <2>3
    <3>4. rating'[v] = [rating[v] EXCEPT !.value = tx[c].value, !.by = "reviews"]
      BY <3>3, <1>1 DEF RatingInv, TypeOK
    <3>5. rating[v] \in Ratings /\ rating'[v] \in Ratings /\ ~rating'[v].manual
      BY <1>1, <3>1, <3>2, <3>4 DEF RatingInv, TypeOK, Ratings
    <3>6. rating' \in [Venues -> Ratings]
      BY <3>3, <3>4, <3>5 DEF RatingInv, TypeOK
    <3>7. Approved(review, v)' = Approved(Seen(c), v)
      BY <1>1 DEF Approved, Live
    <3>8. summary(v)' = tx[c].value
      BY <1>1, <3>1, <3>7 DEF summary
    <3>9. rating'[v].value = summary(v)'
      BY <3>4, <3>5, <3>8 DEF Ratings
    <3> QED  BY <3>1, <3>5, <3>6, <3>9
  <2> QED  BY <2>2, <2>3
<1>7. TypeOK'
  BY <1>3, <1>6 DEF RatingInv, TypeOK
<1>8. OneLocker'
  BY <1>2 DEF RatingInv, OneLocker, VenueOf
<1>9. CountsStand'
  <2> SUFFICES ASSUME NEW d \in Open', tx[d].phase # "written" PROVE Stands(d)'
    BY <1>2 DEF CountsStand, Stands
  <2> DEFINE w == VenueOf(d)
  <2>1. d \in Open /\ d # c /\ tx'[d] = tx[d] /\ w \in Venues /\ tx[d] \in Txs /\ Stands(d)
    BY <1>2 DEF RatingInv, TypeOK, Open, VenueOf, Txs, Keys, CountsStand
  <2>2. w # v
    <3>1. tx[c].phase # "written"
      OBVIOUS
    <3> QED  BY <1>1, <1>v, <2>1, <3>1, Zenon DEF RatingInv, OneLocker
  <2>3. Seen(d) \in [Keys -> Rows] /\ Seen(d)' \in [Keys -> Rows]
    BY <1>3, <2>1 DEF RatingInv, TypeOK, Seen, Txs
  <2>4. \A u \in Users : Seen(d)'[<<u, w>>] = Seen(d)[<<u, w>>]
    BY <1>3, <1>4, <2>1, <2>2 DEF RatingInv, TypeOK, Seen, Keys
  <2>5. StarsOf(Seen(d)', Approved(Seen(d)', w), w) = StarsOf(Seen(d), Approved(Seen(d), w), w)
    BY <2>1, <2>3, <2>4, OwnReviewsCount
  <2>6. VenueOf(d)' = w /\ rating'[w] = rating[w]
    BY <1>5, <2>1, <2>2 DEF VenueOf
  <2>7. Approved(Seen(d), VenueOf(d))' = Approved(Seen(d)', w)
    BY <2>6 DEF Approved, Live
  <2> QED  BY <2>1, <2>5, <2>6, <2>7 DEF Stands
<1>10. PinHolds'
  BY <1>1, <1>5, <1>6 DEF RatingInv, PinHolds
<1>11. RatingFollows'
  <2> SUFFICES ASSUME NEW w \in Venues, ~rating'[w].manual, rating'[w].by = "reviews"
               PROVE  rating'[w].value = summary(w)'
    BY DEF RatingFollows
  <2>1. CASE w = v
    BY <1>6, <2>1
  <2>2. CASE w # v
    <3>1. StarsOf(review', Approved(review', w), w) = StarsOf(review, Approved(review, w), w)
      BY <1>3, <1>4, <2>2, OwnReviewsCount DEF RatingInv, TypeOK
    <3>2. Approved(review, w)' = Approved(review', w)
      BY DEF Approved, Live
    <3>3. rating[w].value = summary(w)
      BY <1>5, <2>2 DEF RatingInv, RatingFollows
    <3> QED  BY <1>5, <2>2, <3>1, <3>2, <3>3 DEF summary
  <2> QED  BY <2>1, <2>2
<1> QED  BY <1>7, <1>8, <1>9, <1>10, <1>11 DEF RatingInv

-----------------------------------------------------------------------------
(* The rating routes, and the bookings *)

LEMMA SetRatingStep ==
  ASSUME RatingInv, NEW v \in Venues, NEW pin \in Pins, setRating(v, pin)
  PROVE  RatingInv'
<1> USE DEF setRating
<1>1. rating' \in [Venues -> Ratings]
  <2>1. [value |-> pin, manual |-> TRUE, by |-> "admin"] \in Ratings
    BY DEF Ratings
  <2> QED  BY <2>1 DEF RatingInv, TypeOK
<1>2. TypeOK' /\ OneLocker'
  BY <1>1 DEF RatingInv, TypeOK, OneLocker, Open, VenueOf
<1>3. rating'[v].manual /\ rating'[v].by = "admin" /\ \A w \in Venues \ {v} : rating'[w] = rating[w]
  BY DEF RatingInv, TypeOK
<1>4. CountsStand'
  <2> SUFFICES ASSUME NEW d \in Open PROVE Stands(d)'
    BY DEF CountsStand, Open
  <2>1. Stands(d) /\ VenueOf(d) \in Venues
    BY DEF RatingInv, CountsStand, TypeOK, Open, VenueOf, Txs, Keys
  <2>2. tx[d].phase = "written" \/ VenueOf(d) # v
    BY DEF Lockers
  <2>3. VenueOf(d)' = VenueOf(d) /\ Seen(d)' = Seen(d)
    BY DEF VenueOf, Seen
  <2>4. Approved(Seen(d), VenueOf(d))' = Approved(Seen(d), VenueOf(d))
    BY <2>3 DEF Approved, Live
  <2> QED  BY <1>3, <2>1, <2>2, <2>3, <2>4 DEF Stands
<1>5. PinHolds' /\ RatingFollows'
  BY <1>3 DEF RatingInv, PinHolds, RatingFollows, summary, Approved, Live
<1> QED  BY <1>2, <1>4, <1>5 DEF RatingInv

LEMMA StartClearStep ==
  ASSUME RatingInv, NEW v \in Venues, StartClear(v)
  PROVE  RatingInv'
<1>1. AvgAndCount(StarsOf(review, Live(review, v), v)) \in Figures
  BY FiguresOf DEF RatingInv, TypeOK
<1>2. TypeOK'
  BY <1>1 DEF StartClear, RatingInv, TypeOK
<1>3. OneLocker'
  BY DEF StartClear, RatingInv, OneLocker, Open, VenueOf
<1>4. CountsStand'
  BY StandsKept DEF StartClear, RatingInv, CountsStand, Open
<1>5. PinHolds' /\ RatingFollows'
  BY DEF StartClear, RatingInv, PinHolds, RatingFollows, summary, Approved, Live
<1> QED  BY <1>2, <1>3, <1>4, <1>5 DEF RatingInv

LEMMA ClearRatingStep ==
  ASSUME RatingInv, NEW v \in Venues, clearRating(v)
  PROVE  RatingInv'
<1> USE DEF clearRating
<1>1. rating' \in [Venues -> Ratings] /\ clearing' \in [Venues -> Figures \cup {Nothing}]
  <2>1. [value |-> clearing[v], manual |-> FALSE, by |-> "clear"] \in Ratings
    BY DEF RatingInv, TypeOK, Ratings
  <2> QED  BY <2>1 DEF RatingInv, TypeOK
<1>2. TypeOK' /\ OneLocker'
  BY <1>1 DEF RatingInv, TypeOK, OneLocker, Open, VenueOf
<1>3. ~rating'[v].manual /\ rating'[v].by = "clear" /\ \A w \in Venues \ {v} : rating'[w] = rating[w]
  BY DEF RatingInv, TypeOK
<1>4. CountsStand'
  <2> SUFFICES ASSUME NEW d \in Open PROVE Stands(d)'
    BY DEF CountsStand, Open
  <2>1. Stands(d) /\ VenueOf(d) \in Venues
    BY DEF RatingInv, CountsStand, TypeOK, Open, VenueOf, Txs, Keys
  <2>2. tx[d].phase = "written" \/ VenueOf(d) # v
    BY DEF Lockers
  <2>3. VenueOf(d)' = VenueOf(d) /\ Seen(d)' = Seen(d)
    BY DEF VenueOf, Seen
  <2>4. Approved(Seen(d), VenueOf(d))' = Approved(Seen(d), VenueOf(d))
    BY <2>3 DEF Approved, Live
  <2> QED  BY <1>3, <2>1, <2>2, <2>3, <2>4 DEF Stands
<1>5. PinHolds' /\ RatingFollows'
  BY <1>3 DEF RatingInv, PinHolds, RatingFollows, summary, Approved, Live
<1> QED  BY <1>2, <1>4, <1>5 DEF RatingInv

\* Steps that touch neither reviews nor ratings.
LEMMA OtherStep ==
  ASSUME RatingInv, UNCHANGED <<review, rating, tx, clearing>>
  PROVE  RatingInv'
<1>1. TypeOK' /\ OneLocker'
  BY DEF RatingInv, TypeOK, OneLocker, Open, VenueOf
<1>2. CountsStand'
  BY StandsKept DEF RatingInv, CountsStand, Open
<1>3. PinHolds' /\ RatingFollows'
  BY DEF RatingInv, PinHolds, RatingFollows, summary, Approved, Live
<1> QED  BY <1>1, <1>2, <1>3 DEF RatingInv

-----------------------------------------------------------------------------

LEMMA RatingKept == RatingInv /\ [ReviewsNext]_reviewVars => RatingInv'
<1> SUFFICES ASSUME RatingInv, [ReviewsNext]_reviewVars PROVE RatingInv'
  OBVIOUS
<1>1. ASSUME NEW c \in Writers, ReviewRequest(c) PROVE RatingInv'
  <2>1. CASE \E k \in Keys : checkStayed(c, k)
    BY <2>1, OtherStep DEF checkStayed
  <2> QED  BY <1>1, <2>1, RequestStep
<1>2. ASSUME NEW c \in Writers, Statement(c) PROVE RatingInv'
  BY <1>2, LockStep, RecalcStep, CommitStep, RollbackStep DEF Statement
<1>3. ASSUME NEW v \in Venues, NEW p \in Pins, setRating(v, p) PROVE RatingInv'
  BY <1>3, SetRatingStep
<1>4. ASSUME NEW v \in Venues, StartClear(v) PROVE RatingInv'
  BY <1>4, StartClearStep
<1>5. ASSUME NEW v \in Venues, clearRating(v) PROVE RatingInv'
  BY <1>5, ClearRatingStep
<1>6. CASE UNCHANGED reviewVars
  BY <1>6, OtherStep DEF reviewVars
<1> QED  BY <1>1, <1>2, <1>3, <1>4, <1>5, <1>6 DEF ReviewsNext

\* The number on the card is the number of reviews its page lists.
LEMMA InvTells == RatingInv => RatingTells
<1> SUFFICES ASSUME RatingInv PROVE RatingTells
  OBVIOUS
<1>1. \A v \in Venues : summary(v).count = Cardinality(listForFacility(v))
  <2> TAKE v \in Venues
  <2>1. DOMAIN StarsOf(review, Approved(review, v), v) = Approved(review, v)
    BY DEF StarsOf
  <2>2. \A stars : AvgAndCount(stars).count = Cardinality(DOMAIN stars)
    BY DEF AvgAndCount
  <2>3. Approved(review, v) = listForFacility(v)
    BY DEF Approved, listForFacility
  <2> QED  BY <2>1, <2>2, <2>3 DEF summary
<1> QED  BY <1>1 DEF RatingInv, RatingTells, PinHolds, CardMatches, RatingFollows

\* A pinned rating is the admin's, and a rating that a review's transaction wrote
\* last is the average and the number of the approved reviews, whatever is posted,
\* moderated and deleted at the same time (recalcRating in
\* internal/review/handler/handler.go).  Of a rating handed back it says nothing
\* until the next such transaction: clearRating counts other reviews.
THEOREM RatingIsTold == ReviewsSpec => []RatingTells
<1>1. ReviewsInit => RatingInv
  BY RatingStarts, ReviewsAssumption
<1> QED  BY <1>1, RatingKept, InvTells, PTL DEF ReviewsSpec

\* Only one transaction at a time holds a venue's row and what it counted there
\* still stands (the SELECT ... FOR UPDATE of recalcRating).
THEOREM CountsAreCurrent == ReviewsSpec => [](OneLocker /\ CountsStand)
<1>1. ReviewsInit => RatingInv
  BY RatingStarts, ReviewsAssumption
<1>2. RatingInv => OneLocker /\ CountsStand
  BY DEF RatingInv
<1> QED  BY <1>1, <1>2, RatingKept, PTL DEF ReviewsSpec

--------------------------------------------------------------------------------
(* The gallery *)

\* The objects the store has written for m; Own(m, u): u is the url of one of them.
Own(m, u) == \E n \in 1 .. puts[m] : u = <<m, n>>
Stored(m, u) == u \in store /\ Own(m, u)
UrlOf(m, u) == u = None \/ u = Link(m) \/ Own(m, u)
HasBytes(m) == m \in spool \/ \E n \in 1 .. puts[m] : <<m, n>> \in store

\* A file whose row its request has not committed yet, and all the others.
Uncommitted(c) ==
  call[c] # Idle /\ call[c].op = "add" /\ call[c].pc \in {"clear", "lock", "insert"}
Announced == used \ {call[c].img : c \in {d \in Calls : Uncommitted(d)}}

Shapes ==
  /\ DOMAIN row = Media /\ DOMAIN call = Calls /\ DOMAIN lock = Calls
  /\ puts \in [Media -> Nat] /\ used \subseteq Media
  /\ \A m \in Media : row[m] # None => DOMAIN row[m] = {"status", "url", "cover", "sort"}
  /\ \A c \in Calls : call[c] # Idle =>
       DOMAIN call[c] = {"op", "pc", "img", "cover", "url", "todo"}
  /\ DOMAIN worker = {"pc", "img", "attempt", "url"}

RowOK(m) ==
  /\ m \in used
  /\ UrlOf(m, row[m].url)
  /\ row[m].status = "READY" => row[m].url = Link(m) \/ Stored(m, row[m].url)
  /\ row[m].url # Link(m) => HasBytes(m)
RowsKept == \A m \in Media : row[m] # None => RowOK(m)

Sending == {"queue", "inline", "unspool", "ready", "failed"}

\* What a request knows of the file it adds.
AddOK(c) ==
  /\ call[c].img \in used
  /\ UrlOf(call[c].img, call[c].url)
  /\ call[c].pc \in {"clear", "lock", "insert"} \cup Sending
  /\ Uncommitted(c) =>
       /\ row[call[c].img] = None
       /\ call[c].url = None => call[c].img \in spool
       /\ call[c].url \in {None, Link(call[c].img)} \cup store
  /\ call[c].pc \in {"unspool", "ready"} /\ row[call[c].img] # None =>
       Stored(call[c].img, call[c].url)

DeleteOK(c) ==
  /\ call[c].pc = "remove"
  /\ call[c].img \in Announced /\ row[call[c].img] = None
  /\ UrlOf(call[c].img, call[c].url)

CallOK(c) ==
  /\ call[c].op \in {"add", "cover", "reorder", "delete"}
  /\ call[c].op = "add" => AddOK(c)
  /\ call[c].op = "delete" => DeleteOK(c)
  /\ call[c].pc \in {"insert"} \cup Sending => call[c].op = "add"
  /\ call[c].pc = "remove" => call[c].op = "delete"
CallsKept == \A c \in Calls : call[c] # Idle => CallOK(c)

AddsApart ==
  \A c, d \in Calls :
    /\ call[c] # Idle /\ call[c].op = "add"
    /\ call[d] # Idle /\ call[d].op = "add"
    /\ call[c].img = call[d].img
    => c = d

LocksKept ==
  \A c \in Calls : \A m \in lock[c] \cap Media :
    row[m] # None /\ \A d \in Calls : m \in lock[d] => d = c

EventsKept ==
  /\ topic \in Seq(Announced)
  /\ worker.pc # "fetch" => topic # <<>> /\ worker.img \in Announced
  /\ worker.pc \in {"ready", "unspool"} /\ row[worker.img] # None => Stored(worker.img, worker.url)

GalleryInv == Shapes /\ RowsKept /\ CallsKept /\ AddsApart /\ LocksKept /\ EventsKept

--------------------------------------------------------------------------------
(* Files and calls that a step leaves alone *)

\* What was written stays written, under the same names.
Grow == /\ puts' \in [Media -> Nat] /\ \A x \in Media : puts[x] <= puts'[x]
        /\ store \subseteq store'

\* A url that was good stays good while files only come.
LEMMA UrlsStay ==
  ASSUME Shapes, Grow
  PROVE  \A x \in Media : \A u : /\ Own(x, u) => Own(x, u)'
                                 /\ Stored(x, u) => Stored(x, u)'
                                 /\ UrlOf(x, u) => UrlOf(x, u)'
<1>1. \A x \in Media : 1 .. puts[x] \subseteq 1 .. puts'[x]
  BY DEF Shapes, Grow
<1>2. \A x \in Media : \A u : Own(x, u) => Own(x, u)'
  BY <1>1 DEF Own
<1> QED
  BY <1>2 DEF Stored, UrlOf, Grow, Link

\* Bytes that are somewhere stay there while files only come.
LEMMA BytesStay ==
  ASSUME Shapes, Grow, NEW x \in Media, x \in spool => x \in spool', HasBytes(x)
  PROVE  HasBytes(x)'
<1>1. 1 .. puts[x] \subseteq 1 .. puts'[x]
  BY DEF Shapes, Grow
<1> QED
  BY <1>1 DEF HasBytes, Grow

\* Store.Put writes under a name of its own and removes nothing.
LEMMA PutGrows ==
  ASSUME Shapes, NEW m \in Media, Put(m), NEW u, u = <<m, puts[m] + 1>>
  PROVE  Grow /\ Stored(m, u)' /\ HasBytes(m)'
<1>1. puts[m] + 1 \in 1 .. puts'[m] /\ <<m, puts[m] + 1>> \in store'
  BY DEF Shapes, Put
<1>2. Grow
  BY DEF Grow, Shapes, Put
<1> QED
  BY <1>1, <1>2 DEF Stored, Own, HasBytes

\* Leaving the store alone is a special case.
LEMMA NothingWritten ==
  ASSUME Shapes, UNCHANGED <<puts, store>>
  PROVE  Grow
BY DEF Grow, Shapes

\* So rows nobody touches stay good.
LEMMA RowsStay ==
  ASSUME Shapes, RowsKept, Grow, row' = row, used \subseteq used', spool \subseteq spool'
  PROVE  RowsKept'
<1> SUFFICES ASSUME NEW m \in Media, row[m] # None PROVE RowOK(m)'
  BY DEF RowsKept
<1>1. RowOK(m)
  BY DEF RowsKept
<1> QED
  BY <1>1, UrlsStay, BytesStay DEF RowOK, Link

\* A file announced is never taken back: its row was committed once.
LEMMA AnnouncedGrows ==
  ASSUME used \subseteq used',
         \A d \in Calls : Uncommitted(d)' =>
           \/ call'[d].img \notin used
           \/ Uncommitted(d) /\ call'[d].img = call[d].img
  PROVE  Announced \subseteq Announced'
BY DEF Announced

\* A request that adds a file is not disturbed by another's step, as long as the step
\* makes no row of its file and takes nothing out of the spool it still needs ...
LEMMA AddStays ==
  ASSUME Shapes, Grow, used \subseteq used', NEW d \in Calls, call'[d] = call[d], AddOK(d),
         row[call[d].img] = None => row'[call[d].img] = None,
         Uncommitted(d) /\ call[d].img \in spool => call[d].img \in spool'
  PROVE  AddOK(d)'
<1>1. /\ call[d].img \in Media
      /\ UrlOf(call[d].img, call[d].url)'
      /\ Stored(call[d].img, call[d].url) => Stored(call[d].img, call[d].url)'
  BY UrlsStay DEF AddOK, Shapes
<1>2. Uncommitted(d)' = Uncommitted(d) /\ store \subseteq store'
  BY DEF Uncommitted, Grow, Idle
<1> QED
  BY <1>1, <1>2 DEF AddOK, Link

\* ... nor is one that deletes a row, which never comes back ...
LEMMA DeleteStays ==
  ASSUME Shapes, Grow, NEW d \in Calls, call'[d] = call[d], DeleteOK(d),
         row[call[d].img] = None => row'[call[d].img] = None, Announced \subseteq Announced'
  PROVE  DeleteOK(d)'
<1>1. call[d].img \in Media
  BY DEF DeleteOK, Announced, Shapes
<1>2. UrlOf(call[d].img, call[d].url)'
  BY <1>1, UrlsStay DEF DeleteOK
<1> QED
  BY <1>2 DEF DeleteOK

\* ... nor any other.
LEMMA CallStays ==
  ASSUME Shapes, Grow, used \subseteq used', Announced \subseteq Announced',
         NEW d \in Calls, call'[d] = call[d], CallOK(d),
         row[call[d].img] = None => row'[call[d].img] = None,
         Uncommitted(d) /\ call[d].img \in spool => call[d].img \in spool'
  PROVE  CallOK(d)'
<1>1. call[d].op = "add" => AddOK(d)'
  BY AddStays DEF CallOK
<1>2. call[d].op = "delete" => DeleteOK(d)'
  BY DeleteStays DEF CallOK
<1> QED
  BY <1>1, <1>2 DEF CallOK, Sending

\* A sequence over a set is one over every larger set.
LEMMA SeqGrows ==
  ASSUME NEW S, NEW T, S \subseteq T, NEW s \in Seq(S)
  PROVE  s \in Seq(T)
OBVIOUS

\* A write of a row's status and url touches no other row and no other column.
LEMMA WrittenAt ==
  ASSUME Shapes, NEW m, NEW s, NEW u, Written(m, s, u)
  PROVE  /\ DOMAIN row' = Media
         /\ \A x \in Media : x # m \/ row[m] = None => row'[x] = row[x]
         /\ m \in Media /\ row[m] # None =>
              /\ DOMAIN row'[m] = DOMAIN row[m]
              /\ row'[m].status = s /\ row'[m].url = u
BY DEF Written, Shapes

--------------------------------------------------------------------------------
(* The steps of a request *)

\* A new request takes an id nobody has used.
LEMMA ReceiveKeeps ==
  ASSUME GalleryInv, NEW c \in Calls, NEW m \in Media, NEW cover \in BOOLEAN, Receive(c, m, cover)
  PROVE  GalleryInv'
<1> DEFINE uncommitted == {"clear", "lock", "insert"}
<1>a. PICK u : /\ Received(c, m, cover, u)
               /\ Grow /\ spool \subseteq spool'
               /\ UrlOf(m, u)' /\ (u = None => m \in spool') /\ u \in {None, Link(m)} \cup store'
  <2>1. CASE SpoolUpload(m) /\ Received(c, m, cover, None)
    BY <2>1, NothingWritten DEF SpoolUpload, UrlOf, GalleryInv
  <2>2. CASE SaveUpload(m) /\ Received(c, m, cover, <<m, puts[m] + 1>>)
    <3>1. PICK u : u = <<m, puts[m] + 1>>
      OBVIOUS
    <3>2. u # None
      BY <3>1, UploadsAssumption DEF GalleryInv, Shapes
    <3> QED
      BY <2>2, <3>1, <3>2, PutGrows DEF SaveUpload, UrlOf, Stored, GalleryInv
  <2>3. CASE UNCHANGED files /\ Received(c, m, cover, Link(m))
    <3>1. Link(m) # None
      BY UploadsAssumption DEF Link
    <3> QED
      BY <2>3, <3>1, NothingWritten DEF files, UrlOf, GalleryInv, Link
  <2> QED
    BY <2>1, <2>2, <2>3 DEF Receive
<1>b. /\ m \notin used /\ used' = used \cup {m} /\ call[c] = Idle /\ c \in DOMAIN call
      /\ row' = row /\ lock' = lock /\ topic' = topic /\ worker' = worker
  BY DEF Receive, broker, GalleryInv, Shapes
<1>c. PICK a : /\ a.op = "add" /\ a.pc \in {"clear", "insert"} /\ a.img = m /\ a.url = u
               /\ DOMAIN a = {"op", "pc", "img", "cover", "url", "todo"}
               /\ call' = [call EXCEPT ![c] = a]
  BY <1>a DEF Received
<1>d. \A d \in Calls : call'[d] = IF d = c THEN a ELSE call[d]
  BY <1>b, <1>c DEF GalleryInv, Shapes
<1>e. Announced \subseteq Announced'
  BY <1>b, <1>c, <1>d DEF Announced, Uncommitted
<1>1. Shapes'
  BY <1>a, <1>b, <1>c DEF GalleryInv, Shapes, Grow
<1>2. RowsKept'
  BY <1>a, <1>b, RowsStay DEF GalleryInv
<1>3. CallsKept'
  <2> SUFFICES ASSUME NEW d \in Calls, call'[d] # Idle PROVE CallOK(d)'
    BY DEF CallsKept, Idle
  <2>1. CASE d = c
    <3>1. row[m] = None
      BY <1>b DEF GalleryInv, RowsKept, RowOK
    <3> QED
      BY <1>a, <1>b, <1>c, <1>d, <2>1, <3>1 DEF CallOK, AddOK, Uncommitted, Sending, Link
  <2>2. CASE d # c
    BY <1>a, <1>b, <1>d, <1>e, <2>2, CallStays DEF GalleryInv, CallsKept, Idle
  <2> QED
    BY <2>1, <2>2
<1>4. AddsApart'
  BY <1>b, <1>c, <1>d DEF GalleryInv, AddsApart, CallsKept, CallOK, AddOK, Idle
<1>5. LocksKept'
  BY DEF Receive, files, broker, Idle, Put, Received, SpoolUpload, SaveUpload, Link, GalleryInv,
  Shapes, LocksKept
<1>6. EventsKept'
  BY <1>a, <1>b, <1>e, SeqGrows, UrlsStay DEF GalleryInv, EventsKept, Announced, Shapes
<1> QED
  BY <1>1, <1>2, <1>3, <1>4, <1>5, <1>6 DEF GalleryInv

\* The UPDATE of the covers: its locks are of committed rows, and held alone.
LEMMA ClearCoversKeeps ==
  ASSUME GalleryInv, NEW c \in Calls, ClearCovers(c)
  PROVE  GalleryInv'
<1>1. Shapes'
  BY DEF ClearCovers, gallery, files, broker, Idle, At, GalleryInv, Shapes
<1>2. RowsKept'
  BY NothingWritten, RowsStay DEF ClearCovers, gallery, files, GalleryInv
<1>3. CallsKept'
  BY DEF ClearCovers, gallery, files, broker, Idle, At, GalleryInv, Shapes, CallsKept, CallOK, AddOK,
  DeleteOK, Announced, Uncommitted, Sending, UrlOf, Own, Stored, Link
<1>4. AddsApart'
  BY DEF ClearCovers, gallery, files, broker, Idle, At, GalleryInv, Shapes, AddsApart
<1>5. LocksKept'
  BY DEF ClearCovers, gallery, files, broker, Idle, At, GalleryInv, Shapes, LocksKept
<1>6. EventsKept'
  BY DEF ClearCovers, gallery, files, broker, Idle, At, GalleryInv, Shapes, EventsKept, Announced,
  Uncommitted, Own, Stored
<1> QED
  BY <1>1, <1>2, <1>3, <1>4, <1>5, <1>6 DEF GalleryInv

LEMMA LockRowKeeps ==
  ASSUME GalleryInv, NEW c \in Calls, LockRow(c)
  PROVE  GalleryInv'
<1>1. Shapes'
  BY DEF LockRow, gallery, files, broker, Idle, At, LockedBy, GalleryInv, Shapes
<1>2. RowsKept'
  BY NothingWritten, RowsStay DEF LockRow, gallery, files, GalleryInv
<1>3. CallsKept'
  BY DEF LockRow, gallery, files, broker, Idle, At, LockedBy, GalleryInv, Shapes, CallsKept, CallOK,
  AddOK, DeleteOK, Announced, Uncommitted, Sending, UrlOf, Own, Stored, Link
<1>4. AddsApart'
  BY DEF LockRow, gallery, files, broker, Idle, At, LockedBy, GalleryInv, Shapes, AddsApart
<1>5. LocksKept'
  BY DEF LockRow, gallery, files, broker, Idle, At, LockedBy, GalleryInv, Shapes, LocksKept
<1>6. EventsKept'
  BY DEF LockRow, gallery, files, broker, Idle, At, LockedBy, GalleryInv, Shapes, EventsKept,
  Announced, Uncommitted, Own, Stored
<1> QED
  BY <1>1, <1>2, <1>3, <1>4, <1>5, <1>6 DEF GalleryInv

\* The last row of an UPDATE is locked: the request goes on to its next statement.
LEMMA LockedKeeps ==
  ASSUME GalleryInv, NEW c \in Calls, Locked(c)
  PROVE  GalleryInv'
<1>a. call[c] # Idle /\ call[c].pc = "lock" /\ CallOK(c) /\ c \in DOMAIN call
      /\ DOMAIN call[c] = {"op", "pc", "img", "cover", "url", "todo"}
  BY DEF Locked, At, GalleryInv, CallsKept, Shapes
<1>b. PICK a : /\ call' = [call EXCEPT ![c] = a]
               /\ DOMAIN a = {"op", "pc", "img", "cover", "url", "todo"}
               /\ a.op = call[c].op /\ a.img = call[c].img /\ a.url = call[c].url
               /\ IF a.op = "add" THEN a.pc = "insert" ELSE a.pc \in {"raise", "commit"}
               /\ a.op # "delete"
  <2>1. CASE call[c].op = "add" /\ Goto(c, "insert")
    <3> WITNESS [call[c] EXCEPT !.pc = "insert"]
    <3> QED
      BY <1>a, <2>1 DEF Goto
  <2>2. CASE call[c].op = "cover" /\ call' = [call EXCEPT ![c].pc = "raise", ![c].todo = <<call[c].img>>]
    <3> WITNESS [call[c] EXCEPT !.pc = "raise", !.todo = <<call[c].img>>]
    <3> QED
      BY <1>a, <2>2
  <2>3. CASE call[c].op = "reorder" /\ Goto(c, "commit")
    <3> WITNESS [call[c] EXCEPT !.pc = "commit"]
    <3> QED
      BY <1>a, <2>3 DEF Goto
  <2> QED
    BY <2>1, <2>2, <2>3 DEF Locked
<1>c. UNCHANGED <<row, used, spool, puts, store, lock, topic, worker>>
  BY DEF Locked, gallery, files, broker
<1>d. \A d \in Calls : call'[d] = IF d = c THEN a ELSE call[d]
  BY <1>b DEF GalleryInv, Shapes
<1>e. Announced \subseteq Announced'
  BY <1>a, <1>b, <1>c, <1>d, AnnouncedGrows DEF Uncommitted, Idle
<1>1. Shapes'
  BY <1>b, <1>c, <1>d DEF GalleryInv, Shapes
<1>2. RowsKept'
  BY <1>c, NothingWritten, RowsStay DEF GalleryInv
<1>3. CallsKept'
  <2> SUFFICES ASSUME NEW d \in Calls, call'[d] # Idle PROVE CallOK(d)'
    BY DEF CallsKept, Idle
  <2>1. Grow
    BY <1>c, NothingWritten DEF GalleryInv
  <2>2. CASE d = c
    <3>0. PICK m, u : m = call[c].img /\ u = call[c].url
      OBVIOUS
    <3>1. AddOK(c) => UrlOf(m, u)'
      BY <1>c, <3>0 DEF AddOK, UrlOf, Own, Link
    <3> QED
      BY <1>a, <1>b, <1>c, <1>d, <2>2, <3>0, <3>1 DEF CallOK, AddOK, Uncommitted, Sending, Link
  <2>3. CASE d # c
    BY <1>a, <1>c, <1>d, <1>e, <2>1, <2>3, CallStays DEF GalleryInv, CallsKept, Idle
  <2> QED
    BY <2>2, <2>3
<1>4. AddsApart'
  BY <1>a, <1>b, <1>d DEF GalleryInv, AddsApart, Idle
<1>5. LocksKept'
  BY <1>c DEF GalleryInv, LocksKept
<1>6. EventsKept'
  BY <1>c, <1>e, SeqGrows DEF GalleryInv, EventsKept, Stored, Own
<1> QED
  BY <1>1, <1>2, <1>3, <1>4, <1>5, <1>6 DEF GalleryInv

LEMMA AbortKeeps ==
  ASSUME GalleryInv, NEW c \in Calls, Abort(c)
  PROVE  GalleryInv'
<1>1. Shapes'
  BY DEF Abort, gallery, files, broker, Idle, At, End, GalleryInv, Shapes
<1>2. RowsKept'
  BY NothingWritten, RowsStay DEF Abort, gallery, files, GalleryInv
<1>3. CallsKept'
  BY DEF Abort, gallery, files, broker, Idle, At, End, GalleryInv, Shapes, CallsKept, CallOK, AddOK,
  DeleteOK, Announced, Uncommitted, Sending, UrlOf, Own, Stored, Link
<1>4. AddsApart'
  BY DEF Abort, gallery, files, broker, Idle, At, End, GalleryInv, Shapes, AddsApart
<1>5. LocksKept'
  BY DEF Abort, gallery, files, broker, Idle, At, End, GalleryInv, Shapes, LocksKept
<1>6. EventsKept'
  BY DEF Abort, gallery, files, broker, Idle, At, End, GalleryInv, Shapes, EventsKept, Announced,
  Uncommitted, Own, Stored
<1> QED
  BY <1>1, <1>2, <1>3, <1>4, <1>5, <1>6 DEF GalleryInv

\* A row is committed: its bytes are where its request put them.
LEMMA CommitAddKeeps ==
  ASSUME GalleryInv, NEW c \in Calls, CommitAdd(c)
  PROVE  GalleryInv'
<1>0. PICK m, u : m = call[c].img /\ u = call[c].url
  OBVIOUS
<1>a. /\ call[c] # Idle /\ call[c].pc = "insert" /\ CallOK(c) /\ c \in DOMAIN call
      /\ DOMAIN call[c] = {"op", "pc", "img", "cover", "url", "todo"}
      /\ AddOK(c) /\ Uncommitted(c) /\ call[c].op = "add"
  BY DEF CommitAdd, At, GalleryInv, CallsKept, Shapes, CallOK, Uncommitted
<1>b. /\ m \in Media /\ m \in used /\ row[m] = None
      /\ UrlOf(m, u)
      /\ u = None => m \in spool
      /\ u \in {None, Link(m)} \cup store
  BY <1>0, <1>a DEF AddOK, GalleryInv, Shapes
<1>c. UNCHANGED <<used, spool, puts, store, topic, worker>>
  BY DEF CommitAdd, files, broker
<1>d. \A d \in Calls : d # c => call'[d] = call[d]
  BY <1>a DEF CommitAdd, Goto, End, GalleryInv, Shapes
<1>e. call'[c] # Idle =>
        /\ call'[c].op = "add" /\ call'[c].pc = "queue" /\ call'[c].img = m
        /\ call'[c].url = u
        /\ DOMAIN call'[c] = {"op", "pc", "img", "cover", "url", "todo"}
  BY <1>0, <1>a DEF CommitAdd, Goto, End, GalleryInv, Shapes
<1>f. Announced \subseteq Announced'
  BY <1>0, <1>a, <1>c, <1>d, <1>e, AnnouncedGrows DEF Uncommitted, Idle
<1>g. \A x \in Media : x # m =>
        /\ row[x] = None => row'[x] = None
        /\ row[x] # None => /\ DOMAIN row'[x] = DOMAIN row[x]
                            /\ row'[x].status = row[x].status /\ row'[x].url = row[x].url
        /\ x \notin lock[c] => row'[x] = row[x]
  BY <1>0, <1>a DEF CommitAdd, Cleared, GalleryInv, LocksKept, Shapes
<1>h. /\ DOMAIN row'[m] = {"status", "url", "cover", "sort"}
      /\ row'[m].status = IF u = None THEN "PENDING" ELSE "READY"
      /\ row'[m].url = u
  BY <1>0, <1>b DEF CommitAdd, Row
<1>i. Grow
  BY <1>c, NothingWritten DEF GalleryInv
<1>1. Shapes'
  BY <1>b, <1>c, <1>d, <1>e, <1>g, <1>h DEF GalleryInv, Shapes, CommitAdd, Goto, End, Idle
<1>2. RowsKept'
  <2> SUFFICES ASSUME NEW x \in Media, row'[x] # None PROVE RowOK(x)'
    BY DEF RowsKept
  <2>1. CASE x = m
    <3>1. UrlOf(m, u)'
      BY <1>b, <1>i, UrlsStay DEF GalleryInv
    <3>2. row'[m].status = "READY" => u = Link(m) \/ Stored(m, u)'
      BY <1>b, <1>c, <1>h, <3>1 DEF UrlOf, Stored, Link
    <3>3. u # Link(m) => HasBytes(m)'
      BY <1>b, <1>c, UploadsAssumption DEF HasBytes, UrlOf, Own
    <3> QED
      BY <1>b, <1>c, <1>h, <2>1, <3>1, <3>2, <3>3 DEF RowOK, Link
  <2>2. CASE x # m
    <3>1. RowOK(x) /\ row'[x].url = row[x].url /\ row'[x].status = row[x].status
      BY <1>g, <2>2 DEF GalleryInv, RowsKept
    <3> QED
      BY <1>c, <1>i, <3>1, UrlsStay, BytesStay DEF GalleryInv, RowOK, Link
  <2> QED
    BY <2>1, <2>2
<1>3. CallsKept'
  <2> SUFFICES ASSUME NEW d \in Calls, call'[d] # Idle PROVE CallOK(d)'
    BY DEF CallsKept, Idle
  <2>1. CASE d = c
    <3>1. UrlOf(m, u)'
      BY <1>b, <1>i, UrlsStay DEF GalleryInv
    <3> QED
      BY <1>b, <1>c, <1>e, <2>1, <3>1 DEF CallOK, AddOK, Uncommitted, Sending
  <2>2. CASE d # c
    <3>1. call'[d] = call[d] /\ call[d] # Idle /\ CallOK(d)
      BY <1>d, <2>2 DEF GalleryInv, CallsKept, Idle
    <3>2. call[d].op \in {"add", "delete"} => call[d].img # m
      BY <1>0, <1>a, <2>2, <3>1 DEF CallOK, DeleteOK, Announced, GalleryInv, AddsApart
    <3>3. call[d].op = "add" => AddOK(d)'
      <4> HAVE call[d].op = "add"
      <4>1. AddOK(d) /\ call[d].img \in Media
        BY <3>1 DEF CallOK, AddOK, GalleryInv, Shapes
      <4>2. row[call[d].img] = None => row'[call[d].img] = None
        BY <1>g, <3>2, <4>1
      <4> QED
        BY <1>c, <1>i, <3>1, <4>1, <4>2, AddStays DEF GalleryInv
    <3>4. call[d].op = "delete" => DeleteOK(d)'
      <4> HAVE call[d].op = "delete"
      <4>1. DeleteOK(d) /\ call[d].img \in Media
        BY <3>1 DEF CallOK, DeleteOK, Announced, GalleryInv, Shapes
      <4>2. row[call[d].img] = None => row'[call[d].img] = None
        BY <1>g, <3>2, <4>1
      <4> QED
        BY <1>f, <1>i, <3>1, <4>1, <4>2, DeleteStays DEF GalleryInv
    <3> QED
      BY <3>1, <3>3, <3>4 DEF CallOK, Sending
  <2> QED
    BY <2>1, <2>2
<1>4. AddsApart'
  BY <1>0, <1>a, <1>d, <1>e DEF GalleryInv, AddsApart, Idle
<1>5. LocksKept'
  <2>1. \A d \in Calls : lock'[d] = IF d = c THEN {} ELSE lock[d]
    BY DEF CommitAdd, GalleryInv, Shapes
  <2>2. \A d \in Calls \ {c} : \A x \in lock[d] \cap Media : x # m /\ x \notin lock[c]
    BY <1>b DEF GalleryInv, LocksKept
  <2> QED
    BY <1>g, <2>1, <2>2 DEF GalleryInv, LocksKept
<1>6. EventsKept'
  <2>1. worker.pc # "fetch" => worker.img # m /\ worker.img \in Media
    BY <1>0, <1>a DEF GalleryInv, EventsKept, Announced, Shapes
  <2>2. worker.pc \in {"ready", "unspool"} /\ row'[worker.img] # None => Stored(worker.img, worker.url)'
    BY <1>c, <1>g, <2>1 DEF GalleryInv, EventsKept, Stored, Own
  <2> QED
    BY <1>c, <1>f, <2>2, SeqGrows DEF GalleryInv, EventsKept
<1> QED
  BY <1>1, <1>2, <1>3, <1>4, <1>5, <1>6 DEF GalleryInv

\* The cover and the order are columns no other step reads.
LEMMA RaiseCoverKeeps ==
  ASSUME GalleryInv, NEW c \in Calls, RaiseCover(c)
  PROVE  GalleryInv'
<1>a. UNCHANGED <<used, spool, puts, store, topic, worker>>
  BY DEF RaiseCover, files, broker
<1>b. \A x \in Media : row'[x] # None =>
        /\ row[x] # None /\ DOMAIN row'[x] = DOMAIN row[x]
        /\ row'[x].status = row[x].status /\ row'[x].url = row[x].url
  BY DEF RaiseCover, Cleared, GalleryInv, LocksKept, Shapes
<1>c. /\ DOMAIN row' = Media /\ Grow
      /\ \A d \in Calls : call'[d] # Idle => call'[d] = call[d]
      /\ DOMAIN call' = Calls /\ DOMAIN lock' = Calls
  BY <1>a, NothingWritten DEF RaiseCover, End, GalleryInv, Shapes, Idle
<1>d. Announced \subseteq Announced'
  BY <1>a, <1>c, AnnouncedGrows DEF Uncommitted, Idle
<1>1. Shapes'
  BY <1>a, <1>b, <1>c DEF GalleryInv, Shapes, Idle
<1>2. RowsKept'
  <2> SUFFICES ASSUME NEW x \in Media, row'[x] # None PROVE RowOK(x)'
    BY DEF RowsKept
  <2>1. RowOK(x) /\ row'[x].url = row[x].url /\ row'[x].status = row[x].status
    BY <1>b DEF GalleryInv, RowsKept
  <2> QED
    BY <1>a, <2>1, NothingWritten, UrlsStay, BytesStay DEF GalleryInv, RowOK, Link
<1>3. CallsKept'
  <2> SUFFICES ASSUME NEW d \in Calls, call'[d] # Idle PROVE CallOK(d)'
    BY DEF CallsKept, Idle
  <2>1. call'[d] = call[d] /\ CallOK(d)
    BY <1>c DEF GalleryInv, CallsKept
  <2>2. call[d].op \in {"add", "delete"} => call[d].img \in Media
    BY <2>1 DEF CallOK, AddOK, DeleteOK, Announced, GalleryInv, Shapes
  <2>3. call[d].op = "add" => AddOK(d)'
    BY <1>a, <1>b, <1>c, <2>1, <2>2, AddStays DEF CallOK, GalleryInv
  <2>4. call[d].op = "delete" => DeleteOK(d)'
    BY <1>b, <1>c, <1>d, <2>1, <2>2, DeleteStays DEF CallOK, GalleryInv
  <2> QED
    BY <2>1, <2>3, <2>4 DEF CallOK, Sending
<1>4. AddsApart'
  BY <1>c DEF GalleryInv, AddsApart, Idle
<1>5. LocksKept'
  BY DEF RaiseCover, files, broker, Idle, At, End, LockedBy, Cleared, GalleryInv, Shapes, LocksKept
<1>6. EventsKept'
  <2>1. worker.pc # "fetch" => worker.img \in Media
    BY DEF GalleryInv, EventsKept, Announced, Shapes
  <2> QED
    BY <1>a, <1>b, <1>d, <2>1, SeqGrows DEF GalleryInv, EventsKept, Stored, Own
<1> QED
  BY <1>1, <1>2, <1>3, <1>4, <1>5, <1>6 DEF GalleryInv

LEMMA CommitReorderKeeps ==
  ASSUME GalleryInv, NEW c \in Calls, CommitReorder(c)
  PROVE  GalleryInv'
<1>a. UNCHANGED <<used, spool, puts, store, topic, worker>>
  BY DEF CommitReorder, files, broker
<1>b. \A x \in Media : row'[x] # None =>
        /\ row[x] # None /\ DOMAIN row'[x] = DOMAIN row[x]
        /\ row'[x].status = row[x].status /\ row'[x].url = row[x].url
  BY DEF CommitReorder, GalleryInv, LocksKept, Shapes
<1>c. /\ DOMAIN row' = Media /\ Grow
      /\ \A d \in Calls : call'[d] # Idle => call'[d] = call[d]
      /\ DOMAIN call' = Calls /\ DOMAIN lock' = Calls
  BY <1>a, NothingWritten DEF CommitReorder, End, GalleryInv, Shapes, Idle
<1>d. Announced \subseteq Announced'
  BY <1>a, <1>c, AnnouncedGrows DEF Uncommitted, Idle
<1>1. Shapes'
  BY <1>a, <1>b, <1>c DEF GalleryInv, Shapes, Idle
<1>2. RowsKept'
  <2> SUFFICES ASSUME NEW x \in Media, row'[x] # None PROVE RowOK(x)'
    BY DEF RowsKept
  <2>1. RowOK(x) /\ row'[x].url = row[x].url /\ row'[x].status = row[x].status
    BY <1>b DEF GalleryInv, RowsKept
  <2> QED
    BY <1>a, <2>1, NothingWritten, UrlsStay, BytesStay DEF GalleryInv, RowOK, Link
<1>3. CallsKept'
  <2> SUFFICES ASSUME NEW d \in Calls, call'[d] # Idle PROVE CallOK(d)'
    BY DEF CallsKept, Idle
  <2>1. call'[d] = call[d] /\ CallOK(d)
    BY <1>c DEF GalleryInv, CallsKept
  <2>2. call[d].op \in {"add", "delete"} => call[d].img \in Media
    BY <2>1 DEF CallOK, AddOK, DeleteOK, Announced, GalleryInv, Shapes
  <2>3. call[d].op = "add" => AddOK(d)'
    BY <1>a, <1>b, <1>c, <2>1, <2>2, AddStays DEF CallOK, GalleryInv
  <2>4. call[d].op = "delete" => DeleteOK(d)'
    BY <1>b, <1>c, <1>d, <2>1, <2>2, DeleteStays DEF CallOK, GalleryInv
  <2> QED
    BY <2>1, <2>3, <2>4 DEF CallOK, Sending
<1>4. AddsApart'
  BY <1>c DEF GalleryInv, AddsApart, Idle
<1>5. LocksKept'
  BY DEF CommitReorder, files, broker, Idle, At, End, GalleryInv, Shapes, LocksKept
<1>6. EventsKept'
  <2>1. worker.pc # "fetch" => worker.img \in Media
    BY DEF GalleryInv, EventsKept, Announced, Shapes
  <2> QED
    BY <1>a, <1>b, <1>d, <2>1, SeqGrows DEF GalleryInv, EventsKept, Stored, Own
<1> QED
  BY <1>1, <1>2, <1>3, <1>4, <1>5, <1>6 DEF GalleryInv

\* An event is published of a file whose row is committed.
LEMMA QueueKeeps ==
  ASSUME GalleryInv, NEW c \in Calls, Queue(c)
  PROVE  GalleryInv'
<1>a. /\ call[c] # Idle /\ call[c].pc = "queue" /\ CallOK(c)
      /\ DOMAIN call[c] = {"op", "pc", "img", "cover", "url", "todo"} /\ DOMAIN call = Calls
  BY DEF Queue, At, GalleryInv, CallsKept, Shapes
<1>b. call[c].img \in Announced
  <2>1. call[c].op = "add" /\ call[c].img \in used /\ ~Uncommitted(c)
    BY <1>a DEF CallOK, AddOK, Uncommitted, Sending
  <2> QED
    BY <1>a, <2>1 DEF Announced, Uncommitted, GalleryInv, AddsApart
<1>c. Announced \subseteq Announced'
  BY <1>a, AnnouncedGrows DEF Queue, End, gallery, Uncommitted, Idle
<1>1. Shapes'
  BY DEF Queue, gallery, files, Idle, At, End, GalleryInv, Shapes
<1>2. RowsKept'
  BY NothingWritten, RowsStay DEF Queue, gallery, files, GalleryInv
<1>3. CallsKept'
  BY DEF Queue, gallery, files, Idle, At, End, GalleryInv, Shapes, CallsKept, CallOK, AddOK,
  DeleteOK, Announced, Uncommitted, Sending, UrlOf, Own, Stored, Link
<1>4. AddsApart'
  BY DEF Queue, gallery, files, Idle, At, End, GalleryInv, Shapes, AddsApart
<1>5. LocksKept'
  BY DEF Queue, gallery, files, Idle, At, End, GalleryInv, Shapes, LocksKept
<1>6. EventsKept'
  <2>1. topic' \in Seq(Announced) /\ topic' # <<>>
    BY <1>b DEF GalleryInv, EventsKept, Queue
  <2> QED
    BY <1>c, <2>1, SeqGrows DEF GalleryInv, EventsKept, Queue, gallery, files, Stored, Own
<1> QED
  BY <1>1, <1>2, <1>3, <1>4, <1>5, <1>6 DEF GalleryInv

LEMMA QueueRefusedKeeps ==
  ASSUME GalleryInv, NEW c \in Calls, QueueRefused(c)
  PROVE  GalleryInv'
<1>a. /\ call[c] # Idle /\ call[c].pc = "queue" /\ CallOK(c)
      /\ DOMAIN call[c] = {"op", "pc", "img", "cover", "url", "todo"} /\ DOMAIN call = Calls
  BY DEF QueueRefused, At, GalleryInv, CallsKept, Shapes
<1>b. call[c].img \in Announced
  <2>1. call[c].op = "add" /\ call[c].img \in used /\ ~Uncommitted(c)
    BY <1>a DEF CallOK, AddOK, Uncommitted, Sending
  <2> QED
    BY <1>a, <2>1 DEF Announced, Uncommitted, GalleryInv, AddsApart
<1>c. Announced \subseteq Announced'
  BY <1>a, AnnouncedGrows DEF QueueRefused, Goto, gallery, Uncommitted, Idle
<1>1. Shapes'
  BY DEF QueueRefused, gallery, files, Idle, At, Goto, GalleryInv, Shapes
<1>2. RowsKept'
  BY NothingWritten, RowsStay DEF QueueRefused, gallery, files, GalleryInv
<1>3. CallsKept'
  BY DEF QueueRefused, gallery, files, Idle, At, Goto, GalleryInv, Shapes, CallsKept, CallOK, AddOK,
  DeleteOK, Announced, Uncommitted, Sending, UrlOf, Own, Stored, Link
<1>4. AddsApart'
  BY DEF QueueRefused, gallery, files, Idle, At, Goto, GalleryInv, Shapes, AddsApart
<1>5. LocksKept'
  BY DEF QueueRefused, gallery, files, Idle, At, Goto, GalleryInv, Shapes, LocksKept
<1>6. EventsKept'
  <2>1. topic \in Seq(Announced) /\ Append(topic, call[c].img) \in Seq(Announced)
    BY <1>b DEF GalleryInv, EventsKept
  <2>2. topic' \in Seq(Announced)
    BY <2>1 DEF QueueRefused
  <2> QED
    BY <1>c, <2>2, SeqGrows DEF GalleryInv, EventsKept, QueueRefused, gallery, files, Stored, Own
<1> QED
  BY <1>1, <1>2, <1>3, <1>4, <1>5, <1>6 DEF GalleryInv

\* The request does what the worker would have done.
LEMMA UploadSpooledKeeps ==
  ASSUME GalleryInv, NEW c \in Calls, UploadSpooled(c)
  PROVE  GalleryInv'
<1>1. Shapes'
  BY DEF UploadSpooled, gallery, broker, counts, Idle, At, Put, GalleryInv, Shapes, CallsKept,
  CallOK, AddOK, DeleteOK, Announced, Uncommitted, Sending
<1>2. RowsKept'
  <2>1. call[c].img \in Media
    BY DEF UploadSpooled, At, GalleryInv, CallsKept, CallOK, AddOK, Sending, Shapes
  <2> QED
    BY <2>1, PutGrows, RowsStay DEF UploadSpooled, gallery, GalleryInv
<1>3. CallsKept'
  BY DEF UploadSpooled, gallery, broker, Idle, At, Put, GalleryInv, Shapes, CallsKept, CallOK, AddOK,
  DeleteOK, Announced, Uncommitted, Sending, UrlOf, Own, Stored, Link
<1>4. AddsApart'
  BY DEF UploadSpooled, gallery, broker, Idle, At, Put, GalleryInv, Shapes, AddsApart
<1>5. LocksKept'
  BY DEF UploadSpooled, gallery, broker, Idle, At, Put, GalleryInv, Shapes, LocksKept
<1>6. EventsKept'
  BY DEF UploadSpooled, gallery, broker, Idle, At, Put, GalleryInv, Shapes, EventsKept, Announced,
  Uncommitted, Own, Stored
<1> QED
  BY <1>1, <1>2, <1>3, <1>4, <1>5, <1>6 DEF GalleryInv

LEMMA UploadSpooledFailsKeeps ==
  ASSUME GalleryInv, NEW c \in Calls, UploadSpooledFails(c)
  PROVE  GalleryInv'
<1>1. Shapes'
  BY DEF UploadSpooledFails, gallery, files, broker, Idle, At, Goto, GalleryInv, Shapes
<1>2. RowsKept'
  BY NothingWritten, RowsStay DEF UploadSpooledFails, gallery, files, GalleryInv
<1>3. CallsKept'
  BY DEF UploadSpooledFails, gallery, files, broker, Idle, At, Goto, GalleryInv, Shapes, CallsKept,
  CallOK, AddOK, DeleteOK, Announced, Uncommitted, Sending, UrlOf, Own, Stored, Link
<1>4. AddsApart'
  BY DEF UploadSpooledFails, gallery, files, broker, Idle, At, Goto, GalleryInv, Shapes, AddsApart
<1>5. LocksKept'
  BY DEF UploadSpooledFails, gallery, files, broker, Idle, At, Goto, GalleryInv, Shapes, LocksKept
<1>6. EventsKept'
  BY DEF UploadSpooledFails, gallery, files, broker, Idle, At, Goto, GalleryInv, Shapes, EventsKept,
  Announced, Uncommitted, Own, Stored
<1> QED
  BY <1>1, <1>2, <1>3, <1>4, <1>5, <1>6 DEF GalleryInv

\* The spooled file goes only once the store has it.
LEMMA UnspoolInlineKeeps ==
  ASSUME GalleryInv, NEW c \in Calls, UnspoolInline(c)
  PROVE  GalleryInv'
<1>a. PICK m, u : m = call[c].img /\ u = call[c].url
  OBVIOUS
<1>b. /\ call[c] # Idle /\ call[c].pc = "unspool" /\ CallOK(c) /\ AddOK(c) /\ call[c].op = "add"
      /\ DOMAIN call[c] = {"op", "pc", "img", "cover", "url", "todo"}
  BY DEF UnspoolInline, At, GalleryInv, CallsKept, CallOK, Sending, Shapes
<1>c. UNCHANGED <<row, used, puts, store, topic, worker, lock>> /\ spool' = spool \ {m} /\ Grow
  BY <1>a, NothingWritten DEF UnspoolInline, gallery, broker, GalleryInv
<1>d. \A d \in Calls : call'[d] = IF d = c THEN [call[c] EXCEPT !.pc = "ready"] ELSE call[d]
  BY DEF UnspoolInline, Goto, GalleryInv, Shapes
<1>e. Announced \subseteq Announced'
  BY <1>b, <1>c, <1>d, AnnouncedGrows DEF Uncommitted, Idle
<1>1. Shapes'
  BY DEF UnspoolInline, gallery, broker, Idle, At, Goto, GalleryInv, Shapes
<1>2. RowsKept'
  <2> SUFFICES ASSUME NEW x \in Media, row[x] # None PROVE RowOK(x)'
    BY <1>c DEF RowsKept
  <2>1. RowOK(x) /\ (x # m /\ x \in spool => x \in spool')
    BY <1>c DEF GalleryInv, RowsKept
  <2>2. x = m => \E n \in 1 .. puts[x] : <<x, n>> \in store
    BY <1>a, <1>b DEF AddOK, Stored, Own
  <2> QED
    BY <1>c, <2>1, <2>2 DEF RowOK, UrlOf, Own, Stored, HasBytes, Link
<1>3. CallsKept'
  <2> SUFFICES ASSUME NEW d \in Calls, call'[d] # Idle PROVE CallOK(d)'
    BY DEF CallsKept, Idle
  <2>1. CASE d = c
    <3>1. UrlOf(m, u)'
      BY <1>a, <1>b, <1>c DEF AddOK, UrlOf, Own, Link
    <3>2. row[m] # None => Stored(m, u)'
      BY <1>a, <1>b, <1>c DEF AddOK, Stored, Own
    <3> QED
      BY <1>a, <1>b, <1>c, <1>d, <2>1, <3>1, <3>2 DEF CallOK, AddOK, Uncommitted, Sending
  <2>2. CASE d # c
    <3>1. call'[d] = call[d] /\ call[d] # Idle /\ CallOK(d)
      BY <1>d, <2>2 DEF GalleryInv, CallsKept, Idle
    <3>2. Uncommitted(d) => call[d].img # m
      BY <1>a, <1>b, <2>2, <3>1 DEF Uncommitted, GalleryInv, AddsApart
    <3> QED
      BY <1>c, <1>e, <3>1, <3>2, CallStays DEF GalleryInv
  <2> QED
    BY <2>1, <2>2
<1>4. AddsApart'
  BY DEF UnspoolInline, gallery, broker, Idle, At, Goto, GalleryInv, Shapes, AddsApart
<1>5. LocksKept'
  BY DEF UnspoolInline, gallery, broker, Idle, At, Goto, GalleryInv, Shapes, LocksKept
<1>6. EventsKept'
  BY DEF UnspoolInline, gallery, broker, Idle, At, Goto, GalleryInv, Shapes, EventsKept, Announced,
  Uncommitted, Own, Stored
<1> QED
  BY <1>1, <1>2, <1>3, <1>4, <1>5, <1>6 DEF GalleryInv

LEMMA FinishInlineKeeps ==
  ASSUME GalleryInv, NEW c \in Calls, FinishInline(c)
  PROVE  GalleryInv'
<1>a. PICK m, u, old : m = call[c].img /\ u = call[c].url /\ old = IF row[m] = None THEN None ELSE row[m].url
  OBVIOUS
<1>b. /\ UNCHANGED <<used, puts, store, spool, topic, worker, lock>>
      /\ call' = [call EXCEPT ![c] = Idle]
  BY DEF FinishInline, files, broker, End
<1>c. /\ m \in Media
      /\ At(c, "ready") /\ row[m] # None => Stored(m, u)
  BY <1>a DEF FinishInline, At, GalleryInv, CallsKept, CallOK, AddOK, Sending, Shapes
<1>d. \/ row' = row
      \/ At(c, "ready") /\ Written(m, "READY", u)
      \/ Written(m, "FAILED", old)
  BY <1>a DEF FinishInline
<1>e. /\ DOMAIN row' = Media
      /\ \A x \in Media : row[x] = None => row'[x] = None
      /\ \A x \in Media : row[x] # None =>
           \/ row'[x] = row[x]
           \/ /\ DOMAIN row'[x] = DOMAIN row[x]
              /\ \/ row'[x].status = "READY" /\ row'[x].url = u /\ x = m /\ Stored(m, u)
                 \/ row'[x].status = "FAILED" /\ row'[x].url = row[x].url
  <2>1. CASE row' = row
    BY <2>1 DEF GalleryInv, Shapes
  <2>2. CASE At(c, "ready") /\ Written(m, "READY", u)
    BY <1>c, <2>2, WrittenAt DEF GalleryInv
  <2>3. CASE Written(m, "FAILED", old)
    BY <1>a, <1>c, <2>3, WrittenAt DEF GalleryInv
  <2> QED
    BY <1>d, <2>1, <2>2, <2>3
<1>f. Grow
  BY <1>b, NothingWritten DEF GalleryInv
<1>g. \A d \in Calls : call'[d] # Idle => call'[d] = call[d]
  BY <1>b DEF GalleryInv, Shapes
<1>h. Announced \subseteq Announced'
  BY <1>b, <1>g, AnnouncedGrows DEF Uncommitted, Idle
<1>1. Shapes'
  BY <1>b, <1>e, <1>g DEF GalleryInv, Shapes, Idle
<1>2. RowsKept'
  <2> SUFFICES ASSUME NEW x \in Media, row'[x] # None PROVE RowOK(x)'
    BY DEF RowsKept
  <2>1. RowOK(x)
    BY <1>e DEF GalleryInv, RowsKept
  <2>2. CASE row'[x] = row[x]
    BY <1>b, <1>f, <2>1, <2>2, UrlsStay, BytesStay DEF GalleryInv, RowOK, Link
  <2>3. CASE row'[x].status = "READY" /\ row'[x].url = u /\ x = m /\ Stored(m, u)
    BY <1>b, <2>1, <2>3 DEF RowOK, UrlOf, Own, Stored, HasBytes
  <2>4. CASE row'[x].status = "FAILED" /\ row'[x].url = row[x].url
    BY <1>b, <1>f, <2>1, <2>4, UrlsStay, BytesStay DEF GalleryInv, RowOK, Link
  <2> QED
    BY <1>e, <2>2, <2>3, <2>4
<1>3. CallsKept'
  BY <1>b, <1>e, <1>f, <1>g, <1>h, CallStays DEF GalleryInv, CallsKept, Idle, CallOK, AddOK, DeleteOK, Announced, Shapes
<1>4. AddsApart'
  BY <1>g DEF GalleryInv, AddsApart, Idle
<1>5. LocksKept'
  BY DEF FinishInline, At, Unlocked, LockedBy, Written, GalleryInv, LocksKept, Shapes
<1>6. EventsKept'
  BY <1>b, <1>e, <1>h, SeqGrows DEF GalleryInv, EventsKept, Stored, Own, Announced, Shapes
<1> QED
  BY <1>1, <1>2, <1>3, <1>4, <1>5, <1>6 DEF GalleryInv

\* An object goes only after its row, and no other row names it.
LEMMA DeleteObjectKeeps ==
  ASSUME GalleryInv, NEW c \in Calls, DeleteObject(c)
  PROVE  GalleryInv'
<1>a. PICK m, u : m = call[c].img /\ u = call[c].url
  OBVIOUS
<1>b. /\ UNCHANGED <<row, used, puts, spool, topic, worker, lock>>
      /\ call' = [call EXCEPT ![c] = Idle]
      /\ store' \in {store, store \ {u}}
  BY <1>a DEF DeleteObject, gallery, broker, End
<1>c. m \in Announced /\ m \in Media /\ row[m] = None /\ UrlOf(m, u)
  BY <1>a DEF DeleteObject, At, GalleryInv, CallsKept, CallOK, DeleteOK, Announced, Shapes
<1>d. \A x \in Media \ {m} : \A n \in Nat : <<x, n>> # u
  BY <1>c, UploadsAssumption DEF UrlOf, Own, Link
<1>e. \A x \in Media \ {m} : \A n \in 1 .. puts[x] : <<x, n>> \in store => <<x, n>> \in store'
  BY <1>b, <1>d DEF GalleryInv, Shapes
<1>f. \A x \in Media \ {m} : \A v : /\ Stored(x, v) => Stored(x, v)'
                                    /\ UrlOf(x, v) <=> UrlOf(x, v)'
                                    /\ HasBytes(x) => HasBytes(x)'
  BY <1>b, <1>e DEF Stored, Own, UrlOf, HasBytes, Link
<1>g. \A d \in Calls : call'[d] # Idle => call'[d] = call[d]
  BY <1>b DEF GalleryInv, Shapes
<1>h. Announced \subseteq Announced'
  BY <1>b, <1>g, AnnouncedGrows DEF Uncommitted, Idle
<1>i. \A v : UrlOf(m, v) => UrlOf(m, v)'
  BY <1>b DEF UrlOf, Own, Link
<1>1. Shapes'
  BY DEF DeleteObject, gallery, broker, Idle, At, End, GalleryInv, Shapes
<1>2. RowsKept'
  <2> SUFFICES ASSUME NEW x \in Media, row[x] # None PROVE RowOK(x)'
    BY <1>b DEF RowsKept
  <2>1. RowOK(x) /\ x # m
    BY <1>c DEF GalleryInv, RowsKept
  <2> QED
    BY <1>b, <1>f, <2>1 DEF RowOK, Link
<1>3. CallsKept'
  <2> SUFFICES ASSUME NEW d \in Calls, call'[d] # Idle PROVE CallOK(d)'
    BY DEF CallsKept, Idle
  <2>1. call'[d] = call[d] /\ CallOK(d)
    BY <1>g DEF GalleryInv, CallsKept
  <2>2. PICK x, v : x = call[d].img /\ v = call[d].url
    OBVIOUS
  <2>3. call[d].op = "add" => AddOK(d)'
    <3> HAVE call[d].op = "add"
    <3>1. AddOK(d) /\ x \in Media
      BY <2>1, <2>2 DEF CallOK, AddOK, GalleryInv, Shapes
    <3>2. UrlOf(x, v)'
      BY <1>f, <1>i, <2>2, <3>1 DEF AddOK
    <3>3. Uncommitted(d) => x # m
      BY <1>c, <2>2, <3>1 DEF Announced
    <3>4. Uncommitted(d) => v \in {None, Link(x)} \cup store'
      <4>1. v = None \/ v = Link(x) \/ \E n \in 1 .. puts[x] : v = <<x, n>>
        BY <2>2, <3>1 DEF AddOK, UrlOf, Own
      <4>2. Uncommitted(d) => v # u \/ v = None
        BY <1>c, <1>d, <3>1, <3>3, <4>1 DEF Link, GalleryInv, Shapes
      <4> QED
        BY <1>b, <2>2, <3>1, <4>1, <4>2 DEF AddOK
    <3>5. row[x] # None /\ Stored(x, v) => Stored(x, v)'
      BY <1>c, <1>f, <3>1
    <3>6. Uncommitted(d)' = Uncommitted(d)
      BY <2>1 DEF Uncommitted, Idle
    <3> QED
      BY <1>b, <2>1, <2>2, <3>1, <3>2, <3>4, <3>5, <3>6 DEF AddOK, Link
  <2>4. call[d].op = "delete" => DeleteOK(d)'
    <3> HAVE call[d].op = "delete"
    <3>1. DeleteOK(d) /\ x \in Media
      BY <2>1, <2>2 DEF CallOK, DeleteOK, Announced, GalleryInv, Shapes
    <3>2. UrlOf(x, v)'
      BY <1>f, <1>i, <2>2, <3>1 DEF DeleteOK
    <3> QED
      BY <1>b, <1>h, <2>1, <2>2, <3>1, <3>2 DEF DeleteOK
  <2> QED
    BY <2>1, <2>3, <2>4 DEF CallOK, Sending
<1>4. AddsApart'
  BY DEF DeleteObject, gallery, broker, Idle, At, End, GalleryInv, Shapes, AddsApart
<1>5. LocksKept'
  BY DEF DeleteObject, gallery, broker, Idle, At, End, GalleryInv, Shapes, LocksKept
<1>6. EventsKept'
  <2>1. worker.pc # "fetch" => worker.img \in Media
    BY DEF GalleryInv, EventsKept, Announced, Shapes
  <2> QED
    BY <1>b, <1>c, <1>f, <1>h, <2>1, SeqGrows DEF GalleryInv, EventsKept
<1> QED
  BY <1>1, <1>2, <1>3, <1>4, <1>5, <1>6 DEF GalleryInv

\* Other requests begin, or die.
LEMMA SetCoverKeeps ==
  ASSUME GalleryInv, NEW c \in Calls, NEW m \in Media, SetCover(c, m)
  PROVE  GalleryInv'
<1>1. Shapes'
  BY DEF SetCover, gallery, files, broker, Idle, Begin, GalleryInv, Shapes
<1>2. RowsKept'
  BY NothingWritten, RowsStay DEF SetCover, gallery, files, GalleryInv
<1>3. CallsKept'
  BY DEF SetCover, gallery, files, broker, Idle, Begin, GalleryInv, Shapes, CallsKept, CallOK, AddOK,
  DeleteOK, Announced, Uncommitted, Sending, UrlOf, Own, Stored, Link
<1>4. AddsApart'
  BY DEF SetCover, gallery, files, broker, Idle, Begin, GalleryInv, Shapes, AddsApart
<1>5. LocksKept'
  BY DEF SetCover, gallery, files, broker, Idle, Begin, GalleryInv, Shapes, LocksKept
<1>6. EventsKept'
  BY DEF SetCover, gallery, files, broker, Idle, Begin, GalleryInv, Shapes, EventsKept, Announced,
  Uncommitted, Own, Stored
<1> QED
  BY <1>1, <1>2, <1>3, <1>4, <1>5, <1>6 DEF GalleryInv

LEMMA DeleteMediaKeeps ==
  ASSUME GalleryInv, NEW c \in Calls, NEW m \in Media, DeleteMedia(c, m)
  PROVE  GalleryInv'
<1>a. /\ row[m] # None /\ RowOK(m) /\ call[c] = Idle /\ c \in DOMAIN call
      /\ UNCHANGED <<used, spool, puts, store, lock, topic, worker>> /\ Grow
      /\ row' = [row EXCEPT ![m] = None]
  BY NothingWritten DEF DeleteMedia, files, broker, GalleryInv, RowsKept, Shapes
<1>b. PICK a : /\ a.op = "delete" /\ a.pc = "remove" /\ a.img = m /\ a.url = row[m].url
               /\ DOMAIN a = {"op", "pc", "img", "cover", "url", "todo"}
               /\ call' = [call EXCEPT ![c] = a]
  BY DEF DeleteMedia
<1>c. \A d \in Calls : call'[d] = IF d = c THEN a ELSE call[d]
  BY <1>b DEF GalleryInv, Shapes
<1>d. Announced \subseteq Announced'
  BY <1>a, <1>b, <1>c, AnnouncedGrows DEF Uncommitted, Idle
<1>e. m \in Announced
  BY <1>a DEF RowOK, Announced, Uncommitted, GalleryInv, CallsKept, CallOK, AddOK
<1>1. Shapes'
  BY DEF DeleteMedia, files, broker, Idle, LockedBy, Unlocked, GalleryInv, Shapes
<1>2. RowsKept'
  BY DEF DeleteMedia, files, broker, Idle, LockedBy, Unlocked, GalleryInv, Shapes, RowsKept, RowOK,
  UrlOf, Own, Stored, HasBytes, Link
<1>3. CallsKept'
  <2> SUFFICES ASSUME NEW d \in Calls, call'[d] # Idle PROVE CallOK(d)'
    BY DEF CallsKept, Idle
  <2>1. CASE d = c
    <3>1. PICK u : u = row[m].url
      OBVIOUS
    <3>2. UrlOf(m, u)'
      BY <1>a, <3>1, UrlsStay DEF GalleryInv, RowOK
    <3> QED
      BY <1>a, <1>b, <1>c, <1>d, <1>e, <2>1, <3>1, <3>2 DEF CallOK, DeleteOK, Sending, GalleryInv, Shapes
  <2>2. CASE d # c
    <3>1. call'[d] = call[d] /\ call[d] # Idle /\ CallOK(d)
      BY <1>c, <2>2 DEF GalleryInv, CallsKept, Idle
    <3>2. call[d].op \in {"add", "delete"} => call[d].img \in Media
      BY <3>1 DEF CallOK, AddOK, DeleteOK, Announced, GalleryInv, Shapes
    <3>3. call[d].op = "add" => AddOK(d)'
      BY <1>a, <3>1, <3>2, AddStays DEF CallOK, GalleryInv, Shapes
    <3>4. call[d].op = "delete" => DeleteOK(d)'
      BY <1>a, <1>d, <3>1, <3>2, DeleteStays DEF CallOK, GalleryInv, Shapes
    <3> QED
      BY <3>1, <3>3, <3>4 DEF CallOK, Sending
  <2> QED
    BY <2>1, <2>2
<1>4. AddsApart'
  BY DEF DeleteMedia, files, broker, Idle, LockedBy, Unlocked, GalleryInv, Shapes, AddsApart
<1>5. LocksKept'
  BY DEF DeleteMedia, files, broker, Idle, LockedBy, Unlocked, GalleryInv, Shapes, LocksKept
<1>6. EventsKept'
  BY DEF DeleteMedia, files, broker, Idle, LockedBy, Unlocked, GalleryInv, Shapes, EventsKept,
  Announced, Uncommitted, Own, Stored
<1> QED
  BY <1>1, <1>2, <1>3, <1>4, <1>5, <1>6 DEF GalleryInv

LEMMA ReorderKeeps ==
  ASSUME GalleryInv, NEW c \in Calls, NEW order, Reorder(c, order)
  PROVE  GalleryInv'
<1>1. Shapes'
  BY DEF Reorder, gallery, files, broker, Idle, GalleryInv, Shapes
<1>2. RowsKept'
  BY NothingWritten, RowsStay DEF Reorder, gallery, files, GalleryInv
<1>3. CallsKept'
  BY DEF Reorder, gallery, files, broker, Idle, GalleryInv, Shapes, CallsKept, CallOK, AddOK,
  DeleteOK, Announced, Uncommitted, Sending, UrlOf, Own, Stored, Link
<1>4. AddsApart'
  BY DEF Reorder, gallery, files, broker, Idle, GalleryInv, Shapes, AddsApart
<1>5. LocksKept'
  BY DEF Reorder, gallery, files, broker, Idle, GalleryInv, Shapes, LocksKept
<1>6. EventsKept'
  BY DEF Reorder, gallery, files, broker, Idle, GalleryInv, Shapes, EventsKept, Announced,
  Uncommitted, Own, Stored
<1> QED
  BY <1>1, <1>2, <1>3, <1>4, <1>5, <1>6 DEF GalleryInv

LEMMA RequestDiesKeeps ==
  ASSUME GalleryInv, NEW c \in Calls, RequestDies(c)
  PROVE  GalleryInv'
<1>1. Shapes'
  BY DEF RequestDies, gallery, files, broker, Idle, End, GalleryInv, Shapes
<1>2. RowsKept'
  BY NothingWritten, RowsStay DEF RequestDies, gallery, files, GalleryInv
<1>3. CallsKept'
  BY DEF RequestDies, gallery, files, broker, Idle, End, GalleryInv, Shapes, CallsKept, CallOK,
  AddOK, DeleteOK, Announced, Uncommitted, Sending, UrlOf, Own, Stored, Link
<1>4. AddsApart'
  BY DEF RequestDies, gallery, files, broker, Idle, End, GalleryInv, Shapes, AddsApart
<1>5. LocksKept'
  BY DEF RequestDies, gallery, files, broker, Idle, End, GalleryInv, Shapes, LocksKept
<1>6. EventsKept'
  BY DEF RequestDies, gallery, files, broker, Idle, End, GalleryInv, Shapes, EventsKept, Announced,
  Uncommitted, Own, Stored
<1> QED
  BY <1>1, <1>2, <1>3, <1>4, <1>5, <1>6 DEF GalleryInv

--------------------------------------------------------------------------------
(* The steps of the worker *)

\* An event it takes is of a file whose row was committed.
LEMMA FetchKeeps ==
  ASSUME GalleryInv, Fetch
  PROVE  GalleryInv'
<1>1. Shapes'
  BY DEF Fetch, gallery, files, Handles, GalleryInv, Shapes, Idle
<1>2. RowsKept'
  BY NothingWritten, RowsStay DEF Fetch, gallery, files, GalleryInv
<1>3. CallsKept'
  BY DEF Fetch, gallery, files, Handles, GalleryInv, Shapes, CallsKept, CallOK, AddOK, DeleteOK,
  Announced, Uncommitted, Sending, UrlOf, Own, Stored, Idle, Link
<1>4. AddsApart'
  BY DEF Fetch, gallery, files, Handles, GalleryInv, Shapes, AddsApart, Idle
<1>5. LocksKept'
  BY DEF Fetch, gallery, files, Handles, GalleryInv, Shapes, LocksKept
<1>6. EventsKept'
  BY DEF Fetch, gallery, files, Handles, GalleryInv, Shapes, EventsKept, Announced, Uncommitted, Own,
  Stored, Idle
<1> QED
  BY <1>1, <1>2, <1>3, <1>4, <1>5, <1>6 DEF GalleryInv

LEMMA OpenSpoolKeeps ==
  ASSUME GalleryInv, OpenSpool
  PROVE  GalleryInv'
<1>1. Shapes'
  BY DEF OpenSpool, gallery, files, Handles, Step, GalleryInv, Shapes, Idle
<1>2. RowsKept'
  BY NothingWritten, RowsStay DEF OpenSpool, gallery, files, GalleryInv
<1>3. CallsKept'
  <2>1. Grow /\ UNCHANGED <<row, used, spool, call>> /\ Announced' = Announced
    BY NothingWritten DEF OpenSpool, gallery, files, GalleryInv, Announced, Uncommitted, Idle
  <2> QED
    BY <2>1, CallStays DEF GalleryInv, CallsKept, Idle
<1>4. AddsApart'
  BY DEF OpenSpool, gallery, files, Handles, Step, GalleryInv, Shapes, AddsApart, Idle
<1>5. LocksKept'
  BY DEF OpenSpool, gallery, files, Handles, Step, GalleryInv, Shapes, LocksKept
<1>6. EventsKept'
  BY DEF OpenSpool, gallery, files, Handles, Step, GalleryInv, Shapes, EventsKept, Announced,
  Uncommitted, Own, Stored, Idle
<1> QED
  BY <1>1, <1>2, <1>3, <1>4, <1>5, <1>6 DEF GalleryInv

LEMMA PutObjectKeeps ==
  ASSUME GalleryInv, PutObject
  PROVE  GalleryInv'
<1>a. PICK m, u : m = worker.img /\ u = <<m, puts[m] + 1>>
  OBVIOUS
<1>b. /\ UNCHANGED <<row, used, spool, call, lock, topic>>
      /\ Announced' = Announced /\ worker.pc = "put"
  BY DEF PutObject, gallery, Handles, Announced, Uncommitted, Idle
<1>c. m \in Announced /\ m \in Media
  BY <1>a, <1>b DEF GalleryInv, EventsKept, Announced, Shapes
<1>d. /\ Grow
      /\ DOMAIN worker' = DOMAIN worker /\ worker'.img = m
      /\ \/ worker'.pc = "ready" /\ worker'.url = u /\ Stored(m, u)'
         \/ worker'.pc = "refused"
  <2>1. CASE Put(m) /\ worker' = [worker EXCEPT !.pc = "ready", !.url = u]
    BY <1>a, <1>c, <2>1, PutGrows DEF GalleryInv, Shapes
  <2>2. CASE UNCHANGED <<puts, store>> /\ Step("refused")
    BY <1>a, <2>2, NothingWritten DEF Step, GalleryInv, Shapes
  <2> QED
    BY <1>a, <2>1, <2>2 DEF PutObject
<1>1. Shapes'
  BY <1>b, <1>d DEF GalleryInv, Shapes, Grow
<1>2. RowsKept'
  BY <1>b, <1>d, RowsStay DEF GalleryInv
<1>3. CallsKept'
  BY <1>b, <1>d, CallStays DEF GalleryInv, CallsKept, Idle
<1>4. AddsApart'
  BY DEF PutObject, gallery, Put, Handles, Step, GalleryInv, Shapes, AddsApart, Idle
<1>5. LocksKept'
  BY DEF PutObject, gallery, Put, Handles, Step, GalleryInv, Shapes, LocksKept
<1>6. EventsKept'
  BY <1>b, <1>c, <1>d DEF GalleryInv, EventsKept
<1> QED
  BY <1>1, <1>2, <1>3, <1>4, <1>5, <1>6 DEF GalleryInv

LEMMA MarkFailedKeeps ==
  ASSUME GalleryInv, MarkFailed
  PROVE  GalleryInv'
<1>a. PICK m, u, old : m = worker.img /\ u = worker.url /\ old = IF row[m] = None THEN None ELSE row[m].url
  OBVIOUS
<1>b. /\ UNCHANGED <<used, puts, store, spool, topic, call, lock>>
      /\ Announced' = Announced /\ worker.pc \in {"missing", "refused"}
  BY DEF MarkFailed, files, Handles, Announced, Uncommitted, Idle
<1>c. m \in Announced /\ m \in Media
  BY <1>a, <1>b DEF GalleryInv, EventsKept, Announced, Shapes
<1>d. /\ DOMAIN worker' = DOMAIN worker /\ worker'.img = m /\ worker'.url = u
      /\ worker'.pc \in {"commit", "park", "open"}
  BY <1>a, <1>b DEF MarkFailed, NextAttempt, Step, Handles, GalleryInv, Shapes
<1>e. /\ DOMAIN row' = Media
      /\ \A x \in Media : row[x] = None => row'[x] = None
      /\ \A x \in Media : row[x] # None =>
           \/ row'[x] = row[x]
           \/ /\ DOMAIN row'[x] = DOMAIN row[x]
              /\ row'[x].status = "FAILED" /\ row'[x].url = row[x].url
  <2>1. CASE row' = row
    BY <2>1 DEF GalleryInv, Shapes
  <2>2. CASE Written(m, "FAILED", old)
    BY <1>a, <1>c, <2>2, WrittenAt DEF GalleryInv
  <2> QED
    BY <1>a, <2>1, <2>2 DEF MarkFailed
<1>f. Grow
  BY <1>b, NothingWritten DEF GalleryInv
<1>1. Shapes'
  BY <1>b, <1>d, <1>e DEF GalleryInv, Shapes
<1>2. RowsKept'
  <2> SUFFICES ASSUME NEW x \in Media, row'[x] # None PROVE RowOK(x)'
    BY DEF RowsKept
  <2>1. RowOK(x)
    BY <1>e DEF GalleryInv, RowsKept
  <2>2. CASE row'[x] = row[x]
    BY <1>b, <1>f, <2>1, <2>2, UrlsStay, BytesStay DEF GalleryInv, RowOK, Link
  <2>3. CASE row'[x].status = "FAILED" /\ row'[x].url = row[x].url
    BY <1>b, <1>f, <2>1, <2>3, UrlsStay, BytesStay DEF GalleryInv, RowOK, Link
  <2> QED
    BY <1>e, <2>2, <2>3
<1>3. CallsKept'
  BY <1>b, <1>e, <1>f, CallStays DEF GalleryInv, CallsKept, Idle, CallOK, AddOK, DeleteOK, Announced, Shapes
<1>4. AddsApart'
  BY DEF MarkFailed, files, LockedBy, Unlocked, Written, Handles, Step, NextAttempt, GalleryInv,
  Shapes, AddsApart, Idle
<1>5. LocksKept'
  BY DEF MarkFailed, Unlocked, LockedBy, Written, GalleryInv, LocksKept, Shapes
<1>6. EventsKept'
  BY <1>b, <1>c, <1>d DEF GalleryInv, EventsKept
<1> QED
  BY <1>1, <1>2, <1>3, <1>4, <1>5, <1>6 DEF GalleryInv

LEMMA MarkReadyKeeps ==
  ASSUME GalleryInv, MarkReady
  PROVE  GalleryInv'
<1>a. PICK m, u, old : m = worker.img /\ u = worker.url /\ old = IF row[m] = None THEN None ELSE row[m].url
  OBVIOUS
<1>b. /\ UNCHANGED <<used, puts, store, spool, topic, call, lock>>
      /\ Announced' = Announced /\ worker.pc \in {"ready"}
  BY DEF MarkReady, files, Handles, Announced, Uncommitted, Idle
<1>c. m \in Announced /\ m \in Media /\ (row[m] # None => Stored(m, u))
  BY <1>a, <1>b DEF GalleryInv, EventsKept, Announced, Shapes
<1>d. /\ DOMAIN worker' = DOMAIN worker /\ worker'.img = m /\ worker'.url = u
      /\ worker'.pc \in {"unspool", "park", "open"}
  BY <1>a, <1>b DEF MarkReady, NextAttempt, Step, Handles, GalleryInv, Shapes
<1>e. /\ DOMAIN row' = Media
      /\ \A x \in Media : row[x] = None => row'[x] = None
      /\ \A x \in Media : row[x] # None =>
           \/ row'[x] = row[x]
           \/ /\ DOMAIN row'[x] = DOMAIN row[x]
              /\ row'[x].status = "READY" /\ row'[x].url = u /\ x = m /\ Stored(m, u)
  <2>1. CASE row' = row
    BY <2>1 DEF GalleryInv, Shapes
  <2>2. CASE Written(m, "READY", u)
    BY <1>a, <1>c, <2>2, WrittenAt DEF GalleryInv
  <2> QED
    BY <1>a, <2>1, <2>2 DEF MarkReady
<1>f. Grow
  BY <1>b, NothingWritten DEF GalleryInv
<1>1. Shapes'
  BY <1>b, <1>d, <1>e DEF GalleryInv, Shapes
<1>2. RowsKept'
  <2> SUFFICES ASSUME NEW x \in Media, row'[x] # None PROVE RowOK(x)'
    BY DEF RowsKept
  <2>1. RowOK(x)
    BY <1>e DEF GalleryInv, RowsKept
  <2>2. CASE row'[x] = row[x]
    BY <1>b, <1>f, <2>1, <2>2, UrlsStay, BytesStay DEF GalleryInv, RowOK, Link
  <2>3. CASE row'[x].status = "READY" /\ row'[x].url = u /\ x = m /\ Stored(m, u)
    BY <1>b, <2>1, <2>3 DEF RowOK, UrlOf, Own, Stored, HasBytes
  <2> QED
    BY <1>e, <2>2, <2>3
<1>3. CallsKept'
  BY <1>b, <1>e, <1>f, CallStays DEF GalleryInv, CallsKept, Idle, CallOK, AddOK, DeleteOK, Announced, Shapes
<1>4. AddsApart'
  BY DEF MarkReady, files, LockedBy, Unlocked, Written, Handles, Step, NextAttempt, GalleryInv,
  Shapes, AddsApart, Idle
<1>5. LocksKept'
  BY DEF MarkReady, Unlocked, LockedBy, Written, GalleryInv, LocksKept, Shapes
<1>6. EventsKept'
  BY <1>b, <1>c, <1>d, <1>e DEF GalleryInv, EventsKept, Stored, Own
<1> QED
  BY <1>1, <1>2, <1>3, <1>4, <1>5, <1>6 DEF GalleryInv

LEMMA UnspoolKeeps ==
  ASSUME GalleryInv, Unspool
  PROVE  GalleryInv'
<1>1. Shapes'
  BY DEF Unspool, gallery, Handles, Step, GalleryInv, Shapes, Idle
<1>2. RowsKept'
  <2> SUFFICES ASSUME NEW x \in Media, row[x] # None PROVE RowOK(x)'
    BY DEF RowsKept, Unspool, gallery
  <2>1. RowOK(x) /\ row' = row /\ used' = used /\ UNCHANGED <<puts, store>>
    BY DEF GalleryInv, RowsKept, Unspool, gallery
  <2>2. x \in spool => x \in spool' \/ x = worker.img
    BY DEF Unspool
  <2>3. x = worker.img => \E n \in 1 .. puts[x] : <<x, n>> \in store
    BY DEF GalleryInv, EventsKept, Unspool, Handles, Stored, Own
  <2> QED
    BY <2>1, <2>2, <2>3 DEF RowOK, UrlOf, Own, Stored, HasBytes, Link
<1>3. CallsKept'
  <2>1. /\ UNCHANGED <<row, used, puts, store, call>> /\ Announced' = Announced /\ Grow
        /\ worker.img \in Announced /\ spool \ {worker.img} \subseteq spool'
    BY NothingWritten DEF Unspool, Handles, gallery, GalleryInv, EventsKept, Announced, Uncommitted, Idle
  <2>2. \A d \in Calls : Uncommitted(d) /\ call[d].img \in spool => call[d].img \in spool'
    BY <2>1 DEF Announced
  <2> QED
    BY <2>1, <2>2, CallStays DEF GalleryInv, CallsKept, Idle
<1>4. AddsApart'
  BY DEF Unspool, gallery, Handles, Step, GalleryInv, Shapes, AddsApart, Idle
<1>5. LocksKept'
  BY DEF Unspool, gallery, Handles, Step, GalleryInv, Shapes, LocksKept
<1>6. EventsKept'
  BY DEF Unspool, gallery, Handles, Step, GalleryInv, Shapes, EventsKept, Announced, Uncommitted,
  Own, Stored, Idle
<1> QED
  BY <1>1, <1>2, <1>3, <1>4, <1>5, <1>6 DEF GalleryInv

LEMMA DeadLetterKeeps ==
  ASSUME GalleryInv, DeadLetter
  PROVE  GalleryInv'
<1>1. Shapes'
  BY DEF DeadLetter, gallery, files, Handles, Step, GalleryInv, Shapes, Idle
<1>2. RowsKept'
  BY NothingWritten, RowsStay DEF DeadLetter, gallery, files, GalleryInv
<1>3. CallsKept'
  BY DEF DeadLetter, gallery, files, Handles, Step, GalleryInv, Shapes, CallsKept, CallOK, AddOK,
  DeleteOK, Announced, Uncommitted, Sending, UrlOf, Own, Stored, Idle, Link
<1>4. AddsApart'
  BY DEF DeadLetter, gallery, files, Handles, Step, GalleryInv, Shapes, AddsApart, Idle
<1>5. LocksKept'
  BY DEF DeadLetter, gallery, files, Handles, Step, GalleryInv, Shapes, LocksKept
<1>6. EventsKept'
  BY DEF DeadLetter, gallery, files, Handles, Step, GalleryInv, Shapes, EventsKept, Announced,
  Uncommitted, Own, Stored, Idle
<1> QED
  BY <1>1, <1>2, <1>3, <1>4, <1>5, <1>6 DEF GalleryInv

LEMMA CommitMessagesKeeps ==
  ASSUME GalleryInv, CommitMessages
  PROVE  GalleryInv'
<1>1. Shapes'
  BY DEF CommitMessages, gallery, files, Handles, Waiting, GalleryInv, Shapes, Idle
<1>2. RowsKept'
  BY NothingWritten, RowsStay DEF CommitMessages, gallery, files, GalleryInv
<1>3. CallsKept'
  BY DEF CommitMessages, gallery, files, Handles, Waiting, GalleryInv, Shapes, CallsKept, CallOK,
  AddOK, DeleteOK, Announced, Uncommitted, Sending, UrlOf, Own, Stored, Idle, Link
<1>4. AddsApart'
  BY DEF CommitMessages, gallery, files, Handles, Waiting, GalleryInv, Shapes, AddsApart, Idle
<1>5. LocksKept'
  BY DEF CommitMessages, gallery, files, Handles, Waiting, GalleryInv, Shapes, LocksKept
<1>6. EventsKept'
  <2>1. Announced' = Announced /\ UNCHANGED <<row, puts, store>> /\ worker'.pc = "fetch"
    BY DEF CommitMessages, gallery, files, Waiting, Announced, Uncommitted, Idle
  <2>2. topic # <<>>
    BY DEF CommitMessages, Handles, GalleryInv, EventsKept
  <2>3. Tail(topic) \in Seq(Announced)
    BY <2>2 DEF GalleryInv, EventsKept
  <2> QED
    BY <2>1, <2>3 DEF CommitMessages, EventsKept
<1> QED
  BY <1>1, <1>2, <1>3, <1>4, <1>5, <1>6 DEF GalleryInv

LEMMA WorkerDiesKeeps ==
  ASSUME GalleryInv, WorkerDies
  PROVE  GalleryInv'
<1>1. Shapes'
  BY DEF WorkerDies, gallery, files, Waiting, GalleryInv, Shapes, Idle
<1>2. RowsKept'
  BY NothingWritten, RowsStay DEF WorkerDies, gallery, files, GalleryInv
<1>3. CallsKept'
  BY DEF WorkerDies, gallery, files, Waiting, GalleryInv, Shapes, CallsKept, CallOK, AddOK, DeleteOK,
  Announced, Uncommitted, Sending, UrlOf, Own, Stored, Idle, Link
<1>4. AddsApart'
  BY DEF WorkerDies, gallery, files, Waiting, GalleryInv, Shapes, AddsApart, Idle
<1>5. LocksKept'
  BY DEF WorkerDies, gallery, files, Waiting, GalleryInv, Shapes, LocksKept
<1>6. EventsKept'
  BY DEF WorkerDies, gallery, files, Waiting, GalleryInv, Shapes, EventsKept, Announced, Uncommitted,
  Own, Stored, Idle
<1> QED
  BY <1>1, <1>2, <1>3, <1>4, <1>5, <1>6 DEF GalleryInv

--------------------------------------------------------------------------------
\* A listing starts with links, which are good whatever the store has.
LEMMA GalleryStarts == Init => GalleryInv
<1> SUFFICES ASSUME Init PROVE GalleryInv
  OBVIOUS
<1>1. used \subseteq Media
  BY UploadsAssumption DEF Init, Media
<1>2. \A m \in Media : row[m] # None =>
        /\ m \in used /\ row[m].status = "READY" /\ row[m].url = Link(m)
        /\ DOMAIN row[m] = {"status", "url", "cover", "sort"}
  <2> SUFFICES ASSUME NEW m \in Media, row[m] # None
               PROVE  /\ m \in used /\ row[m].status = "READY" /\ row[m].url = Link(m)
                      /\ DOMAIN row[m] = {"status", "url", "cover", "sort"}
    OBVIOUS
  <2> DEFINE cover == m = CoverOf(used)
  <2>1. m \in used /\ row[m] = Row("READY", Link(m), cover, 0)
    BY DEF Init
  <2> HIDE DEF cover
  <2> QED
    BY <2>1 DEF Row
<1>3. Shapes
  <2>1. DOMAIN worker = {"pc", "img", "attempt", "url"}
    BY DEF Init, Waiting
  <2>2. DOMAIN row = Media /\ DOMAIN call = Calls /\ DOMAIN lock = Calls /\ puts \in [Media -> Nat]
    BY DEF Init
  <2>3. \A c \in Calls : call[c] = Idle
    BY DEF Init
  <2> QED
    BY <1>1, <1>2, <2>1, <2>2, <2>3 DEF Shapes
<1>4. RowsKept
  BY <1>2 DEF RowsKept, RowOK, UrlOf, Link
<1>5. CallsKept /\ AddsApart /\ LocksKept /\ EventsKept
  BY DEF Init, CallsKept, AddsApart, LocksKept, EventsKept, Waiting, Idle
<1> QED
  BY <1>3, <1>4, <1>5 DEF GalleryInv

\* Every step keeps the invariant.
LEMMA GalleryKept == GalleryInv /\ [Next]_vars => GalleryInv'
<1> SUFFICES ASSUME GalleryInv, [Next]_vars PROVE GalleryInv'
  OBVIOUS
<1>1. ASSUME NEW c \in Calls, Request(c) PROVE GalleryInv'
  <2>1. ASSUME NEW m \in Media, NEW cover \in BOOLEAN, AddImage(c, m, cover) PROVE GalleryInv'
    BY <2>1, ReceiveKeeps DEF AddImage
  <2>2. ASSUME NEW m \in Media, AddVideo(c, m) PROVE GalleryInv'
    BY <2>2, ReceiveKeeps DEF AddVideo
  <2> QED
    BY <1>1, <2>1, <2>2, SetCoverKeeps, DeleteMediaKeeps, ReorderKeeps DEF Request
<1>2. ASSUME NEW c \in Calls, Proceed(c) PROVE GalleryInv'
  BY <1>2, ClearCoversKeeps, LockRowKeeps, LockedKeeps, AbortKeeps, CommitAddKeeps,
     RaiseCoverKeeps, CommitReorderKeeps, QueueKeeps, UploadSpooledKeeps,
     UploadSpooledFailsKeeps, UnspoolInlineKeeps, FinishInlineKeeps, DeleteObjectKeeps
  DEF Proceed
<1>3. ASSUME NEW c \in Calls, QueueRefused(c) \/ RequestDies(c) PROVE GalleryInv'
  BY <1>3, QueueRefusedKeeps, RequestDiesKeeps
<1>4. CASE Work \/ WorkerDies
  BY <1>4, FetchKeeps, OpenSpoolKeeps, PutObjectKeeps, MarkFailedKeeps, MarkReadyKeeps,
     UnspoolKeeps, DeadLetterKeeps, CommitMessagesKeeps, WorkerDiesKeeps DEF Work
<1>5. CASE UNCHANGED vars
  <2>1. UNCHANGED <<row, used, spool, puts, store, call, lock, topic, worker>>
    BY <1>5 DEF vars
  <2>2. Announced' = Announced
    BY <2>1 DEF Announced, Uncommitted, Idle
  <2>3. Shapes' /\ AddsApart' /\ LocksKept' /\ EventsKept'
    BY <2>1, <2>2 DEF GalleryInv, Shapes, AddsApart, LocksKept, EventsKept, Stored, Own, Idle
  <2>4. Grow
    BY <2>1, NothingWritten DEF GalleryInv
  <2>5. RowsKept' /\ CallsKept'
    BY <2>1, <2>2, <2>4, RowsStay, CallStays DEF GalleryInv, CallsKept, Idle
  <2> QED
    BY <2>3, <2>5 DEF GalleryInv
<1> QED
  BY <1>1, <1>2, <1>3, <1>4, <1>5 DEF Next

\* The invariant says more than the two properties: what a row names is an object the
\* store wrote for that very file.
LEMMA GalleryTells == GalleryInv => ReadyIsStored /\ BytesKept
BY DEF GalleryInv, RowsKept, RowOK, Stored, HasBytes, ReadyIsStored, BytesKept

\* A row that reads READY shows a file that is there, whichever requests and
\* deliveries overlap, fail or die (uploadSpooled and mediaUploader put before
\* they write the row, deleteMedia deletes the row before its object).
THEOREM ReadyMeansStored == Spec => []ReadyIsStored
BY GalleryStarts, GalleryKept, GalleryTells, PTL DEF Spec

\* Whatever fails, the bytes of an accepted file are in the spool or in the
\* store while its row is there (finishInline and mediaUploader, which keep the
\* spooled file until the store has its bytes).
THEOREM NoBytesLost == Spec => []BytesKept
BY GalleryStarts, GalleryKept, GalleryTells, PTL DEF Spec
================================================================================
