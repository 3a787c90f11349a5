-------------------------------- MODULE Reviews --------------------------------
(***************************************************************************)
(* Reviews and the rating each venue stores about them                     *)
(* (internal/review/handler, and the rating routes of                      *)
(* internal/admin/handler/facility.go).                                    *)
(*                                                                         *)
(* facilities.avg_rating and review_count are a copy of what the reviews   *)
(* table says, refreshed in the transaction of every change to a review.   *)
(* The statements of those transactions interleave: the row is written,    *)
(* the venue is locked, the copy is computed from a snapshot, and only the *)
(* commit shows any of it.  An admin may pin a rating earned elsewhere and *)
(* hand it back later.                                                     *)
(***************************************************************************)
EXTENDS Integers, FiniteSets, Functions

CONSTANTS
  Users, Venues,
  Stars,         \* ratings a reviewer may give
  Pins,          \* ratings an admin may pin, an import among them
  Writers,       \* concurrent requests that write a review
  MaxWrites,     \* bound: requests of reviewers and moderators
  MaxPins,       \* bound: ratings pinned and handed back
  Admin, Nothing

ASSUME ReviewsAssumption ==
  /\ Stars \subseteq 1..5
  /\ MaxWrites \in Nat /\ MaxPins \in Nat
  /\ Admin \notin Users

VARIABLES
  review,    \* [Keys -> the live, committed review of a user at a venue, or Nothing]
  rating,    \* [Venues -> stored value, rating_is_manual, and who wrote it last]
  tx,        \* [Calls -> the request's open transaction, or Nothing]
  clearing,  \* [Venues -> snapshot of an UPDATE handing the rating back, or Nothing]
  earned,    \* [Writers -> what the request found a booking for, or Nothing]
  writes, pins

reviewVars == <<review, rating, tx, clearing, earned, writes, pins>>

(* The partial unique index keeps one live review of a user at a venue. *)
Keys == Users \X Venues
Review(stars, status) == [stars |-> stars, status |-> status]

-----------------------------------------------------------------------------
(* What the reviews say of a venue.                                        *)

Live(rows, v) == {u \in Users : rows[<<u, v>>] # Nothing}
Approved(rows, v) == {u \in Live(rows, v) : rows[<<u, v>>].status = "APPROVED"}

StarsOf(rows, users, v) == [u \in users |-> rows[<<u, v>>].stars]

\* COALESCE(avg(rating), 0) and count(*), the average as a sum over its count.
AvgAndCount(stars) ==
  [sum |-> FoldFunction(+, 0, stars), count |-> Cardinality(DOMAIN stars)]

\* What the public is shown of them: the reviews of the venue's page, and the
\* figures above them.
listForFacility(v) == {u \in Live(review, v) : review[<<u, v>>].status = "APPROVED"}
summary(v) == AvgAndCount(StarsOf(review, Approved(review, v), v))

-----------------------------------------------------------------------------
(* Transactions that change a review.                                      *)

Open == {c \in Writers : tx[c] # Nothing}
VenueOf(c) == tx[c].key[2]

\* Transactions holding the venue's row FOR UPDATE, and FOR KEY SHARE: the
\* foreign key of an INSERTed review takes the second.
Lockers(v) == {c \in Open : VenueOf(c) = v /\ tx[c].phase # "written"}
Sharers(v) == {c \in Open : VenueOf(c) = v /\ tx[c].inserted}

\* The first statement.  It waits for another transaction that holds the same
\* review, or its place in the unique index; an INSERT also for one that has
\* the venue locked.
Write(c, k, new, inserts) ==
  /\ tx[c] = Nothing /\ writes < MaxWrites
  /\ \A d \in Open : tx[d].key # k
  /\ inserts => Lockers(k[2]) = {}
  /\ tx' = [tx EXCEPT ![c] = [key |-> k, row |-> new, inserted |-> inserts,
                              phase |-> "written", value |-> Nothing]]
  /\ earned' = [earned EXCEPT ![c] = Nothing]
  /\ writes' = writes + 1
  /\ UNCHANGED <<review, rating, clearing, pins>>

\* POST /reviews, before its transaction: the user has a CONFIRMED or COMPLETED
\* booking of the venue.  Bookings come and go at any time, and nothing locks the
\* one found here.
checkStayed(c, k) ==
  /\ tx[c] = Nothing /\ earned[c] = Nothing /\ writes < MaxWrites
  /\ earned' = [earned EXCEPT ![c] = k]
  /\ UNCHANGED <<review, rating, tx, clearing, writes, pins>>

\* Published once an admin approves it.  A second live review is answered 409 and
\* changes nothing.
create(c, k, stars) ==
  earned[c] = k /\ review[k] = Nothing /\ Write(c, k, Review(stars, "PENDING"), TRUE)

\* An admin's INSERT ... ON CONFLICT DO UPDATE.
adminCreate(c, k, stars) == Write(c, k, Review(stars, "APPROVED"), review[k] = Nothing)

adminUpdate(c, k, stars) ==
  review[k] # Nothing /\ Write(c, k, Review(stars, review[k].status), FALSE)

adminUpdateStatus(c, k, status) ==
  review[k] # Nothing /\ Write(c, k, Review(review[k].stars, status), FALSE)

adminDelete(c, k) == review[k] # Nothing /\ Write(c, k, Nothing, FALSE)

\* DELETE /reviews/{id}, by its author or an admin.
delete(c, k, by) ==
  by \in {k[1], Admin} /\ review[k] # Nothing /\ Write(c, k, Nothing, FALSE)

\* Mutant: the venue is not locked before its reviews are counted.
LockNothing(c) ==
  /\ c \in Open /\ tx[c].phase = "written"
  /\ tx' = [tx EXCEPT ![c].phase = "locked"]
  /\ UNCHANGED <<review, rating, clearing, earned, writes, pins>>

\* SELECT 1 FROM facilities ... FOR UPDATE, which waits for every other holder.
\* Two transactions that have both inserted wait for each other here, until
\* PostgreSQL aborts one.
LockVenue(c) ==
  /\ c \in Open /\ tx[c].phase = "written"
  /\ Lockers(VenueOf(c)) \cup (Sharers(VenueOf(c)) \ {c}) = {}
  /\ tx' = [tx EXCEPT ![c].phase = "locked"]
  /\ UNCHANGED <<review, rating, clearing, earned, writes, pins>>

\* The UPDATE sees what is committed and the transaction's own row, and skips a
\* venue whose rating is pinned.
recalcRating(c) ==
  LET seen == [review EXCEPT ![tx[c].key] = tx[c].row]
      v == VenueOf(c)
  IN /\ c \in Open /\ tx[c].phase = "locked"
     /\ tx' = [tx EXCEPT ![c].phase = IF rating[v].manual THEN "skipped" ELSE "counted",
                         ![c].value = AvgAndCount(StarsOf(seen, Approved(seen, v), v))]
     /\ UNCHANGED <<review, rating, clearing, earned, writes, pins>>

Commit(c) ==
  /\ c \in Open /\ tx[c].phase \in {"counted", "skipped"}
  /\ review' = [review EXCEPT ![tx[c].key] = tx[c].row]
  /\ rating' = IF tx[c].phase = "skipped" THEN rating
               ELSE [rating EXCEPT ![VenueOf(c)].value = tx[c].value,
                                   ![VenueOf(c)].by = "reviews"]
  /\ tx' = [tx EXCEPT ![c] = Nothing]
  /\ UNCHANGED <<clearing, earned, writes, pins>>

\* An error, the end of the request's context, or the deadlock detector.
Rollback(c) ==
  /\ c \in Open
  /\ tx' = [tx EXCEPT ![c] = Nothing]
  /\ UNCHANGED <<review, rating, clearing, earned, writes, pins>>

-----------------------------------------------------------------------------
(* The rating routes of an admin: one UPDATE each, which waits while the   *)
(* venue is locked.                                                        *)

setRating(v, pin) ==
  /\ Lockers(v) = {} /\ pins < MaxPins
  /\ rating' = [rating EXCEPT ![v] = [value |-> pin, manual |-> TRUE, by |-> "admin"]]
  /\ pins' = pins + 1
  /\ UNCHANGED <<review, tx, clearing, earned, writes>>

\* Its subqueries read the snapshot it starts with even if it then waits, and
\* count every live review, approved or not.
StartClear(v) ==
  /\ clearing[v] = Nothing /\ pins < MaxPins
  /\ clearing' = [clearing EXCEPT ![v] = AvgAndCount(StarsOf(review, Live(review, v), v))]
  /\ pins' = pins + 1
  /\ UNCHANGED <<review, rating, tx, earned, writes>>

clearRating(v) ==
  /\ clearing[v] # Nothing /\ Lockers(v) = {}
  /\ rating' = [rating EXCEPT ![v] = [value |-> clearing[v], manual |-> FALSE, by |-> "clear"]]
  /\ clearing' = [clearing EXCEPT ![v] = Nothing]
  /\ UNCHANGED <<review, tx, earned, writes, pins>>

ReviewsInit ==
  /\ review = [k \in Keys |-> Nothing]
  /\ rating \in [Venues -> {[value |-> [sum |-> 0, count |-> 0], manual |-> FALSE, by |-> "reviews"]}
                           \cup {[value |-> p, manual |-> TRUE, by |-> "admin"] : p \in Pins}]
  /\ tx = [c \in Writers |-> Nothing]
  /\ clearing = [v \in Venues |-> Nothing]
  /\ earned = [c \in Writers |-> Nothing]
  /\ writes = 0 /\ pins = 0

ReviewRequest(c) ==
  \E k \in Keys :
    \/ checkStayed(c, k)
    \/ \E s \in Stars : create(c, k, s)
    \/ \E s \in Stars : adminCreate(c, k, s)
    \/ \E s \in Stars : adminUpdate(c, k, s)
    \/ \E status \in {"APPROVED", "REJECTED"} : adminUpdateStatus(c, k, status)
    \/ adminDelete(c, k)
    \/ \E by \in Users \cup {Admin} : delete(c, k, by)

Statement(c) == LockVenue(c) \/ recalcRating(c) \/ Commit(c) \/ Rollback(c)

ReviewsNext ==
  \/ \E c \in Writers : ReviewRequest(c) \/ Statement(c)
  \/ \E v \in Venues : (\E p \in Pins : setRating(v, p)) \/ StartClear(v) \/ clearRating(v)

ReviewsSpec == ReviewsInit /\ [][ReviewsNext]_reviewVars

-----------------------------------------------------------------------------
(* A pinned rating is the one an admin set: no review posted, approved or  *)
(* deleted meanwhile has replaced it.                                      *)
PinHolds == \A v \in Venues : rating[v].manual => rating[v].by = "admin"

(* The card of a venue whose rating a review's transaction wrote last      *)
(* shows the average and the number of the reviews its page lists,         *)
(* whichever reviews of it were posted, moderated and deleted at the same  *)
(* time.  A rating just handed back is left out: clearRating counts every  *)
(* live review, and from an older snapshot if it has to wait.              *)
CardMatches ==
  \A v \in Venues :
    ~rating[v].manual /\ rating[v].by = "reviews" =>
      rating[v].value = summary(v) /\ rating[v].value.count = Cardinality(listForFacility(v))

(* What a venue stores about its rating can be believed (recalcRating in   *)
(* internal/review/handler/handler.go).                                    *)
RatingTells == PinHolds /\ CardMatches

================================================================================
