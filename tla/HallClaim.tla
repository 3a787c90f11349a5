------------------------------- MODULE HallClaim -------------------------------
(***************************************************************************)
(* CreateHallBooking and the release of a hall, one action per SQL         *)
(* statement, with the locks PostgreSQL takes under READ COMMITTED: why    *)
(* Booking may treat each of them as one step.                             *)
(*                                                                         *)
(* A claim walks its dates in order: advisory lock of (venue, date), check *)
(* for a clash among the committed rows, INSERT ... ON CONFLICT of its own *)
(* row, next date.  Its rows become visible when it commits.  A release    *)
(* (SetStatus ending the booking) takes no advisory lock at all.           *)
(***************************************************************************)
EXTENDS Integers, FiniteSets

CONSTANTS
  Bookings,     \* one transaction per booking, and its release later
  Facilities,
  LastDate,
  Request,      \* [Bookings -> [facility, first, last, slot]]
  Keys,         \* advisory lock keys, 32-bit integers
  Key,          \* [Facilities \X Dates -> Keys], hashtext: two days may share a key
  NoBooking

VARIABLES
  pc,           \* [Bookings -> Step], the statement each transaction is at
  step,         \* [Bookings -> Nat], how many dates it has claimed
  advisory,     \* [Keys -> Bookings], holder of the advisory lock
  slotOwner,    \* [SlotRows -> Bookings], committed rows, as in Booking
  rowLock,      \* [SlotRows -> Bookings], the transaction that wrote or locked a
                \* row and has not ended
  written       \* [Bookings -> SUBSET SlotRows], uncommitted BOOKED rows

vars == <<pc, step, advisory, slotOwner, rowLock, written>>

Dates     == 1..LastDate
SlotTypes == {"MORNING", "EVENING", "FULL_DAY"}
SlotRows  == Facilities \X Dates \X SlotTypes

Step == {"idle", "locking", "checking", "inserting", "finishing", "booked",
         "refused", "rolledBack", "releasing", "released"}

RequestType == [facility : Facilities, first : Dates, last : Dates, slot : SlotTypes]

ASSUME ConstantsAssumption ==
  /\ LastDate \in Nat
  /\ Request \in [Bookings -> RequestType]
  /\ \A b \in Bookings : Request[b].first <= Request[b].last
  /\ Key \in [Facilities \X Dates -> Keys]
  /\ NoBooking \notin Bookings

\* The i-th date a claim locks, from 0: ascending order.
DateAtBackwards(r, i) ==   \* mutant: some requests list their dates backwards
  IF r.slot = "FULL_DAY" THEN r.last - i ELSE r.first + i

DateAt(r, i) == r.first + i

DayOf(b) == <<Request[b].facility, DateAt(Request[b], step[b])>>
KeyOf(b) == Key[DayOf(b)]
RowOf(b) == <<DayOf(b)[1], DayOf(b)[2], Request[b].slot>>

TypeOK ==
  /\ pc \in [Bookings -> Step]
  /\ step \in [Bookings -> Nat]
  /\ \A b \in Bookings : step[b] <= Request[b].last - Request[b].first
  /\ advisory \in [Keys -> Bookings \cup {NoBooking}]
  /\ slotOwner \in [SlotRows -> Bookings \cup {NoBooking}]
  /\ rowLock \in [SlotRows -> Bookings \cup {NoBooking}]
  /\ written \in [Bookings -> SUBSET SlotRows]

Init ==
  /\ pc = [b \in Bookings |-> "idle"]
  /\ step = [b \in Bookings |-> 0]
  /\ advisory = [k \in Keys |-> NoBooking]
  /\ slotOwner = [s \in SlotRows |-> NoBooking]
  /\ rowLock = [s \in SlotRows |-> NoBooking]
  /\ written = [b \in Bookings |-> {}]

Goto(b, from, to) ==
  /\ pc[b] = from
  /\ pc' = [pc EXCEPT ![b] = to]

--------------------------------------------------------------------------------
(* The claim *)

Begin(b) ==
  /\ Goto(b, "idle", "locking")
  /\ UNCHANGED <<step, advisory, slotOwner, rowLock, written>>

\* pg_advisory_xact_lock: waits while another transaction holds it, which it
\* does to its end.
LockNothing(b) ==   \* mutant: the lock falls with its own statement
  /\ Goto(b, "locking", "checking")
  /\ UNCHANGED <<step, advisory, slotOwner, rowLock, written>>

Lock(b) ==
  /\ Goto(b, "locking", "checking")
  /\ advisory[KeyOf(b)] \in {b, NoBooking}
  /\ advisory' = [advisory EXCEPT ![KeyOf(b)] = b]
  /\ UNCHANGED <<step, slotOwner, rowLock, written>>

\* Committed BOOKED rows of the date that overlap the slot, the slot's own row
\* aside: FULL_DAY against anything, anything against FULL_DAY.
ClashNever(b) == FALSE   \* mutant: the unique index alone

Clash(b) ==
  \E t \in SlotTypes :
    /\ t = "FULL_DAY" \/ Request[b].slot = "FULL_DAY"
    /\ slotOwner[<<DayOf(b)[1], DayOf(b)[2], t>>] # NoBooking

Check(b) ==
  /\ Goto(b, "checking", IF Clash(b) THEN "refused" ELSE "inserting")
  /\ UNCHANGED <<step, advisory, slotOwner, rowLock, written>>

AtLastDate(b) == step[b] = Request[b].last - Request[b].first

\* INSERT ... ON CONFLICT DO UPDATE ... WHERE status = 'AVAILABLE' waits for the
\* row, locks it in either case, and claims it only if it is free.
Insert(b) ==
  /\ pc[b] = "inserting"
  /\ rowLock[RowOf(b)] = NoBooking
  /\ rowLock' = [rowLock EXCEPT ![RowOf(b)] = b]
  /\ IF slotOwner[RowOf(b)] = NoBooking
     THEN /\ written' = [written EXCEPT ![b] = @ \cup {RowOf(b)}]
          /\ IF AtLastDate(b)
             THEN pc' = [pc EXCEPT ![b] = "finishing"] /\ UNCHANGED step
             ELSE pc' = [pc EXCEPT ![b] = "locking"] /\ step' = [step EXCEPT ![b] = @ + 1]
     ELSE /\ pc' = [pc EXCEPT ![b] = "refused"]
          /\ UNCHANGED <<step, written>>
  /\ UNCHANGED <<advisory, slotOwner>>

\* Packages, add-ons, history and coupons; a coupon that ran out meanwhile
\* refuses the booking.
CouponUnavailable(b) ==
  /\ Goto(b, "finishing", "refused")
  /\ UNCHANGED <<step, advisory, slotOwner, rowLock, written>>

\* What the end of a transaction does to its locks.
EndTransaction(b) ==
  /\ advisory' = [k \in Keys |-> IF advisory[k] = b THEN NoBooking ELSE advisory[k]]
  /\ rowLock' = [s \in SlotRows |-> IF rowLock[s] = b THEN NoBooking ELSE rowLock[s]]
  /\ written' = [written EXCEPT ![b] = {}]

Commit(b) ==
  /\ Goto(b, "finishing", "booked")
  /\ slotOwner' = [s \in SlotRows |-> IF s \in written[b] THEN b ELSE slotOwner[s]]
  /\ EndTransaction(b)
  /\ UNCHANGED step

\* The deferred Rollback, on every early return.
Rollback(b) ==
  /\ Goto(b, "refused", "rolledBack")
  /\ EndTransaction(b)
  /\ UNCHANGED <<step, slotOwner>>

\* The connection or the process is lost: the server rolls back, the claim to
\* nothing and a release to the booking it was to end.
ConnectionLost(b) ==
  /\ pc[b] \in {"locking", "checking", "inserting", "finishing", "releasing"}
  /\ pc' = [pc EXCEPT ![b] = IF @ = "releasing" THEN "booked" ELSE "rolledBack"]
  /\ EndTransaction(b)
  /\ UNCHANGED <<step, slotOwner>>

--------------------------------------------------------------------------------
(* The release, when the booking ends *)

\* UPDATE hall_availability ... WHERE booking_id = b waits for the rows.
Release(b) ==
  /\ Goto(b, "booked", "releasing")
  /\ \A s \in SlotRows : slotOwner[s] = b => rowLock[s] = NoBooking
  /\ rowLock' = [s \in SlotRows |-> IF slotOwner[s] = b THEN b ELSE rowLock[s]]
  /\ UNCHANGED <<step, advisory, slotOwner, written>>

CommitRelease(b) ==
  /\ Goto(b, "releasing", "released")
  /\ slotOwner' = [s \in SlotRows |-> IF slotOwner[s] = b THEN NoBooking ELSE slotOwner[s]]
  /\ EndTransaction(b)
  /\ UNCHANGED step

--------------------------------------------------------------------------------
Progress(b) ==
  \/ Lock(b) \/ Check(b) \/ Insert(b) \/ Commit(b) \/ Rollback(b) \/ CommitRelease(b)

Next == \E b \in Bookings :
  \/ Begin(b) \/ Progress(b)
  \/ CouponUnavailable(b) \/ ConnectionLost(b) \/ Release(b)

Spec == Init /\ [][Next]_vars

\* The server runs every statement it is not made to wait with, and serves those
\* that wait for a row in turn, however often others lock it again.
FairSpec == Spec /\ \A b \in Bookings : WF_vars(Progress(b)) /\ SF_vars(Insert(b))

--------------------------------------------------------------------------------
(* Properties *)

\* What b has claimed, committed or not.
ClaimedBy(b) == written[b] \cup {s \in SlotRows : slotOwner[s] = b}

Overlap(s, t) ==
  /\ s[1] = t[1] /\ s[2] = t[2]
  /\ s[3] = t[3] \/ "FULL_DAY" \in {s[3], t[3]}

\* Not even uncommitted claims of two transactions overlap: the loser is turned
\* away by the advisory lock, the clash check and the conditional insert before
\* it writes anything (the unique index alone would let FULL_DAY and EVENING
\* through, being different rows).
ClaimsExclusive ==
  \A a, b \in Bookings :
    a # b => \A s \in ClaimedBy(a), t \in ClaimedBy(b) : ~Overlap(s, t)

\* All the rows b asks for.
SlotsOf(b) ==
  {Request[b].facility} \X (Request[b].first .. Request[b].last) \X {Request[b].slot}

\* A booked venue has all its dates; any other transaction has left no trace.
AllDatesOrNone ==
  \A b \in Bookings :
    {s \in SlotRows : slotOwner[s] = b} =
      IF pc[b] \in {"booked", "releasing"} THEN SlotsOf(b) ELSE {}

\* A claim owns what it was told it owns: its dates, all of them or none, and no
\* half-day of anybody else's (CreateHallBooking's transaction).
ClaimsSound == ClaimsExclusive /\ AllDatesOrNone

HalfDays == Facilities \X Dates \X {"MORNING", "EVENING"}

Holder(h) ==
  LET day == slotOwner[<<h[1], h[2], "FULL_DAY">>]
  IN IF day # NoBooking THEN day ELSE slotOwner[h]

\* The statements, interleaved in any way, implement the atomic calendar.
Promise == INSTANCE SlotPromise WITH holder <- [h \in HalfDays |-> Holder(h)]
SlotPromiseHolds == Promise!Spec

\* "Dates are claimed in ascending order, so two multi-day bookings cannot
\* deadlock": every claim that has begun ends, and so does every release,
\* without the server's deadlock detector, which is left out, having to abort
\* one.  It takes an injective Key: when two days share a key by chance, the
\* order of the dates is not an order of the locks.
EveryTransactionEnds ==
  \A b \in Bookings :
    /\ pc[b] = "locking" ~> pc[b] \in {"booked", "rolledBack"}
    /\ pc[b] = "releasing" ~> pc[b] \in {"released", "booked"}
================================================================================
