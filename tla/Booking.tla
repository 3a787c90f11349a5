-------------------------------- MODULE Booking --------------------------------
(***************************************************************************)
(* The booking repository, one action per database transaction: venues     *)
(* booked by date and slot (hall_availability), hotel rooms booked by      *)
(* night and quantity (room_availability), coupons redeemed with a booking *)
(* (coupons.used_count), and every transition of bookings.status.          *)
(*                                                                         *)
(* A transaction is one step because each one locks what it decides on:    *)
(* SetStatus the booking row, a hall claim the advisory lock of its date   *)
(* (HallClaim opens that one up statement by statement), a room claim and  *)
(* a coupon redemption the row their conditional UPDATE writes.  The       *)
(* sweeper is several transactions, so it is several steps.                *)
(***************************************************************************)
EXTENDS Integers, FiniteSetsExt

CONSTANTS
  Bookings,     \* ids the INSERT may generate
  Facilities,
  LastDate,     \* dates are 1..LastDate
  RoomTypes,
  TotalRooms,   \* [RoomTypes -> Nat], room_types.total_rooms
  Coupons,
  Limits,       \* the values usage_limit may be given; no limit at all is any
                \* value above the number of bookings
  Requests,     \* what the service hands the repository
  Workers,      \* worker processes, each with a sweeper
  NoBooking,
  NoRequest

VARIABLES
  status,       \* [Bookings -> Status]
  hold,         \* [Bookings -> Hold]
  request,      \* [Bookings -> Requests], the row's venue, dates, rooms, coupons
  slotOwner,    \* [SlotRows -> Bookings], booking_id of a BOOKED row; NoBooking
                \* for an AVAILABLE row and for one never inserted
  bookedRooms,  \* [RoomNights -> Nat], room_availability.booked_rooms
  used,         \* [Coupons -> Nat], coupons.used_count
  limit,        \* [Coupons -> Limits], coupons.usage_limit
  usable,       \* [Coupons -> BOOLEAN], is_active, not deleted, within its dates
  sweep         \* [Workers -> SUBSET Bookings], ids a sweep read and has left

inventory == <<slotOwner, bookedRooms, used>>
couponSettings == <<limit, usable>>
vars == <<status, hold, request, inventory, couponSettings, sweep>>

--------------------------------------------------------------------------------
Live   == {"PENDING", "CONFIRMED"}
Ended  == {"CANCELLED", "EXPIRED", "REJECTED"}
Status == {"NONE"} \cup Live \cup Ended
Hold   == {"none", "running", "elapsed"}

Dates      == 1..LastDate
SlotTypes  == {"MORNING", "EVENING", "FULL_DAY"}
SlotRows   == Facilities \X Dates \X SlotTypes
RoomNights == RoomTypes \X Dates

\* A venue request takes one slot on every date first..last; a rooms request
\* takes rooms[t] rooms of every type t on the nights first..last - 1.
RequestType ==
  [kind : {"venue", "rooms"}, facility : Facilities, first : Dates, last : Dates,
   slot : SlotTypes, rooms : [RoomTypes -> Nat], coupons : SUBSET Coupons]

ASSUME ConstantsAssumption ==
  /\ LastDate \in Nat
  /\ TotalRooms \in [RoomTypes -> Nat]
  /\ Limits \subseteq Nat
  /\ Limits # {}
  /\ Requests \subseteq RequestType
  /\ NoBooking \notin Bookings
  /\ NoRequest \notin Requests

SlotsOf(r) ==
  IF r.kind = "venue" THEN {r.facility} \X (r.first .. r.last) \X {r.slot} ELSE {}

\* The quantity booked by r of a room type on a night: the checkout day is not
\* occupied.
RoomsOf(r, n) ==
  IF r.kind = "rooms" /\ r.first <= n[2] /\ n[2] < r.last THEN r.rooms[n[1]] ELSE 0

TypeOK ==
  /\ status \in [Bookings -> Status]
  /\ hold \in [Bookings -> Hold]
  /\ request \in [Bookings -> Requests \cup {NoRequest}]
  /\ slotOwner \in [SlotRows -> Bookings \cup {NoBooking}]
  /\ bookedRooms \in [RoomNights -> Nat]
  /\ used \in [Coupons -> Nat]
  /\ limit \in [Coupons -> Limits]
  /\ usable \in [Coupons -> BOOLEAN]
  /\ sweep \in [Workers -> SUBSET Bookings]

Init ==
  /\ status = [b \in Bookings |-> "NONE"]
  /\ hold = [b \in Bookings |-> "none"]
  /\ request = [b \in Bookings |-> NoRequest]
  /\ slotOwner = [s \in SlotRows |-> NoBooking]
  /\ bookedRooms = [n \in RoomNights |-> 0]
  /\ used = [c \in Coupons |-> 0]
  /\ limit \in [Coupons -> Limits]
  /\ usable = [c \in Coupons |-> TRUE]
  /\ sweep = [w \in Workers |-> {}]

--------------------------------------------------------------------------------
(* Creating a booking *)

\* The per-date check of CreateHallBooking: no BOOKED row that shares a half-day
\* with the slot, and the slot's own row free.
ClaimableByIndex(s) == slotOwner[s] = NoBooking   \* mutant: the unique index alone

Claimable(s) ==
  /\ slotOwner[s] = NoBooking
  /\ \A t \in SlotTypes :
       (t = "FULL_DAY" \/ s[3] = "FULL_DAY") => slotOwner[<<s[1], s[2], t>>] = NoBooking

\* The conditional UPDATE of a room night: total_rooms - booked_rooms >= quantity.
FitsOneRoom(r, n) ==   \* mutant: a room is left, whatever the quantity
  RoomsOf(r, n) > 0 => TotalRooms[n[1]] > bookedRooms[n]

Fits(r, n) ==
  RoomsOf(r, n) > 0 => TotalRooms[n[1]] - bookedRooms[n] >= RoomsOf(r, n)

\* coupon.Redeem: live, and below its limit, at the moment of the UPDATE.
RedeemableAtLimit(c) == usable[c] /\ used[c] <= limit[c]   \* mutant: off by one

Redeemable(c) == usable[c] /\ used[c] < limit[c]

Redeem(r) ==
  /\ \A c \in r.coupons : Redeemable(c)
  /\ used' = [c \in Coupons |-> IF c \in r.coupons THEN used[c] + 1 ELSE used[c]]

Insert(b, r, h) ==
  /\ status[b] = "NONE"
  /\ status' = [status EXCEPT ![b] = "PENDING"]
  /\ hold' = [hold EXCEPT ![b] = h]
  /\ request' = [request EXCEPT ![b] = r]

\* Every date or none: a clash on the last date rolls back the first.  A hall
\* booking gets no expiry, it waits for the owner.
CreateHallBooking(b, r) ==
  /\ r.kind = "venue"
  /\ Insert(b, r, "none")
  /\ \A s \in SlotsOf(r) : Claimable(s)
  /\ slotOwner' = [s \in SlotRows |-> IF s \in SlotsOf(r) THEN b ELSE slotOwner[s]]
  /\ Redeem(r)
  /\ UNCHANGED <<bookedRooms, couponSettings, sweep>>

\* Every room on every night or none.  The hold is the payment window.
CreateHotelBooking(b, r) ==
  /\ r.kind = "rooms"
  /\ Insert(b, r, "running")
  /\ \A n \in RoomNights : Fits(r, n)
  /\ bookedRooms' = [n \in RoomNights |-> bookedRooms[n] + RoomsOf(r, n)]
  /\ Redeem(r)
  /\ UNCHANGED <<slotOwner, couponSettings, sweep>>

--------------------------------------------------------------------------------
(* Changing a booking's status *)

\* What the end of b leaves of the slot rows, found by booking_id ...
SlotsFreedOnFirstDate(b) ==   \* mutant: the first date only
  [slotOwner EXCEPT ![<<request[b].facility, request[b].first, request[b].slot>>] = NoBooking]

SlotsAfter(b) ==
  [s \in SlotRows |-> IF slotOwner[s] = b THEN NoBooking ELSE slotOwner[s]]

\* ... of the room counts, night by night, never below zero ...
RoomsAfterOneEach(b) ==   \* mutant: one room per line instead of its quantity
  [n \in RoomNights |-> IF RoomsOf(request[b], n) > 0 THEN bookedRooms[n] - 1 ELSE bookedRooms[n]]

RoomsAfter(b) ==
  [n \in RoomNights |->
     LET left == bookedRooms[n] - RoomsOf(request[b], n) IN IF left > 0 THEN left ELSE 0]

\* ... and of the coupon uses (coupon.Release), never below zero.
UsesAfter(b) ==
  [c \in Coupons |->
     IF c \in request[b].coupons /\ used[c] > 0 THEN used[c] - 1 ELSE used[c]]

\* All of it in the transaction that ends b.
ReleaseInventory(b) ==
  /\ slotOwner' = SlotsAfter(b)
  /\ bookedRooms' = RoomsAfter(b)
  /\ used' = UsesAfter(b)

\* The status is re-read FOR UPDATE against the expected ones; the release is
\* part of the same transaction.
SetStatus(b, to, from) ==
  /\ status[b] \in from
  /\ status' = [status EXCEPT ![b] = to]
  /\ IF to \in Ended /\ status[b] \in Live
     THEN ReleaseInventory(b)
     ELSE UNCHANGED inventory
  /\ UNCHANGED <<hold, request, couponSettings>>

\* The customer, the owner of the venue or an admin.
Cancel(b) ==
  /\ SetStatus(b, "CANCELLED", {"PENDING", "CONFIRMED"})
  /\ UNCHANGED sweep

\* The owner of the venue, or an admin.
Decide(b, confirm) ==
  /\ SetStatus(b, IF confirm THEN "CONFIRMED" ELSE "REJECTED", {"PENDING"})
  /\ UNCHANGED sweep

\* The booking half of HandleWebhook when the total is reached (see Payment).
PaidInFull(b) ==
  /\ status[b] \in Live
  /\ status' = [status EXCEPT ![b] = "CONFIRMED"]
  /\ hold' = [hold EXCEPT ![b] = "none"]
  /\ UNCHANGED <<request, inventory, couponSettings, sweep>>

--------------------------------------------------------------------------------
(* The sweeper, the clock and the coupon screens *)

HoldElapses(b) ==
  /\ hold[b] = "running"
  /\ hold' = [hold EXCEPT ![b] = "elapsed"]
  /\ UNCHANGED <<status, request, inventory, couponSettings, sweep>>

NotYetDue == {b \in Bookings : status[b] = "PENDING" /\ hold[b] = "running"}   \* mutant: < for >

Overdue == {b \in Bookings : status[b] = "PENDING" /\ hold[b] = "elapsed"}

\* ExpireHolds reads the ids first, outside any transaction.
SweepRead(w) ==
  /\ sweep[w] = {}
  /\ Overdue # {}
  /\ sweep' = [sweep EXCEPT ![w] = Overdue]
  /\ UNCHANGED <<status, hold, request, inventory, couponSettings>>

\* Then one SetStatus per id; by now the booking may have been paid, decided,
\* cancelled, or expired by another worker, and SetStatus finds nothing to do.
SweepExpireStale(w, b) ==   \* mutant: the list is believed
  /\ b \in sweep[w]
  /\ sweep' = [sweep EXCEPT ![w] = @ \ {b}]
  /\ \/ SetStatus(b, "EXPIRED", Live)
     \/ status[b] \in Ended /\ UNCHANGED <<status, hold, request, inventory, couponSettings>>

SweepExpire(w, b) ==
  /\ b \in sweep[w]
  /\ sweep' = [sweep EXCEPT ![w] = @ \ {b}]
  /\ \/ SetStatus(b, "EXPIRED", {"PENDING"})
     \/ /\ status[b] # "PENDING"
        /\ UNCHANGED <<status, hold, request, inventory, couponSettings>>

\* A database error ends the pass; so does the worker stopping.
SweepAborts(w) ==
  /\ sweep[w] # {}
  /\ sweep' = [sweep EXCEPT ![w] = {}]
  /\ UNCHANGED <<status, hold, request, inventory, couponSettings>>

\* A vendor or an admin edits or deletes a coupon, or its dates pass: the limit
\* may drop below the uses already made.
EditCoupon(c, l, on) ==
  /\ <<l, on>> # <<limit[c], usable[c]>>
  /\ limit' = [limit EXCEPT ![c] = l]
  /\ usable' = [usable EXCEPT ![c] = on]
  /\ UNCHANGED <<status, hold, request, inventory, sweep>>

--------------------------------------------------------------------------------
Next ==
  \/ \E b \in Bookings, r \in Requests : CreateHallBooking(b, r) \/ CreateHotelBooking(b, r)
  \/ \E b \in Bookings : Cancel(b) \/ PaidInFull(b) \/ HoldElapses(b)
  \/ \E b \in Bookings, confirm \in BOOLEAN : Decide(b, confirm)
  \/ \E w \in Workers : SweepRead(w) \/ SweepAborts(w)
  \/ \E w \in Workers, b \in Bookings : SweepExpire(w, b)
  \/ \E c \in Coupons, l \in Limits, on \in BOOLEAN : EditCoupon(c, l, on)

Spec == Init /\ [][Next]_vars

\* The worker's ticker starts a sweep every minute for as long as it runs, and
\* a sweep walks its list to the end unless the database fails; a sweep that
\* keeps being started is assumed not to fail before the same id every time.
FairSpec ==
  /\ Spec
  /\ \A w \in Workers : WF_vars(SweepRead(w))
  /\ \A b \in Bookings : SF_vars(\E w \in Workers : SweepExpire(w, b))

--------------------------------------------------------------------------------
(* Properties *)

IsLive(b) == status[b] \in Live

LiveBookings == {b \in Bookings : IsLive(b)}

LiveWith(c) == {b \in LiveBookings : c \in request[b].coupons}

Compatible(s, t) == {s, t} = {"MORNING", "EVENING"}

\* Two live bookings of one venue that share a date never share a half-day:
\* FULL_DAY excludes both halves although each slot is a row of its own
\* (CreateHallBooking's clash check and conditional insert).
NoDoubleBooking ==
  \A a, b \in Bookings :
    LET ra == request[a]
        rb == request[b]
    IN /\ a # b
       /\ IsLive(a) /\ IsLive(b)
       /\ ra.kind = "venue" /\ rb.kind = "venue"
       /\ ra.facility = rb.facility
       /\ (ra.first .. ra.last) \cap (rb.first .. rb.last) # {}
       => Compatible(ra.slot, rb.slot)

\* A row of hall_availability is BOOKED by a booking exactly while that booking
\* is live and its range covers the row: nothing is lost while the booking
\* lives, and nothing stays blocked after it ends, whoever ended it.
SlotsMatchBookings ==
  \A s \in SlotRows, b \in Bookings :
    slotOwner[s] = b <=> IsLive(b) /\ s \in SlotsOf(request[b])

\* booked_rooms never exceeds the rooms there are, on any night.
RoomsWithinCapacity == \A n \in RoomNights : bookedRooms[n] <= TotalRooms[n[1]]

\* booked_rooms of a night is the sum over the live bookings, so no cancel,
\* rejection or expiry, in any order and however often repeated, gives a room
\* back twice or forgets one (GREATEST(booked_rooms - q, 0) never bites).
RoomsAccounted ==
  \A n \in RoomNights :
    bookedRooms[n] = SumFunction([b \in LiveBookings |-> RoomsOf(request[b], n)])

\* used_count of a coupon is the number of live bookings that redeemed it.
UsesAccounted == \A c \in Coupons : used[c] = Cardinality(LiveWith(c))

\* What is taken is what the live bookings hold, of all three kinds: no cancel,
\* rejection or expiry, whoever repeats it and from however old a list, frees
\* something twice or forgets it (releaseInventory).
InventoryAccounted == SlotsMatchBookings /\ RoomsAccounted /\ UsesAccounted

\* A new booking never takes the live bookings of a coupon over the limit in
\* force, although limits are edited while uses come and go (coupon.Redeem).
LimitRespected ==
  [][\A c \in Coupons : \A b \in LiveWith(c)' :
       status[b] = "NONE" => Cardinality(LiveWith(c)') <= limit[c]]_vars

\* Every transition of a booking row is one the lifecycle allows: in particular
\* an ended booking never comes back, and a sweep working from a stale list of
\* ids expires nothing that was accepted or paid in the meantime.
Lifecycle == INSTANCE BookingLifecycle
LifecycleHolds == Lifecycle!Spec

\* The half-day calendar behind the slot rows.
HalfDays == Facilities \X Dates \X {"MORNING", "EVENING"}

Holder(h) ==
  LET day == slotOwner[<<h[1], h[2], "FULL_DAY">>]
  IN IF day # NoBooking THEN day ELSE slotOwner[h]

\* Slot rows implement the calendar that books half-days: a multi-day booking
\* takes everything at once or nothing, never takes what another holds, and
\* gives everything back at once.
Promise == INSTANCE SlotPromise WITH holder <- [h \in HalfDays |-> Holder(h)]
SlotPromiseHolds == Promise!Spec

\* A hotel booking whose payment window passed does not hold its rooms for
\* ever: it is expired, unless it was accepted, paid or cancelled first.
HoldsEnd ==
  \A b \in Bookings : (status[b] = "PENDING" /\ hold[b] = "elapsed") ~> status[b] # "PENDING"
================================================================================
