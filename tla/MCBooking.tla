------------------------------- MODULE MCBooking -------------------------------
(* Two venue or room bookings and two workers sweeping. *)
EXTENDS Booking

CONSTANTS f1, t1, c1

Venue(first, last, slot, coupons) ==
  [kind |-> "venue", facility |-> f1, first |-> first, last |-> last, slot |-> slot,
   rooms |-> [t \in RoomTypes |-> 0], coupons |-> coupons]

Rooms(first, last, quantity, coupons) ==
  [kind |-> "rooms", facility |-> f1, first |-> first, last |-> last, slot |-> "FULL_DAY",
   rooms |-> [t \in RoomTypes |-> quantity], coupons |-> coupons]

MCFacilities == {f1}
MCRoomTypes  == {t1}
MCCoupons    == {c1}
MCTotalRooms == [t \in {t1} |-> 2]

\* Two days in the evening, one of its days in the morning and as a whole: every
\* kind of overlap and the one compatible pair.  Both rooms for the first or for
\* the second night, and one room for both nights, which may fail on either.
MCRequests ==
  { Venue(1, 2, "EVENING", {c1}), Venue(1, 1, "MORNING", {}), Venue(1, 1, "FULL_DAY", {c1}),
    Rooms(1, 2, 2, {c1}), Rooms(2, 3, 2, {}), Rooms(1, 3, 1, {}) }
================================================================================
