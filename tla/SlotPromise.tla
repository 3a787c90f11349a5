----------------------------- MODULE SlotPromise ------------------------------
(***************************************************************************)
(* What a venue's calendar promises, stated without slots, rows or locks:  *)
(* every half-day of every venue belongs to at most one booking, a booking *)
(* gets all the half-days it asked for in one step or none of them, and it *)
(* gives all of them back in one step.                                     *)
(*                                                                         *)
(* Booking (one step per transaction) and HallClaim (one step per SQL      *)
(* statement) are both shown to implement it.                              *)
(***************************************************************************)

CONSTANTS
  Bookings,     \* ids of booking rows
  HalfDays,     \* <<venue, date, half>>
  NoBooking     \* the owner of a free half-day

VARIABLE holder \* [HalfDays -> Bookings \cup {NoBooking}]

TypeOK == holder \in [HalfDays -> Bookings \cup {NoBooking}]

Init == holder = [h \in HalfDays |-> NoBooking]

HeldBy(b) == {h \in HalfDays : holder[h] = b}

\* What a booking asked for is what changes hands.
Take(b) ==
  /\ HeldBy(b) = {}
  /\ TypeOK'
  /\ \A h \in HalfDays : holder'[h] # holder[h] => holder[h] = NoBooking /\ holder'[h] = b

GiveBack(b) ==
  holder' = [h \in HalfDays |-> IF holder[h] = b THEN NoBooking ELSE holder[h]]

Next == \E b \in Bookings : Take(b) \/ GiveBack(b)

Spec == Init /\ [][Next]_holder
===============================================================================
