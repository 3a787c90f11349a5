------------------------------ MODULE MCHallClaim ------------------------------
(* Instances of HallClaim for TLC.                                              *)
EXTENDS HallClaim

CONSTANTS f1, b1, b2, b3, b4

Ask(facility, first, last, slot) ==
  [facility |-> facility, first |-> first, last |-> last, slot |-> slot]

(* One hall, four overlapping requests, a lock of its own for every day. *)

MCBookings   == {b1, b2, b3, b4}
MCFacilities == {f1}

\* The same evening on two dates twice, so that two claims meet on one row; both
\* dates as a whole, which excludes them; and the second date's morning, which is
\* compatible with the evenings only.
MCRequest ==
  [b \in MCBookings |->
     CASE b \in {b1, b2} -> Ask(f1, 1, 2, "EVENING")
       [] b = b3         -> Ask(f1, 1, 2, "FULL_DAY")
       [] b = b4         -> Ask(f1, 2, 2, "MORNING")]

MCKeys == Facilities \X Dates
MCKey  == [day \in MCKeys |-> day]
================================================================================
