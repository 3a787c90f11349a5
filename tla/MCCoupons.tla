------------------------------- MODULE MCCoupons -------------------------------
(***************************************************************************)
(* An owner's hall and another's hotel, coupons drafted by both sides.     *)
(***************************************************************************)
EXTENDS Coupons

MCVenueType == [v \in Venues |-> IF v = "hall" THEN "MARRIAGE_HALL" ELSE "HOTEL"]
MCOwnerOf == [v \in Venues |-> IF v = "hall" THEN "ravi" ELSE "uma"]

Draft(code, kind, value, max, from, until, limit, active, facility, appliesTo) ==
  [code |-> code, kind |-> kind, value |-> value, max |-> max, min |-> None, from |-> from,
   until |-> until, limit |-> limit, active |-> active, facility |-> facility,
   appliesTo |-> appliesTo]

\* A flat coupon larger than a small booking, good for two uses up to day 2; a
\* percentage with a minimum, capped, from day 2.
MCDrafts ==
  LET ten == [Draft("TEN", "PERCENT", 15, 10, 2, None, None, TRUE, None, "ALL") EXCEPT !.min = 50]
  IN {Draft("FLAT", "FLAT", 60, None, None, 2, 2, TRUE, "hall", None), ten}
MCCarts == {[venue |-> "hall", codes |-> <<"FLAT", "TEN">>, amount |-> 85]}
================================================================================
