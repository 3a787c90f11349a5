----------------------------- MODULE BookingProofs -----------------------------
(***************************************************************************)
(* Proofs about Booking, for any number of bookings, venues, dates, rooms, *)
(* coupons and workers.                                                    *)
(***************************************************************************)
EXTENDS Booking, SumLemmas, TLAPS

\* What makes the safety properties inductive: a row that exists keeps the
\* request it was created for, and owns exactly the slot rows of that request
\* while it is live; a FULL_DAY row is never BOOKED beside a half of its day;
\* and an id a sweep still has to visit was overdue when it was read, which it
\* remains for as long as it is PENDING.
RequestKept == \A b \in Bookings : status[b] # "NONE" => request[b] \in Requests

SlotsExclusive ==
  \A s, t \in SlotRows :
    (s[1] = t[1] /\ s[2] = t[2] /\ s[3] = "FULL_DAY" /\ t[3] # "FULL_DAY")
      => slotOwner[s] = NoBooking \/ slotOwner[t] = NoBooking

SweepWasOverdue ==
  \A w \in Workers : \A b \in sweep[w] :
    /\ status[b] # "NONE"
    /\ status[b] = "PENDING" => hold[b] = "elapsed"

IInv == TypeOK /\ RequestKept /\ SlotsMatchBookings /\ SlotsExclusive /\ SweepWasOverdue

--------------------------------------------------------------------------------
(* The quantities *)

LEMMA RoomsOfType ==
  ASSUME NEW r \in Requests, NEW n \in RoomNights
  PROVE  RoomsOf(r, n) \in Nat
BY ConstantsAssumption DEF RoomsOf, RequestType, RoomNights

\* releaseInventory and coupon.Release keep the inventory well typed.
LEMMA ReleaseType ==
  ASSUME TypeOK, NEW b \in Bookings, request[b] \in Requests, ReleaseInventory(b)
  PROVE  /\ slotOwner' \in [SlotRows -> Bookings \cup {NoBooking}]
         /\ bookedRooms' \in [RoomNights -> Nat]
         /\ used' \in [Coupons -> Nat]
<1>1. slotOwner' \in [SlotRows -> Bookings \cup {NoBooking}]
  BY DEF TypeOK, ReleaseInventory, SlotsAfter, UsesAfter
<1>2. bookedRooms' \in [RoomNights -> Nat]
  <2>1. ASSUME NEW n \in RoomNights
        PROVE  /\ bookedRooms[n] - RoomsOf(request[b], n) \in Int
    BY RoomsOfType DEF TypeOK
  <2> QED BY <2>1 DEF ReleaseInventory, RoomsAfter
<1>3. used' \in [Coupons -> Nat]
  BY DEF TypeOK, ReleaseInventory, SlotsAfter, UsesAfter
<1> QED BY <1>1, <1>2, <1>3

--------------------------------------------------------------------------------
(* Type correctness *)

LEMMA SetStatusType ==
  ASSUME TypeOK, RequestKept, NEW b \in Bookings, NEW to \in Live \cup Ended,
         NEW from \in SUBSET Live, SetStatus(b, to, from)
  PROVE  /\ status' \in [Bookings -> Status]
         /\ slotOwner' \in [SlotRows -> Bookings \cup {NoBooking}]
         /\ bookedRooms' \in [RoomNights -> Nat]
         /\ used' \in [Coupons -> Nat]
<1>1. status' \in [Bookings -> Status]
  BY DEF TypeOK, SetStatus, Status
<1>2. CASE to \in Ended /\ status[b] \in Live
  BY <1>1, <1>2, ReleaseType DEF SetStatus, RequestKept, Live
<1>3. CASE ~(to \in Ended /\ status[b] \in Live)
  BY <1>1, <1>3 DEF SetStatus, TypeOK, inventory
<1> QED BY <1>2, <1>3

LEMMA InitIInv == Init => IInv
BY ConstantsAssumption
   DEF Init, IInv, TypeOK, RequestKept, SlotsMatchBookings, SlotsExclusive,
       SweepWasOverdue, Status, Hold, IsLive, Live

LEMMA TypeStep == TypeOK /\ RequestKept /\ [Next]_vars => TypeOK'
<1> SUFFICES ASSUME TypeOK, RequestKept, [Next]_vars PROVE TypeOK'
  OBVIOUS
<1>1. ASSUME NEW b \in Bookings, NEW r \in Requests, CreateHallBooking(b, r) PROVE TypeOK'
  BY <1>1 DEF TypeOK, CreateHallBooking, Insert, Redeem, Status, Live, Hold, couponSettings
<1>2. ASSUME NEW b \in Bookings, NEW r \in Requests, CreateHotelBooking(b, r) PROVE TypeOK'
  <2>1. bookedRooms' \in [RoomNights -> Nat]
    <3>1. \A n \in RoomNights : bookedRooms[n] + RoomsOf(r, n) \in Nat
      BY RoomsOfType DEF TypeOK
    <3> QED BY <1>2, <3>1 DEF CreateHotelBooking
  <2> QED BY <1>2, <2>1 DEF TypeOK, CreateHotelBooking, Insert, Redeem, Status, Live, Hold, couponSettings
<1>3. ASSUME NEW b \in Bookings, Cancel(b) PROVE TypeOK'
  <2>1. SetStatus(b, "CANCELLED", Live) BY <1>3 DEF Cancel, Live
  <2> QED BY <1>3, <2>1, SetStatusType DEF TypeOK, Cancel, SetStatus, couponSettings, Ended
<1>4. ASSUME NEW b \in Bookings, PaidInFull(b) PROVE TypeOK'
  BY <1>4 DEF TypeOK, PaidInFull, Status, Live, Hold, inventory, couponSettings
<1>5. ASSUME NEW b \in Bookings, HoldElapses(b) PROVE TypeOK'
  BY <1>5 DEF TypeOK, HoldElapses, Hold, inventory, couponSettings
<1>6. ASSUME NEW b \in Bookings, NEW confirm \in BOOLEAN, Decide(b, confirm) PROVE TypeOK'
  <2>1. (IF confirm THEN "CONFIRMED" ELSE "REJECTED") \in Live \cup Ended
    BY DEF Live, Ended
  <2>2. {"PENDING"} \in SUBSET Live
    BY DEF Live
  <2> QED BY <1>6, <2>1, <2>2, SetStatusType DEF TypeOK, Decide, SetStatus, couponSettings
<1>7. ASSUME NEW w \in Workers, SweepRead(w) PROVE TypeOK'
  BY <1>7 DEF TypeOK, SweepRead, Overdue, inventory, couponSettings
<1>8. ASSUME NEW w \in Workers, SweepAborts(w) PROVE TypeOK'
  BY <1>8 DEF TypeOK, SweepAborts, inventory, couponSettings
<1>9. ASSUME NEW w \in Workers, NEW b \in Bookings, SweepExpire(w, b) PROVE TypeOK'
  <2>1. sweep' \in [Workers -> SUBSET Bookings]
    BY <1>9 DEF TypeOK, SweepExpire
  <2>2. CASE SetStatus(b, "EXPIRED", {"PENDING"})
    <3>1. {"PENDING"} \in SUBSET Live /\ "EXPIRED" \in Live \cup Ended
      BY DEF Live, Ended
    <3> QED BY <2>1, <2>2, <3>1, SetStatusType DEF TypeOK, SetStatus, couponSettings
  <2>3. CASE UNCHANGED <<status, hold, request, inventory, couponSettings>>
    BY <2>1, <2>3 DEF TypeOK, inventory, couponSettings
  <2> QED BY <1>9, <2>2, <2>3 DEF SweepExpire
<1>10. ASSUME NEW c \in Coupons, NEW l \in Limits, NEW on \in BOOLEAN, EditCoupon(c, l, on)
       PROVE  TypeOK'
  BY <1>10 DEF TypeOK, EditCoupon, inventory
<1>11. CASE UNCHANGED vars
  BY <1>11 DEF TypeOK, vars, inventory, couponSettings
<1> QED BY <1>1, <1>2, <1>3, <1>4, <1>5, <1>6, <1>7, <1>8, <1>9, <1>10, <1>11 DEF Next

--------------------------------------------------------------------------------
(* Requests and slot rows *)

LEMMA RequestStep == IInv /\ [Next]_vars => RequestKept'
<1> SUFFICES ASSUME IInv, [Next]_vars PROVE RequestKept'
  OBVIOUS
<1> USE DEF IInv, TypeOK, RequestKept
<1>1. ASSUME NEW b \in Bookings, NEW r \in Requests, CreateHallBooking(b, r) PROVE RequestKept'
  BY <1>1 DEF CreateHallBooking, Insert
<1>2. ASSUME NEW b \in Bookings, NEW r \in Requests, CreateHotelBooking(b, r) PROVE RequestKept'
  BY <1>2 DEF CreateHotelBooking, Insert
<1>3. ASSUME NEW b \in Bookings, Cancel(b) PROVE RequestKept'
  BY <1>3 DEF Cancel, SetStatus
<1>4. ASSUME NEW b \in Bookings, PaidInFull(b) PROVE RequestKept'
  BY <1>4 DEF PaidInFull, Live
<1>5. ASSUME NEW b \in Bookings, NEW confirm \in BOOLEAN, Decide(b, confirm) PROVE RequestKept'
  BY <1>5 DEF Decide, SetStatus
<1>6. ASSUME NEW w \in Workers, NEW b \in Bookings, SweepExpire(w, b) PROVE RequestKept'
  BY <1>6 DEF SweepExpire, SetStatus
<1>7. ASSUME UNCHANGED <<status, request>> PROVE RequestKept'
  BY <1>7
<1> QED
  BY <1>1, <1>2, <1>3, <1>4, <1>5, <1>6, <1>7
     DEF Next, HoldElapses, SweepRead, SweepAborts, EditCoupon, vars

\* The two facts about slot rows depend on three variables only.
LEMMA SlotsUnchanged ==
  ASSUME SlotsMatchBookings, SlotsExclusive, UNCHANGED <<request, slotOwner>>,
         \A b \in Bookings : IsLive(b)' <=> IsLive(b)
  PROVE  SlotsMatchBookings' /\ SlotsExclusive'
BY DEF SlotsMatchBookings, SlotsExclusive

\* A claim: the rows it takes were free, and so was everything they overlap.
LEMMA SlotsClaimed ==
  ASSUME IInv, NEW b \in Bookings, NEW r \in Requests, CreateHallBooking(b, r)
  PROVE  SlotsMatchBookings' /\ SlotsExclusive'
<1> USE DEF IInv
<1>1. /\ slotOwner' = [s \in SlotRows |-> IF s \in SlotsOf(r) THEN b ELSE slotOwner[s]]
      /\ \A s \in SlotsOf(r) : Claimable(s)
      /\ status[b] = "NONE"
      /\ status' = [status EXCEPT ![b] = "PENDING"]
      /\ request' = [request EXCEPT ![b] = r]
  BY DEF CreateHallBooking, Insert
<1>2. b # NoBooking
  BY ConstantsAssumption
<1>3. SlotsMatchBookings'
  <2> SUFFICES ASSUME NEW s \in SlotRows, NEW a \in Bookings
               PROVE  slotOwner'[s] = a <=> IsLive(a)' /\ s \in SlotsOf(request'[a])
    BY DEF SlotsMatchBookings, SlotsOf
  <2>1. CASE a = b
    <3>1. slotOwner[s] # b
      BY <1>1 DEF SlotsMatchBookings, IsLive, Live
    <3>2. IsLive(b)' /\ request'[b] = r
      BY <1>1 DEF TypeOK, IsLive, Live
    <3> QED BY <1>1, <2>1, <3>1, <3>2
  <2>2. CASE a # b
    <3>1. (IsLive(a)' <=> IsLive(a)) /\ request'[a] = request[a]
      BY <1>1, <2>2 DEF TypeOK, IsLive
    <3>2. CASE s \in SlotsOf(r)
      <4>1. slotOwner[s] = NoBooking
        BY <1>1, <3>2 DEF Claimable
      <4>2. slotOwner[s] # a
        BY <4>1, ConstantsAssumption
      <4> QED BY <1>1, <2>2, <3>1, <3>2, <4>2 DEF SlotsMatchBookings
    <3>3. CASE s \notin SlotsOf(r)
      BY <1>1, <3>1, <3>3 DEF SlotsMatchBookings
    <3> QED BY <3>2, <3>3
  <2> QED BY <2>1, <2>2
<1>4. SlotsExclusive'
  <2> SUFFICES ASSUME NEW s \in SlotRows, NEW t \in SlotRows,
                      s[1] = t[1], s[2] = t[2], s[3] = "FULL_DAY", t[3] # "FULL_DAY"
               PROVE  slotOwner'[s] = NoBooking \/ slotOwner'[t] = NoBooking
    BY DEF SlotsExclusive
  <2>1. ~(s \in SlotsOf(r) /\ t \in SlotsOf(r))
    BY DEF SlotsOf
  <2>2. CASE s \in SlotsOf(r)
    <3>1. /\ t = <<s[1], s[2], t[3]>>
          /\ t[3] \in SlotTypes
      BY DEF SlotRows
    <3>2. slotOwner[t] = NoBooking
      BY <1>1, <2>2, <3>1 DEF Claimable
    <3> QED BY <1>1, <2>1, <2>2, <3>2
  <2>3. CASE t \in SlotsOf(r)
    <3>1. /\ s = <<t[1], t[2], s[3]>>
          /\ s[3] \in SlotTypes
      BY DEF SlotRows
    <3>2. slotOwner[s] = NoBooking
      BY <1>1, <2>3, <3>1 DEF Claimable
    <3> QED BY <1>1, <2>1, <2>3, <3>2
  <2>4. CASE s \notin SlotsOf(r) /\ t \notin SlotsOf(r)
    BY <1>1, <2>4 DEF SlotsExclusive
  <2> QED BY <2>2, <2>3, <2>4
<1> QED BY <1>3, <1>4

\* A change of status: the rows of a booking that ends are all given back, and
\* no other booking loses one.
LEMMA SlotsAfterSetStatus ==
  ASSUME IInv, NEW b \in Bookings, NEW to \in Live \cup Ended,
         NEW from \in SUBSET Live, SetStatus(b, to, from)
  PROVE  SlotsMatchBookings' /\ SlotsExclusive'
<1> USE DEF IInv
<1>1. /\ status[b] \in Live
      /\ status' = [status EXCEPT ![b] = to]
      /\ UNCHANGED request
  BY DEF SetStatus
<1>2. CASE to \in Ended
  <2>1. slotOwner' = [s \in SlotRows |-> IF slotOwner[s] = b THEN NoBooking ELSE slotOwner[s]]
    BY <1>1, <1>2 DEF SetStatus, ReleaseInventory, SlotsAfter, RoomsAfter
  <2>2. SlotsMatchBookings'
    <3> SUFFICES ASSUME NEW s \in SlotRows, NEW a \in Bookings
                 PROVE  slotOwner'[s] = a <=> IsLive(a)' /\ s \in SlotsOf(request[a])
      BY <1>1 DEF SlotsMatchBookings, SlotsOf
    <3>1. CASE a = b
      <4>1. ~IsLive(b)'
        BY <1>1, <1>2 DEF TypeOK, IsLive, Live, Ended
      <4>2. slotOwner'[s] # b
        BY <2>1, ConstantsAssumption
      <4> QED BY <3>1, <4>1, <4>2
    <3>2. CASE a # b
      <4>1. IsLive(a)' <=> IsLive(a)
        BY <1>1, <3>2 DEF TypeOK, IsLive
      <4>2. slotOwner'[s] = a <=> slotOwner[s] = a
        BY <2>1, <3>2, ConstantsAssumption
      <4> QED BY <4>1, <4>2 DEF SlotsMatchBookings
    <3> QED BY <3>1, <3>2
  <2>3. SlotsExclusive'
    BY <2>1 DEF SlotsExclusive
  <2> QED BY <2>2, <2>3
<1>3. CASE to \notin Ended
  <2>1. UNCHANGED slotOwner
    BY <1>3 DEF SetStatus, inventory
  <2>2. \A a \in Bookings : IsLive(a)' <=> IsLive(a)
    BY <1>1, <1>3 DEF TypeOK, IsLive
  <2> QED BY <1>1, <2>1, <2>2, SlotsUnchanged
<1> QED BY <1>2, <1>3

LEMMA SlotsStep == IInv /\ [Next]_vars => SlotsMatchBookings' /\ SlotsExclusive'
<1> SUFFICES ASSUME IInv, [Next]_vars PROVE SlotsMatchBookings' /\ SlotsExclusive'
  OBVIOUS
<1> DEFINE Goal == SlotsMatchBookings' /\ SlotsExclusive'
<1>a. {"PENDING"} \in SUBSET Live /\ Live \in SUBSET Live
  BY DEF Live
<1>b. {"CONFIRMED", "CANCELLED", "REJECTED", "EXPIRED"} \subseteq Live \cup Ended
  BY DEF Live, Ended
<1>1. ASSUME NEW b \in Bookings, NEW r \in Requests, CreateHallBooking(b, r) PROVE Goal
  BY <1>1, SlotsClaimed
<1>2. ASSUME NEW b \in Bookings, NEW r \in Requests, CreateHotelBooking(b, r) PROVE Goal
  <2>1. /\ r.kind = "rooms"
        /\ status[b] = "NONE"
        /\ status' = [status EXCEPT ![b] = "PENDING"]
        /\ request' = [request EXCEPT ![b] = r]
        /\ UNCHANGED slotOwner
    BY <1>2 DEF CreateHotelBooking, Insert
  <2>2. SlotsMatchBookings'
    <3> SUFFICES ASSUME NEW s \in SlotRows, NEW a \in Bookings
                 PROVE  slotOwner[s] = a <=> IsLive(a)' /\ s \in SlotsOf(request'[a])
      BY <2>1 DEF SlotsMatchBookings, SlotsOf
    <3>1. CASE a = b
      BY <2>1, <3>1 DEF IInv, TypeOK, SlotsMatchBookings, IsLive, Live, SlotsOf
    <3>2. CASE a # b
      BY <2>1, <3>2 DEF IInv, TypeOK, SlotsMatchBookings, IsLive
    <3> QED BY <3>1, <3>2
  <2> QED BY <2>1, <2>2 DEF IInv, SlotsExclusive
<1>3. ASSUME NEW b \in Bookings, Cancel(b) PROVE Goal
  BY <1>3, <1>a, <1>b, SlotsAfterSetStatus DEF Cancel, Live
<1>4. ASSUME NEW b \in Bookings, PaidInFull(b) PROVE Goal
  BY <1>4, SlotsUnchanged DEF IInv, TypeOK, PaidInFull, inventory, IsLive, Live
<1>5. ASSUME NEW b \in Bookings, NEW confirm \in BOOLEAN, Decide(b, confirm) PROVE Goal
  BY <1>5, <1>a, <1>b, SlotsAfterSetStatus DEF Decide
<1>6. ASSUME NEW w \in Workers, NEW b \in Bookings, SweepExpire(w, b) PROVE Goal
  <2>1. CASE SetStatus(b, "EXPIRED", {"PENDING"})
    BY <2>1, <1>a, <1>b, SlotsAfterSetStatus
  <2>2. CASE UNCHANGED <<status, hold, request, inventory, couponSettings>>
    BY <2>2, SlotsUnchanged DEF IInv, inventory, IsLive
  <2> QED BY <1>6, <2>1, <2>2 DEF SweepExpire
<1>7. ASSUME UNCHANGED <<status, request, slotOwner>> PROVE Goal
  BY <1>7, SlotsUnchanged DEF IInv, IsLive
<1> QED
  BY <1>1, <1>2, <1>3, <1>4, <1>5, <1>6, <1>7
     DEF Next, HoldElapses, SweepRead, SweepAborts, EditCoupon, vars, inventory

--------------------------------------------------------------------------------
(* The sweepers' lists *)

LEMMA SweepStep == IInv /\ [Next]_vars => SweepWasOverdue'
<1> SUFFICES ASSUME IInv, [Next]_vars PROVE SweepWasOverdue'
  OBVIOUS
<1> USE DEF IInv, TypeOK, SweepWasOverdue
<1>1. ASSUME NEW b \in Bookings, NEW r \in Requests, CreateHallBooking(b, r) PROVE SweepWasOverdue'
  BY <1>1 DEF CreateHallBooking, Insert
<1>2. ASSUME NEW b \in Bookings, NEW r \in Requests, CreateHotelBooking(b, r) PROVE SweepWasOverdue'
  BY <1>2 DEF CreateHotelBooking, Insert
<1>3. ASSUME NEW b \in Bookings, NEW to \in {"CONFIRMED", "CANCELLED", "REJECTED", "EXPIRED"},
             NEW from \in SUBSET Live, SetStatus(b, to, from),
             \A w \in Workers : sweep'[w] \subseteq sweep[w]
      PROVE  SweepWasOverdue'
  BY <1>3 DEF SetStatus
<1>4. ASSUME NEW b \in Bookings, PaidInFull(b) PROVE SweepWasOverdue'
  BY <1>4 DEF PaidInFull
<1>5. ASSUME NEW b \in Bookings, HoldElapses(b) PROVE SweepWasOverdue'
  BY <1>5 DEF HoldElapses
<1>6. ASSUME NEW w \in Workers, SweepRead(w) PROVE SweepWasOverdue'
  BY <1>6 DEF SweepRead, Overdue
<1>7. ASSUME UNCHANGED <<status, hold>>, \A w \in Workers : sweep'[w] \subseteq sweep[w]
      PROVE  SweepWasOverdue'
  BY <1>7
<1>8. {"PENDING"} \in SUBSET Live /\ {"PENDING", "CONFIRMED"} \in SUBSET Live
  BY DEF Live
<1>9. ASSUME NEW b \in Bookings, Cancel(b) PROVE SweepWasOverdue'
  BY <1>3, <1>8, <1>9 DEF Cancel
<1>10. ASSUME NEW b \in Bookings, NEW confirm \in BOOLEAN, Decide(b, confirm)
       PROVE  SweepWasOverdue'
  BY <1>3, <1>8, <1>10 DEF Decide
<1>11. ASSUME NEW w \in Workers, NEW b \in Bookings, SweepExpire(w, b) PROVE SweepWasOverdue'
  <2>1. \A v \in Workers : sweep'[v] \subseteq sweep[v]
    BY <1>11 DEF SweepExpire
  <2> QED BY <1>3, <1>7, <1>8, <1>11, <2>1 DEF SweepExpire
<1>12. ASSUME NEW w \in Workers, SweepAborts(w) PROVE SweepWasOverdue'
  BY <1>7, <1>12 DEF SweepAborts
<1> QED
  BY <1>1, <1>2, <1>4, <1>5, <1>6, <1>7, <1>9, <1>10, <1>11, <1>12
     DEF Next, EditCoupon, vars

--------------------------------------------------------------------------------
(* The inductive invariant, and what follows from it *)

LEMMA Invariance == Spec => []IInv
<1>1. IInv /\ [Next]_vars => IInv'
  BY TypeStep, RequestStep, SlotsStep, SweepStep DEF IInv
<1> QED BY <1>1, InitIInv, PTL DEF Spec

\* Every variable keeps its type.
THEOREM TypeCorrect == Spec => []TypeOK
<1>1. IInv => TypeOK
  BY DEF IInv
<1> QED BY <1>1, Invariance, PTL

\* CreateHallBooking and SetStatus: slot rows are BOOKED by exactly the live
\* bookings whose range covers them.
THEOREM SlotsMatch == Spec => []SlotsMatchBookings
<1>1. IInv => SlotsMatchBookings
  BY DEF IInv
<1> QED BY <1>1, Invariance, PTL

\* No half-day of a venue is ever booked twice by live bookings.
THEOREM DoubleBookingFree == Spec => []NoDoubleBooking
<1>1. IInv => NoDoubleBooking
  <2> SUFFICES ASSUME IInv, NEW a \in Bookings, NEW b \in Bookings,
                      a # b, IsLive(a), IsLive(b),
                      request[a].kind = "venue", request[b].kind = "venue",
                      request[a].facility = request[b].facility,
                      NEW d \in (request[a].first .. request[a].last)
                                \cap (request[b].first .. request[b].last)
               PROVE  Compatible(request[a].slot, request[b].slot)
    BY DEF NoDoubleBooking
  <2> DEFINE s == <<request[a].facility, d, request[a].slot>>
             t == <<request[b].facility, d, request[b].slot>>
  <2>1. request[a] \in RequestType /\ request[b] \in RequestType
    BY ConstantsAssumption DEF IInv, RequestKept, IsLive, Live
  <2>2. d \in Dates
    BY <2>1, ConstantsAssumption DEF RequestType, Dates
  <2>3. s \in SlotRows /\ t \in SlotRows
    BY <2>1, <2>2 DEF RequestType, SlotRows
  <2>4. s \in SlotsOf(request[a]) /\ t \in SlotsOf(request[b])
    BY DEF SlotsOf
  <2>5. slotOwner[s] = a /\ slotOwner[t] = b
    BY <2>3, <2>4 DEF IInv, SlotsMatchBookings
  <2>6. request[a].slot # request[b].slot
    BY <2>5
  <2>7. "FULL_DAY" \notin {request[a].slot, request[b].slot}
    BY <2>3, <2>5, <2>6, ConstantsAssumption DEF IInv, SlotsExclusive
  <2> QED BY <2>1, <2>6, <2>7 DEF RequestType, SlotTypes, Compatible
<1> QED BY <1>1, Invariance, PTL

\* booked_rooms never exceeds total_rooms, on any night.
THEOREM CapacityRespected == Spec => []RoomsWithinCapacity
<1>1. Init => RoomsWithinCapacity
  BY ConstantsAssumption DEF Init, RoomsWithinCapacity, RoomNights
<1>2. IInv /\ RoomsWithinCapacity /\ [Next]_vars => RoomsWithinCapacity'
  <2> SUFFICES ASSUME IInv, RoomsWithinCapacity, [Next]_vars, NEW n \in RoomNights
               PROVE  bookedRooms'[n] <= TotalRooms[n[1]]
    BY DEF RoomsWithinCapacity
  <2>1. /\ bookedRooms[n] \in Nat
        /\ TotalRooms[n[1]] \in Nat
        /\ bookedRooms[n] <= TotalRooms[n[1]]
    BY ConstantsAssumption DEF IInv, TypeOK, RoomsWithinCapacity, RoomNights
  <2>2. ASSUME NEW b \in Bookings, NEW r \in Requests, CreateHotelBooking(b, r)
        PROVE  bookedRooms'[n] <= TotalRooms[n[1]]
    <3>1. RoomsOf(r, n) \in Nat
      BY RoomsOfType
    <3>2. Fits(r, n) /\ bookedRooms'[n] = bookedRooms[n] + RoomsOf(r, n)
      BY <2>2 DEF CreateHotelBooking
    <3>3. CASE RoomsOf(r, n) = 0
      BY <2>1, <3>2, <3>3
    <3>4. CASE RoomsOf(r, n) > 0
      BY <2>1, <3>1, <3>2, <3>4 DEF Fits
    <3> QED BY <3>1, <3>3, <3>4
  <2>3. ASSUME NEW b \in Bookings, NEW to, NEW from \in SUBSET Live, SetStatus(b, to, from)
        PROVE  bookedRooms'[n] <= TotalRooms[n[1]]
    <3>1. CASE to \in Ended /\ status[b] \in Live
      <4>1. request[b] \in Requests
        BY <3>1 DEF IInv, RequestKept, Live
      <4>2. RoomsOf(request[b], n) \in Nat
        BY <4>1, RoomsOfType
      <4> QED BY <2>1, <2>3, <3>1, <4>2 DEF SetStatus, ReleaseInventory, SlotsAfter, RoomsAfter
    <3>2. CASE ~(to \in Ended /\ status[b] \in Live)
      BY <2>1, <2>3, <3>2 DEF SetStatus, inventory
    <3> QED BY <3>1, <3>2
  <2>4. ASSUME UNCHANGED bookedRooms PROVE bookedRooms'[n] <= TotalRooms[n[1]]
    BY <2>1, <2>4
  <2>5. {"PENDING"} \in SUBSET Live /\ {"PENDING", "CONFIRMED"} \in SUBSET Live
    BY DEF Live
  <2> QED
    BY <2>2, <2>3, <2>4, <2>5
       DEF Next, vars, inventory, CreateHallBooking, Cancel, PaidInFull, HoldElapses, Decide,
           SweepRead, SweepAborts, SweepExpire, EditCoupon
<1> QED BY <1>1, <1>2, Invariance, PTL DEF Spec

--------------------------------------------------------------------------------
(* What is taken is what the live bookings hold *)

\* Finitely many bookings are live at any time, so their rooms and their coupon
\* uses can be counted; nothing else bounds how many there are.
LiveFinite == IsFiniteSet(LiveBookings)

Accounted == LiveFinite /\ RoomsAccounted /\ UsesAccounted

LEMMA LiveRequest ==
  ASSUME IInv, NEW b \in LiveBookings
  PROVE  /\ b \in Bookings
         /\ request[b] \in Requests
         /\ \A n \in RoomNights : RoomsOf(request[b], n) \in Nat
BY RoomsOfType DEF IInv, RequestKept, LiveBookings, IsLive, Live

\* The accounts depend on the live bookings, their requests and the counters.
LEMMA AccountsUnchanged ==
  ASSUME Accounted, UNCHANGED <<LiveBookings, bookedRooms, used>>,
         \A b \in LiveBookings : request'[b] = request[b]
  PROVE  Accounted'
<1>1. LiveFinite'
  BY DEF Accounted, LiveFinite
<1>2. RoomsAccounted'
  <2> SUFFICES ASSUME NEW n \in RoomNights
               PROVE  bookedRooms'[n] = SumFunction([b \in LiveBookings' |-> RoomsOf(request'[b], n)])
    BY DEF RoomsAccounted, RoomsOf
  <2>1. [b \in LiveBookings' |-> RoomsOf(request'[b], n)] = [b \in LiveBookings |-> RoomsOf(request[b], n)]
    OBVIOUS
  <2> QED BY <2>1 DEF Accounted, RoomsAccounted
<1>3. UsesAccounted'
  <2>1. \A c \in Coupons : LiveWith(c)' = LiveWith(c)
    BY DEF LiveWith
  <2> QED BY <2>1 DEF Accounted, UsesAccounted
<1> QED BY <1>1, <1>2, <1>3 DEF Accounted

\* One booking more: what it takes is added to what the others hold.
LEMMA AccountsOpened ==
  ASSUME IInv, Accounted, NEW b \in Bookings, NEW r \in Requests, NEW h,
         Insert(b, r, h), Redeem(r),
         \A n \in RoomNights : bookedRooms'[n] = bookedRooms[n] + RoomsOf(r, n)
  PROVE  Accounted'
<1>1. /\ b \notin LiveBookings
      /\ LiveBookings' = LiveBookings \cup {b}
      /\ request'[b] = r
      /\ \A a \in LiveBookings : request'[a] = request[a]
  BY DEF IInv, TypeOK, Insert, LiveBookings, IsLive, Live
<1>2. IsFiniteSet(LiveBookings)
  BY DEF Accounted, LiveFinite
<1>3. LiveFinite'
  BY <1>1, <1>2, FS_AddElement DEF LiveFinite
<1>4. RoomsAccounted'
  <2> SUFFICES ASSUME NEW n \in RoomNights
               PROVE  bookedRooms'[n] = SumFunction([a \in LiveBookings' |-> RoomsOf(request'[a], n)])
    BY DEF RoomsAccounted, RoomsOf
  <2> DEFINE v == [a \in LiveBookings' |-> RoomsOf(request'[a], n)]
             w == [a \in LiveBookings |-> RoomsOf(request[a], n)]
  <2>1. /\ DOMAIN v = LiveBookings \cup {b}
        /\ DOMAIN w = LiveBookings
        /\ v[b] = RoomsOf(r, n)
        /\ \A a \in LiveBookings : v[a] = w[a] /\ w[a] \in Nat
    BY <1>1, LiveRequest
  <2>2. v[b] \in Nat
    BY <2>1, RoomsOfType
  <2>3. bookedRooms[n] = SumFunction(w) /\ bookedRooms[n] \in Nat
    BY DEF Accounted, RoomsAccounted, IInv, TypeOK
  <2> HIDE DEF v, w
  <2>4. SumFunction(v) = v[b] + SumFunction(w)
    BY <1>1, <1>2, <2>1, <2>2, SumFunctionAdded
  <2>5. bookedRooms'[n] = SumFunction(v)
    BY <2>1, <2>2, <2>3, <2>4
  <2> QED BY <2>5 DEF v
<1>5. UsesAccounted'
  <2> SUFFICES ASSUME NEW c \in Coupons PROVE used'[c] = Cardinality(LiveWith(c)')
    BY DEF UsesAccounted
  <2>1. IsFiniteSet(LiveWith(c)) /\ b \notin LiveWith(c)
    BY <1>1, <1>2, FS_Subset DEF LiveWith
  <2>2. LiveWith(c)' = IF c \in r.coupons THEN LiveWith(c) \cup {b} ELSE LiveWith(c)
    BY <1>1 DEF LiveWith
  <2>3. used'[c] = IF c \in r.coupons THEN used[c] + 1 ELSE used[c]
    BY DEF Redeem
  <2>4. Cardinality(LiveWith(c) \cup {b}) = Cardinality(LiveWith(c)) + 1
    BY <2>1, FS_AddElement
  <2>5. used[c] = Cardinality(LiveWith(c))
    BY DEF Accounted, UsesAccounted
  <2> QED BY <2>2, <2>3, <2>4, <2>5
<1> QED BY <1>3, <1>4, <1>5 DEF Accounted

\* One booking less: exactly what it held is given back, so neither GREATEST of
\* the release ever bites.
LEMMA AccountsClosed ==
  ASSUME IInv, Accounted, NEW b \in LiveBookings, ReleaseInventory(b),
         UNCHANGED request, LiveBookings' = LiveBookings \ {b}
  PROVE  Accounted'
<1>1. IsFiniteSet(LiveBookings) /\ IsFiniteSet(LiveBookings \ {b})
  BY FS_RemoveElement DEF Accounted, LiveFinite
<1>2. LiveFinite'
  BY <1>1 DEF LiveFinite
<1>3. RoomsAccounted'
  <2> SUFFICES ASSUME NEW n \in RoomNights
               PROVE  bookedRooms'[n] = SumFunction([a \in LiveBookings' |-> RoomsOf(request[a], n)])
    BY DEF RoomsAccounted, RoomsOf
  <2> DEFINE v == [a \in LiveBookings |-> RoomsOf(request[a], n)]
             w == [a \in LiveBookings' |-> RoomsOf(request[a], n)]
  <2>1. /\ DOMAIN v = (LiveBookings \ {b}) \cup {b}
        /\ DOMAIN w = LiveBookings \ {b}
        /\ v[b] = RoomsOf(request[b], n)
        /\ v[b] \in Nat
        /\ \A a \in LiveBookings \ {b} : v[a] = w[a] /\ w[a] \in Nat
    BY LiveRequest
  <2>2. bookedRooms[n] = SumFunction(v) /\ bookedRooms[n] \in Nat
    BY DEF Accounted, RoomsAccounted, IInv, TypeOK
  <2>3. bookedRooms'[n] =
          LET left == bookedRooms[n] - RoomsOf(request[b], n) IN IF left > 0 THEN left ELSE 0
    BY DEF ReleaseInventory, RoomsAfter
  <2> HIDE DEF v, w
  <2>4. SumFunction(w) \in Nat
    BY <1>1, <2>1, SumFunctionType
  <2>5. SumFunction(v) = v[b] + SumFunction(w)
    BY <1>1, <2>1, SumFunctionAdded
  <2>6. bookedRooms'[n] = SumFunction(w)
    BY <2>1, <2>2, <2>3, <2>4, <2>5
  <2> QED BY <2>6 DEF w
<1>4. UsesAccounted'
  <2> SUFFICES ASSUME NEW c \in Coupons PROVE used'[c] = Cardinality(LiveWith(c)')
    BY DEF UsesAccounted
  <2>1. IsFiniteSet(LiveWith(c))
    BY <1>1, FS_Subset DEF LiveWith
  <2>2. LiveWith(c)' = LiveWith(c) \ {b}
    BY DEF LiveWith
  <2>3. b \in LiveWith(c) <=> c \in request[b].coupons
    BY DEF LiveWith
  <2>4. used'[c] = IF c \in request[b].coupons /\ used[c] > 0 THEN used[c] - 1 ELSE used[c]
    BY DEF ReleaseInventory, UsesAfter
  <2>5. used[c] = Cardinality(LiveWith(c)) /\ used[c] \in Nat
    BY DEF Accounted, UsesAccounted, IInv, TypeOK
  <2>6. b \in LiveWith(c) => used[c] > 0
    BY <2>1, <2>5, FS_EmptySet
  <2> QED BY <2>1, <2>2, <2>3, <2>4, <2>5, <2>6, FS_RemoveElement
<1> QED BY <1>2, <1>3, <1>4 DEF Accounted

LEMMA AccountsAfterSetStatus ==
  ASSUME IInv, Accounted, NEW b \in Bookings, NEW to \in Live \cup Ended,
         NEW from \in SUBSET Live, SetStatus(b, to, from)
  PROVE  Accounted'
<1>1. b \in LiveBookings
  BY DEF SetStatus, LiveBookings, IsLive
<1>2. CASE to \in Ended
  <2>1. LiveBookings' = LiveBookings \ {b}
    BY <1>2 DEF IInv, TypeOK, SetStatus, LiveBookings, IsLive, Live, Ended
  <2>2. ReleaseInventory(b) /\ UNCHANGED request
    BY <1>2 DEF SetStatus
  <2> QED BY <1>1, <2>1, <2>2, AccountsClosed
<1>3. CASE to \notin Ended
  <2>1. UNCHANGED <<LiveBookings, bookedRooms, used, request>>
    BY <1>3 DEF IInv, TypeOK, SetStatus, inventory, LiveBookings, IsLive
  <2> QED BY <2>1, AccountsUnchanged
<1> QED BY <1>2, <1>3

LEMMA AccountsStep == IInv /\ Accounted /\ [Next]_vars => Accounted'
<1> SUFFICES ASSUME IInv, Accounted, [Next]_vars PROVE Accounted'
  OBVIOUS
<1>a. {"PENDING"} \in SUBSET Live /\ Live \in SUBSET Live
  BY DEF Live
<1>b. {"CONFIRMED", "CANCELLED", "REJECTED", "EXPIRED"} \subseteq Live \cup Ended
  BY DEF Live, Ended
<1>1. ASSUME NEW b \in Bookings, NEW r \in Requests, CreateHallBooking(b, r) PROVE Accounted'
  <2>1. \A n \in RoomNights : bookedRooms'[n] = bookedRooms[n] + RoomsOf(r, n)
    BY <1>1 DEF CreateHallBooking, RoomsOf, IInv, TypeOK
  <2> QED BY <1>1, <2>1, AccountsOpened DEF CreateHallBooking
<1>2. ASSUME NEW b \in Bookings, NEW r \in Requests, CreateHotelBooking(b, r) PROVE Accounted'
  <2>1. \A n \in RoomNights : bookedRooms'[n] = bookedRooms[n] + RoomsOf(r, n)
    BY <1>2 DEF CreateHotelBooking
  <2> QED BY <1>2, <2>1, AccountsOpened DEF CreateHotelBooking
<1>3. ASSUME NEW b \in Bookings, Cancel(b) PROVE Accounted'
  BY <1>3, <1>a, <1>b, AccountsAfterSetStatus DEF Cancel, Live
<1>4. ASSUME NEW b \in Bookings, PaidInFull(b) PROVE Accounted'
  <2>1. UNCHANGED <<LiveBookings, bookedRooms, used, request>>
    BY <1>4 DEF IInv, TypeOK, PaidInFull, inventory, LiveBookings, IsLive, Live
  <2> QED BY <2>1, AccountsUnchanged
<1>5. ASSUME NEW b \in Bookings, NEW confirm \in BOOLEAN, Decide(b, confirm) PROVE Accounted'
  BY <1>5, <1>a, <1>b, AccountsAfterSetStatus DEF Decide
<1>6. ASSUME UNCHANGED <<status, request, inventory>> PROVE Accounted'
  <2>1. UNCHANGED <<LiveBookings, bookedRooms, used, request>>
    BY <1>6 DEF inventory, LiveBookings, IsLive
  <2> QED BY <2>1, AccountsUnchanged
<1>7. ASSUME NEW w \in Workers, NEW b \in Bookings, SweepExpire(w, b) PROVE Accounted'
  BY <1>6, <1>7, <1>a, <1>b, AccountsAfterSetStatus DEF SweepExpire
<1> QED
  BY <1>1, <1>2, <1>3, <1>4, <1>5, <1>6, <1>7
     DEF Next, HoldElapses, SweepRead, SweepAborts, EditCoupon, vars

LEMMA InitAccounted == Init => Accounted
<1> SUFFICES ASSUME Init PROVE Accounted
  OBVIOUS
<1>1. LiveBookings = {}
  BY DEF Init, LiveBookings, IsLive, Live
<1>2. LiveFinite
  BY <1>1, FS_EmptySet DEF LiveFinite
<1>3. RoomsAccounted
  <2> SUFFICES ASSUME NEW n \in RoomNights
               PROVE  bookedRooms[n] = SumFunction([b \in LiveBookings |-> RoomsOf(request[b], n)])
    BY DEF RoomsAccounted
  <2>1. DOMAIN [b \in LiveBookings |-> RoomsOf(request[b], n)] = {}
    BY <1>1
  <2> QED BY <2>1, SumEmpty DEF Init, SumFunction
<1>4. UsesAccounted
  <2>1. \A c \in Coupons : LiveWith(c) = {}
    BY <1>1 DEF LiveWith
  <2> QED BY <2>1, FS_EmptySet DEF Init, UsesAccounted
<1> QED BY <1>2, <1>3, <1>4 DEF Accounted

LEMMA AccountsInvariance == Spec => [](IInv /\ Accounted)
<1>1. Init => IInv /\ Accounted
  BY InitIInv, InitAccounted
<1>2. IInv /\ Accounted /\ [Next]_vars => (IInv /\ Accounted)'
  BY TypeStep, RequestStep, SlotsStep, SweepStep, AccountsStep DEF IInv
<1> QED BY <1>1, <1>2, PTL DEF Spec

\* Slot rows, room counts and coupon uses are at all times what the live bookings
\* hold (CreateHallBooking, CreateHotelBooking, releaseInventory, coupon.Redeem and
\* coupon.Release): nothing is freed twice and nothing is forgotten.
THEOREM InventoryIsAccounted == Spec => []InventoryAccounted
<1>1. IInv /\ Accounted => InventoryAccounted
  BY DEF IInv, Accounted, InventoryAccounted
<1> QED BY <1>1, AccountsInvariance, PTL

\* coupon.Redeem: whoever is given a coupon, the live bookings that hold it are
\* within the limit in force at that moment.
THEOREM LimitIsRespected == Spec => LimitRespected
<1> DEFINE Within ==
      \A c \in Coupons : \A b \in LiveWith(c)' :
        status[b] = "NONE" => Cardinality(LiveWith(c)') <= limit[c]
<1>1. IInv /\ Accounted /\ (IInv /\ Accounted)' /\ [Next]_vars => [Within]_vars
  <2> SUFFICES ASSUME IInv, Accounted, Accounted', [Next]_vars,
                      NEW c \in Coupons, NEW b \in LiveWith(c)', status[b] = "NONE"
               PROVE  Cardinality(LiveWith(c)') <= limit[c]
    OBVIOUS
  <2>1. b \in Bookings /\ status'[b] \in Live /\ c \in request'[b].coupons
    BY DEF LiveWith, LiveBookings, IsLive
  <2>2. used[c] \in Nat /\ limit[c] \in Nat /\ Cardinality(LiveWith(c)') = used'[c]
    BY ConstantsAssumption DEF IInv, TypeOK, Accounted, UsesAccounted
  <2>3. ASSUME NEW a \in Bookings, NEW r \in Requests, NEW h, Insert(a, r, h), Redeem(r)
        PROVE  used'[c] <= limit[c]
    <3>1. a = b
      BY <2>1, <2>3 DEF Insert, IInv, TypeOK, Live
    <3>2. c \in r.coupons
      BY <2>1, <2>3, <3>1 DEF Insert, IInv, TypeOK
    <3> QED BY <2>2, <2>3, <3>2 DEF Redeem, Redeemable
  <2>4. ASSUME NEW a \in Bookings, NEW to, NEW from \in SUBSET Live, SetStatus(a, to, from)
        PROVE  FALSE
    BY <2>1, <2>4 DEF SetStatus, IInv, TypeOK, Live
  <2>5. {"PENDING"} \in SUBSET Live /\ {"PENDING", "CONFIRMED"} \in SUBSET Live
    BY DEF Live
  <2>6. ~ UNCHANGED status
    BY <2>1 DEF Live
  <2>7. ASSUME NEW a \in Bookings, PaidInFull(a) PROVE FALSE
    BY <2>1, <2>7 DEF PaidInFull, IInv, TypeOK, Live
  <2> QED
    BY <2>2, <2>3, <2>4, <2>5, <2>6, <2>7
       DEF Next, CreateHallBooking, CreateHotelBooking, Cancel, Decide, HoldElapses,
           SweepRead, SweepAborts, SweepExpire, EditCoupon, vars
<1> QED BY <1>1, AccountsInvariance, PTL DEF Spec, LimitRespected

--------------------------------------------------------------------------------
(* Refinement *)

\* Whatever moves a booking row moves it as BookingLifecycle says.
THEOREM ImplementsLifecycle == Spec => LifecycleHolds
<1> USE DEF Lifecycle!Move, Lifecycle!Live
<1>1. Init => Lifecycle!Init
  BY DEF Init, Lifecycle!Init
<1>2. IInv /\ [Next]_vars => [Lifecycle!Next]_(Lifecycle!lifecycleVars)
  <2> SUFFICES ASSUME IInv, [Next]_vars
               PROVE  Lifecycle!Next \/ UNCHANGED <<status, hold>>
    BY DEF Lifecycle!lifecycleVars
  <2>1. ASSUME NEW b \in Bookings, NEW r \in Requests, CreateHallBooking(b, r)
        PROVE  Lifecycle!Open(b, "none")
    BY <2>1 DEF CreateHallBooking, Insert, Lifecycle!Open
  <2>2. ASSUME NEW b \in Bookings, NEW r \in Requests, CreateHotelBooking(b, r)
        PROVE  Lifecycle!Open(b, "running")
    BY <2>2 DEF CreateHotelBooking, Insert, Lifecycle!Open
  <2>3. ASSUME NEW b \in Bookings, Cancel(b) PROVE Lifecycle!Cancel(b)
    BY <2>3 DEF Cancel, SetStatus, Lifecycle!Cancel
  <2>4. ASSUME NEW b \in Bookings, NEW confirm \in BOOLEAN, Decide(b, confirm)
        PROVE  Lifecycle!Accept(b) \/ Lifecycle!Reject(b)
    BY <2>4 DEF Decide, SetStatus, Lifecycle!Accept, Lifecycle!Reject
  <2>5. ASSUME NEW b \in Bookings, PaidInFull(b) PROVE Lifecycle!Pay(b)
    BY <2>5 DEF PaidInFull, Live, Lifecycle!Pay
  <2>6. ASSUME NEW b \in Bookings, HoldElapses(b) PROVE Lifecycle!Elapse(b)
    BY <2>6 DEF HoldElapses, Lifecycle!Elapse
  <2>7. ASSUME NEW w \in Workers, NEW b \in Bookings, SweepExpire(w, b)
        PROVE  Lifecycle!Expire(b) \/ UNCHANGED <<status, hold>>
    BY <2>7 DEF IInv, SweepWasOverdue, SweepExpire, SetStatus, Lifecycle!Expire
  <2>8. CASE UNCHANGED <<status, hold>>
    BY <2>8
  <2> QED
    BY <2>1, <2>2, <2>3, <2>4, <2>5, <2>6, <2>7, <2>8
       DEF Next, vars, SweepRead, SweepAborts, EditCoupon, Lifecycle!Next
<1> QED BY <1>1, <1>2, Invariance, PTL DEF Spec, LifecycleHolds, Lifecycle!Spec

LEMMA HalfDayRows ==
  ASSUME NEW h \in HalfDays
  PROVE  /\ h = <<h[1], h[2], h[3]>>
         /\ h[3] \in {"MORNING", "EVENING"}
         /\ h \in SlotRows
         /\ <<h[1], h[2], "FULL_DAY">> \in SlotRows
BY DEF HalfDays, SlotRows, SlotTypes

\* Every half-day has a booking for its owner, or nobody.
LEMMA HoldersAreBookings ==
  ASSUME IInv, NEW h \in HalfDays
  PROVE  Holder(h) \in Bookings \cup {NoBooking}
BY HalfDayRows DEF IInv, TypeOK, Holder

\* A claim takes free half-days only, all in one step.
LEMMA ClaimTakes ==
  ASSUME IInv, NEW b \in Bookings, NEW r \in Requests, CreateHallBooking(b, r)
  PROVE  Promise!Next \/ UNCHANGED [h \in HalfDays |-> Holder(h)]
<1> USE DEF IInv
<1> DEFINE full(h) == <<h[1], h[2], "FULL_DAY">>
           wanted == {h \in HalfDays : h \in SlotsOf(r) \/ full(h) \in SlotsOf(r)}
<1>1. /\ slotOwner' = [s \in SlotRows |-> IF s \in SlotsOf(r) THEN b ELSE slotOwner[s]]
      /\ \A s \in SlotsOf(r) : Claimable(s)
      /\ status[b] = "NONE"
  BY DEF CreateHallBooking, Insert
<1>2. b # NoBooking
  BY ConstantsAssumption
<1>3. ASSUME NEW h \in HalfDays, h \in wanted
      PROVE  Holder(h) = NoBooking /\ Holder(h)' = b
  <2>1. CASE full(h) \in SlotsOf(r)
    <3>1. \A u \in SlotTypes : slotOwner[<<h[1], h[2], u>>] = NoBooking
      BY <1>1, <2>1 DEF Claimable
    <3>2. slotOwner[h] = NoBooking /\ slotOwner[full(h)] = NoBooking
      BY <3>1, HalfDayRows DEF SlotTypes
    <3> QED BY <1>1, <1>2, <2>1, <3>2, HalfDayRows DEF Holder
  <2>2. CASE h \in SlotsOf(r) /\ full(h) \notin SlotsOf(r)
    <3>1. slotOwner[h] = NoBooking /\ slotOwner[full(h)] = NoBooking
      BY <1>1, <2>2 DEF Claimable, SlotTypes
    <3> QED BY <1>1, <1>2, <2>2, <3>1, HalfDayRows DEF Holder
  <2> QED BY <1>3, <2>1, <2>2
<1>4. ASSUME NEW h \in HalfDays, h \notin wanted PROVE Holder(h)' = Holder(h)
  BY <1>1, <1>4, HalfDayRows DEF Holder
<1>5. \A h \in HalfDays : Holder(h) # b
  BY <1>1, <1>2, HalfDayRows DEF Holder, SlotsMatchBookings, IsLive, Live
<1>6. \A h \in HalfDays : Holder(h)' \in Bookings \cup {NoBooking}
  BY <1>3, <1>4, HoldersAreBookings
<1>7. Promise!Take(b)
  BY <1>3, <1>4, <1>5, <1>6 DEF Promise!Take, Promise!HeldBy, Promise!TypeOK
<1> QED BY <1>7 DEF Promise!Next

\* Ending a booking gives back all its half-days, and nobody else's.
LEMMA EndGivesBack ==
  ASSUME IInv, NEW b \in Bookings, NEW to, NEW from, SetStatus(b, to, from)
  PROVE  Promise!Next \/ UNCHANGED [h \in HalfDays |-> Holder(h)]
<1> USE DEF IInv
<1>1. CASE UNCHANGED slotOwner
  <2>1. \A h \in HalfDays : Holder(h)' = Holder(h)
    BY <1>1 DEF Holder
  <2> QED BY <2>1
<1>2. CASE slotOwner' = [s \in SlotRows |-> IF slotOwner[s] = b THEN NoBooking ELSE slotOwner[s]]
  <2>1. ASSUME NEW h \in HalfDays
        PROVE  Holder(h)' = IF Holder(h) = b THEN NoBooking ELSE Holder(h)
    <3> DEFINE full == <<h[1], h[2], "FULL_DAY">>
    <3>1. slotOwner[full] = NoBooking \/ slotOwner[h] = NoBooking
      BY HalfDayRows DEF SlotsExclusive
    <3>2. b # NoBooking
      BY ConstantsAssumption
    <3> QED BY <1>2, <3>1, <3>2, HalfDayRows DEF Holder
  <2>2. [h \in HalfDays |-> Holder(h)]' =
          [h \in HalfDays |-> IF Holder(h) = b THEN NoBooking ELSE Holder(h)]
    BY <2>1
  <2>3. Promise!GiveBack(b)
    BY <2>2 DEF Promise!GiveBack
  <2> QED BY <2>3 DEF Promise!Next
<1> QED BY <1>1, <1>2 DEF SetStatus, ReleaseInventory, SlotsAfter, inventory

\* The slot rows keep the calendar's promise: half-days are taken only when free,
\* all of a booking's at once, and given back all at once.
THEOREM ImplementsSlotPromise == Spec => SlotPromiseHolds
<1>1. Init => Promise!Init
  BY HalfDayRows DEF Init, Promise!Init, Holder
<1>2. IInv /\ [Next]_vars => [Promise!Next]_[h \in HalfDays |-> Holder(h)]
  <2> SUFFICES ASSUME IInv, [Next]_vars
               PROVE  Promise!Next \/ UNCHANGED [h \in HalfDays |-> Holder(h)]
    OBVIOUS
  <2>1. CASE UNCHANGED slotOwner
    <3>1. \A h \in HalfDays : Holder(h)' = Holder(h)
      BY <2>1 DEF Holder
    <3> QED BY <3>1
  <2> QED
    BY <2>1, ClaimTakes, EndGivesBack
       DEF Next, vars, inventory, CreateHotelBooking, Cancel, PaidInFull, HoldElapses, Decide,
           SweepRead, SweepAborts, SweepExpire, EditCoupon
<1> QED BY <1>1, <1>2, Invariance, PTL DEF Spec, SlotPromiseHolds, Promise!Spec
====
