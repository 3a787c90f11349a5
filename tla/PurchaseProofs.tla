---------------------------- MODULE PurchaseProofs -----------------------------
(***************************************************************************)
(* Proofs about what a customer is shown, charged and pays.  The first     *)
(* part is about Venues, Catalogue and Checkout, for any venues, rooms,    *)
(* prices, percentages, searches and forms; the second about Payment, for  *)
(* any number of bookings, orders and events and any totals.  The two have *)
(* no state in common.                                                     *)
(*                                                                         *)
(* The first part needs that the rows are typed, for the arithmetic, and   *)
(* one thing that is not about types: NeverOverbooked.  A search sums the  *)
(* rooms left over the types, so a type taken beyond its stock would hide  *)
(* the rooms that other types have left.                                   *)
(***************************************************************************)
EXTENDS Checkout, Payment, SumLemmas, TLAPS

BookingRow == [id : Int, venue : Venue, days : SUBSET Int, slot : Slots \cup {None},
               rooms : [RoomTypes -> Nat]]

\* The rows hold what their columns allow.
RowsTyped ==
  /\ DOMAIN venue = Venue
  /\ \A f \in Venue : venue[f] # None => IsRow(venue[f])
  /\ child \in [Children -> ChildRow \cup {None}]
  /\ booked \subseteq BookingRow

\* What hangs off a venue's row, and the requests in flight.
ListsTyped ==
  /\ declared \in [Venue -> SUBSET EventTypes]
  /\ offers \in [Venue -> SUBSET Amenities]
  /\ writing \subseteq [venue : Venue, amenity : Amenities, shown : SUBSET Amenities]
  /\ \A w \in replacing : /\ DOMAIN w = {"venue", "codes", "alone"}
                          /\ w.venue \in Venue /\ w.codes \in SUBSET EventTypes

\* There are no more bookings than requests so far, so an id is always free.
IdsLeft ==
  /\ edits \in 0..MaxEdits
  /\ IsFiniteSet(booked) /\ Cardinality(booked) <= edits

\* No night has more rooms of a type taken than the type has, and a type that
\* was never created has none.
NeverOverbooked ==
  \A r \in RoomTypes :
    /\ child[r] = None => \A b \in booked : b.rooms[r] = 0
    /\ child[r] # None => \A night \in Int : RoomsTaken(r, night) <= child[r].total

VenuesInv == RowsTyped /\ ListsTyped /\ IdsLeft /\ NeverOverbooked

--------------------------------------------------------------------------------
(* Rows *)

\* A form makes a row.
LEMMA NewRowTyped == ASSUME NEW form \in Profiles PROVE IsRow(NewRow(form))
BY RowsAssumption DEF NewRow, IsRow, Columns, Statuses

\* Every column a route writes keeps the row a row.
LEMMA ColumnsTyped ==
  ASSUME NEW row, IsRow(row)
  PROVE  /\ \A x \in BOOLEAN : IsRow([row EXCEPT !.deleted = x])
         /\ \A x \in BOOLEAN : IsRow([row EXCEPT !.verified = x])
         /\ \A x \in Statuses : IsRow([row EXCEPT !.status = x])
         /\ \A x : IsRow([row EXCEPT !.name = x])
         /\ \A x : IsRow([row EXCEPT !.city = x])
         /\ \A x \in Nat \cup {None} : IsRow([row EXCEPT !.price = x]) /\ IsRow([row EXCEPT !.pax = x])
         /\ \A x \in 1..100 : IsRow([row EXCEPT !.percent = x])
         /\ \A x \in {"ahead", "past"} : IsRow([row EXCEPT !.until = x])
         /\ IsRow([row EXCEPT !.percent = None, !.until = None])
         /\ \A form \in Profiles :
              IsRow([row EXCEPT !.name = form.name, !.city = form.city,
                     !.price = form.price, !.pax = form.pax, !.place = form.place])
<1>1. \A x : IsRow([row EXCEPT !.deleted = x]) /\ IsRow([row EXCEPT !.verified = x])
  BY DEF IsRow, Columns
<1>2. \A x : IsRow([row EXCEPT !.name = x]) /\ IsRow([row EXCEPT !.city = x])
  BY DEF IsRow, Columns
<1>3. \A x \in Statuses : IsRow([row EXCEPT !.status = x])
  BY DEF IsRow, Columns
<1>4. /\ \A x \in Nat \cup {None} : IsRow([row EXCEPT !.price = x]) /\ IsRow([row EXCEPT !.pax = x])
      /\ \A x \in 1..100 : IsRow([row EXCEPT !.percent = x])
      /\ \A x \in {"ahead", "past"} : IsRow([row EXCEPT !.until = x])
  BY DEF IsRow, Columns
<1>5. IsRow([row EXCEPT !.percent = None, !.until = None])
  BY DEF IsRow, Columns
<1>6. ASSUME NEW form \in Profiles
      PROVE  IsRow([row EXCEPT !.name = form.name, !.city = form.city,
                    !.price = form.price, !.pax = form.pax, !.place = form.place])
  BY RowsAssumption DEF IsRow, Columns
<1> QED
  BY <1>1, <1>2, <1>3, <1>4, <1>5, <1>6

\* The rooms taken depend on the bookings alone.
LEMMA RoomsTakenSame ==
  ASSUME booked' = booked
  PROVE  \A r, night : RoomsTaken(r, night)' = RoomsTaken(r, night)
BY DEF RoomsTaken

\* The bookings that take rooms of a type on a night.
Takers(r, night) == {b \in booked : b.venue = At[r] /\ night \in b.days}

\* Bookings that all take none of a type take none together.
LEMMA NothingTaken ==
  ASSUME IsFiniteSet(booked), NEW r, \A b \in booked : b.rooms[r] = 0, NEW night
  PROVE  RoomsTaken(r, night) = 0
<1> DEFINE T == Takers(r, night)
           w == [b \in T |-> b.rooms[r]]
<1>1. IsFiniteSet(T) /\ T \subseteq booked
  BY FS_Subset DEF Takers
<1>2. \A b \in T : w[b] \in Int /\ w[b] = 0
  BY <1>1
<1>3. RoomsTaken(r, night) = SumFunctionOnSet(w, T)
  BY DEF RoomsTaken, SumFunction, Takers
<1>4. SumFunctionOnSet(w, T \ T) = 0
  <2>1. T \ T = {}
    OBVIOUS
  <2> QED
    BY <2>1, SumEmpty
<1> HIDE DEF w, T
<1>5. SumFunctionOnSet(w, T) = SumFunctionOnSet(w, T \ T)
  BY <1>1, <1>2, SumNonZero, T \in SUBSET T
<1> QED
  BY <1>3, <1>4, <1>5

--------------------------------------------------------------------------------
(* One lemma per kind of step *)

\* A request, or a step of one, takes no id.
LEMMA IdsStay ==
  ASSUME IdsLeft, booked' = booked, Called \/ UNCHANGED edits
  PROVE  IdsLeft'
BY BoundsAssumption, FS_CardinalityType DEF IdsLeft, Called

\* A route that writes one venue's row and nothing of its bookings.
LEMMA RowStep ==
  ASSUME VenuesInv, Called \/ UNCHANGED edits, NEW f \in Venue, NEW row, IsRow(row),
         venue' = [venue EXCEPT ![f] = row], UNCHANGED <<declared, writing, replacing, child, booked>>,
         offers' \in [Venue -> SUBSET Amenities]
  PROVE  VenuesInv'
<1>1. RowsTyped'
  BY DEF VenuesInv, RowsTyped
<1>2. ListsTyped'
  BY DEF VenuesInv, ListsTyped
<1>3. IdsLeft'
  BY IdsStay DEF VenuesInv
<1>4. NeverOverbooked'
  BY RoomsTakenSame DEF VenuesInv, NeverOverbooked
<1> QED
  BY <1>1, <1>2, <1>3, <1>4 DEF VenuesInv

\* The same of a statement on a live row, with its trigger or without.
LEMMA WriteStep ==
  ASSUME VenuesInv, Called \/ UNCHANGED edits, NEW f \in Venue, NEW row, IsRow(row),
         Write(f, row) \/ trg_facility_search_vector(f, row)
  PROVE  VenuesInv'
BY RowStep DEF Write, trg_facility_search_vector, VenuesInv, ListsTyped

\* A route that writes lists only.
LEMMA ListStep ==
  ASSUME VenuesInv, Called \/ UNCHANGED edits, UNCHANGED <<venue, child, booked>>, ListsTyped'
  PROVE  VenuesInv'
<1>1. RowsTyped'
  BY DEF VenuesInv, RowsTyped
<1>2. IdsLeft'
  BY IdsStay DEF VenuesInv
<1>3. NeverOverbooked'
  BY RoomsTakenSame DEF VenuesInv, NeverOverbooked
<1> QED
  BY <1>1, <1>2, <1>3 DEF VenuesInv

\* A new child, or one softly deleted: a room type keeps its total.
LEMMA ChildStep ==
  ASSUME VenuesInv, Called, NEW c \in Children, NEW row \in ChildRow,
         child' = [child EXCEPT ![c] = row], child[c] # None => row.total = child[c].total,
         UNCHANGED <<venue, declared, offers, writing, replacing, booked>>
  PROVE  VenuesInv'
<1>1. RowsTyped'
  BY DEF VenuesInv, RowsTyped
<1>2. ListsTyped'
  BY DEF VenuesInv, ListsTyped
<1>3. IdsLeft'
  BY IdsStay DEF VenuesInv
<1>4. ASSUME NEW r \in RoomTypes
      PROVE  /\ child'[r] = None => \A b \in booked' : b.rooms[r] = 0
             /\ child'[r] # None => \A night \in Int : RoomsTaken(r, night)' <= child'[r].total
  <2>1. r \in Children /\ child'[r] = IF r = c THEN row ELSE child[r]
    BY DEF VenuesInv, RowsTyped, Children
  <2>2. CASE child[r] # None
    BY <2>1, <2>2, RoomsTakenSame, NoneAssumption DEF VenuesInv, NeverOverbooked
  <2>3. CASE child[r] = None
    <3>1. \A b \in booked : b.rooms[r] = 0
      BY <2>3 DEF VenuesInv, NeverOverbooked
    <3>2. ASSUME NEW night \in Int PROVE RoomsTaken(r, night) = 0
      BY <3>1, NothingTaken DEF VenuesInv, IdsLeft
    <3>3. row.total \in Nat
      BY DEF ChildRow
    <3> QED
      BY <2>1, <2>3, <3>1, <3>2, <3>3, RoomsTakenSame
  <2> QED
    BY <2>2, <2>3
<1> QED
  BY <1>1, <1>2, <1>3, <1>4 DEF VenuesInv, NeverOverbooked

--------------------------------------------------------------------------------
(* Bookings *)

\* The id a booking is given is not in use.
LEMMA NewIdFree ==
  ASSUME IdsLeft, edits < MaxEdits
  PROVE  NewId \in Int /\ \A b \in booked : b.id # NewId
<1> DEFINE Ids == {b.id : b \in booked}
           Free == (0..MaxEdits) \ Ids
<1>1. IsFiniteSet(Ids) /\ Cardinality(Ids) <= Cardinality(booked)
  <2>1. [b \in booked |-> b.id] \in Surjection(booked, Ids)
    BY DEF Surjection
  <2> QED
    BY <2>1, FS_Surjection DEF IdsLeft, ExistsSurjection
<1>2. IsFiniteSet(0..MaxEdits) /\ Cardinality(0..MaxEdits) = MaxEdits + 1
  BY FS_Interval, BoundsAssumption
<1>3. Free # {}
  <2>1. SUFFICES ASSUME 0..MaxEdits \subseteq Ids PROVE FALSE
    OBVIOUS
  <2>2. Cardinality(0..MaxEdits) <= Cardinality(Ids)
    BY <1>1, <2>1, FS_Subset
  <2>3. Cardinality(Ids) \in Nat /\ Cardinality(booked) \in Nat
    BY <1>1, FS_CardinalityType DEF IdsLeft
  <2> QED
    BY <1>1, <1>2, <2>2, <2>3, BoundsAssumption DEF IdsLeft
<1>4. Free \subseteq Int /\ IsFiniteSet(Free)
  <2>1. Free \in SUBSET (0..MaxEdits) /\ Free \subseteq Int
    OBVIOUS
  <2> HIDE DEF Free
  <2> QED
    BY <1>2, <2>1, FS_Subset
<1> HIDE DEF Free
<1>5. \E x \in Free : \A y \in Free : x <= y
  BY <1>3, <1>4, Bounds
<1>6. Min(Free) \in Free
  BY <1>5 DEF Min
<1>7. NewId = Min(Free)
  BY DEF NewId, Free
<1>8. NewId \in Free
  BY <1>6, <1>7
<1> QED
  BY <1>8 DEF Free

\* A booking more adds what it takes, on the nights it takes it.
LEMMA OneMoreTaken ==
  ASSUME RowsTyped, IsFiniteSet(booked), NEW b \in BookingRow, b \notin booked,
         booked' = booked \cup {b}, NEW r \in RoomTypes, NEW night \in Int
  PROVE  /\ RoomsTaken(r, night) \in Nat
         /\ RoomsTaken(r, night)' =
              RoomsTaken(r, night)
                + (IF b.venue = At[r] /\ night \in b.days THEN b.rooms[r] ELSE 0)
<1> DEFINE S == Takers(r, night)
           w == [x \in S |-> x.rooms[r]]
           v == [x \in S \cup {b} |-> x.rooms[r]]
<1>1. IsFiniteSet(S) /\ S \subseteq booked
  BY FS_Subset DEF Takers
<1>2. \A x \in booked \cup {b} : x.rooms[r] \in Nat
  BY DEF RowsTyped, BookingRow
<1>3. RoomsTaken(r, night) = SumFunction(w)
  BY DEF RoomsTaken, Takers
<1>4. SumFunction(w) \in Nat
  BY <1>1, <1>2, SumFunctionType
<1>5. CASE b.venue = At[r] /\ night \in b.days
  <2>1. Takers(r, night)' = S \cup {b}
    BY <1>5 DEF Takers
  <2>2. RoomsTaken(r, night)' = SumFunction(v)
    BY <2>1 DEF RoomsTaken, Takers
  <2>3. b \notin S /\ v[b] = b.rooms[r] /\ v[b] \in Int
        /\ (\A x \in S : w[x] \in Int /\ v[x] = w[x])
        /\ DOMAIN v = S \cup {b} /\ DOMAIN w = S
    BY <1>1, <1>2
  <2> HIDE DEF v, w
  <2>4. SumFunction(v) = v[b] + SumFunction(w)
    BY <1>1, <2>3, SumFunctionAdded
  <2>5. b.rooms[r] \in Nat
    BY <1>2
  <2> QED
    BY <1>3, <1>4, <1>5, <2>2, <2>3, <2>4, <2>5
<1>6. CASE ~ (b.venue = At[r] /\ night \in b.days)
  <2>1. Takers(r, night)' = S
    BY <1>6 DEF Takers
  <2>2. RoomsTaken(r, night)' = SumFunction(w)
    BY <2>1 DEF RoomsTaken, Takers
  <2> QED
    BY <1>3, <1>4, <1>6, <2>2
<1> QED
  BY <1>3, <1>4, <1>5, <1>6

\* A booking that fits is inserted.
LEMMA BookStep ==
  ASSUME VenuesInv, Called, NEW b \in BookingRow, b.id = NewId, booked' = booked \cup {b},
         \A r \in RoomTypes : b.rooms[r] > 0 =>
           /\ child[r] # None
           /\ \A night \in b.days : RoomsTaken(r, night) + b.rooms[r] <= child[r].total,
         UNCHANGED <<venue, declared, offers, writing, replacing, child>>
  PROVE  VenuesInv'
<1>1. b \notin booked
  BY NewIdFree DEF VenuesInv, IdsLeft, Called
<1>2. RowsTyped'
  BY DEF VenuesInv, RowsTyped
<1>3. ListsTyped'
  BY DEF VenuesInv, ListsTyped
<1>4. IdsLeft'
  <2>1. IsFiniteSet(booked') /\ Cardinality(booked') = Cardinality(booked) + 1
    BY <1>1, FS_AddElement DEF VenuesInv, IdsLeft
  <2> QED
    BY <2>1, BoundsAssumption, FS_CardinalityType DEF VenuesInv, IdsLeft, Called
<1>5. ASSUME NEW r \in RoomTypes
      PROVE  /\ child'[r] = None => \A x \in booked' : x.rooms[r] = 0
             /\ child'[r] # None => \A night \in Int : RoomsTaken(r, night)' <= child'[r].total
  <2>1. b.rooms[r] \in Nat
    BY DEF BookingRow
  <2>2. child[r] = None => \A x \in booked' : x.rooms[r] = 0
    BY <2>1 DEF VenuesInv, NeverOverbooked
  <2>3. ASSUME child[r] # None, NEW night \in Int
        PROVE  RoomsTaken(r, night)' <= child[r].total
    <3>1. /\ RoomsTaken(r, night) \in Nat
          /\ RoomsTaken(r, night)' =
               RoomsTaken(r, night)
                 + (IF b.venue = At[r] /\ night \in b.days THEN b.rooms[r] ELSE 0)
      BY <1>1, OneMoreTaken DEF VenuesInv, IdsLeft
    <3>2. RoomsTaken(r, night) <= child[r].total
      BY <2>3 DEF VenuesInv, NeverOverbooked
    <3>3. child[r].total \in Nat
      BY <2>3, r \in Children DEF VenuesInv, RowsTyped, ChildRow, Children
    <3> QED
      BY <2>1, <3>1, <3>2, <3>3
  <2> QED
    BY <2>2, <2>3
<1> QED
  BY <1>2, <1>3, <1>4, <1>5 DEF VenuesInv, NeverOverbooked

\* One that ends gives its rooms back.
LEMMA ReleaseStep ==
  ASSUME VenuesInv, NEW b \in booked, releaseInventory(b)
  PROVE  VenuesInv'
<1> USE DEF releaseInventory
<1>1. RowsTyped'
  BY DEF VenuesInv, RowsTyped
<1>2. ListsTyped'
  BY DEF VenuesInv, ListsTyped
<1>3. IdsLeft'
  <2>1. IsFiniteSet(booked') /\ Cardinality(booked') = Cardinality(booked) - 1
    BY FS_RemoveElement DEF VenuesInv, IdsLeft
  <2> QED
    BY <2>1, BoundsAssumption, FS_CardinalityType DEF VenuesInv, IdsLeft, Called
<1>4. ASSUME NEW r \in RoomTypes, child[r] # None, NEW night \in Int
      PROVE  RoomsTaken(r, night)' <= child[r].total
  <2> DEFINE S == Takers(r, night)
             R == Takers(r, night)'
             w == [x \in S |-> x.rooms[r]]
             v == [x \in R |-> x.rooms[r]]
  <2>1. R \subseteq S /\ S \subseteq booked /\ S \ R \subseteq {b}
    BY DEF Takers
  <2>2. IsFiniteSet(S) /\ IsFiniteSet(R)
    BY <2>1, FS_Subset DEF VenuesInv, IdsLeft
  <2>3. RoomsTaken(r, night) = SumFunction(w) /\ RoomsTaken(r, night)' = SumFunction(v)
    BY DEF RoomsTaken, Takers
  <2>4. \A x \in S : x.rooms[r] \in Nat
    BY <2>1 DEF VenuesInv, RowsTyped, BookingRow
  <2>5. SumFunction(v) \in Nat
    BY <2>1, <2>2, <2>4, SumFunctionType
  <2>6. child[r].total \in Nat /\ SumFunction(w) <= child[r].total
    BY <1>4, <2>3, r \in Children DEF VenuesInv, NeverOverbooked, RowsTyped, ChildRow, Children
  <2>7. CASE b \in S
    <3>1. S = R \cup {b} /\ b \notin R
      BY <2>1, <2>7 DEF Takers
    <3>2. w[b] \in Nat /\ (\A x \in R : v[x] \in Int /\ w[x] = v[x])
          /\ DOMAIN w = R \cup {b} /\ DOMAIN v = R
      BY <2>1, <2>4, <2>7, <3>1
    <3> HIDE DEF v, w, R, S
    <3>3. SumFunction(w) = w[b] + SumFunction(v)
      BY <2>2, <3>1, <3>2, SumFunctionAdded
    <3> QED
      BY <2>3, <2>5, <2>6, <3>2, <3>3
  <2>8. CASE b \notin S
    <3>1. R = S
      BY <2>1, <2>8
    <3> QED
      BY <2>3, <2>6, <3>1
  <2> QED
    BY <2>7, <2>8
<1>5. \A r \in RoomTypes : child[r] = None => \A x \in booked' : x.rooms[r] = 0
  BY DEF VenuesInv, NeverOverbooked
<1> QED
  BY <1>1, <1>2, <1>3, <1>4, <1>5 DEF VenuesInv, NeverOverbooked

--------------------------------------------------------------------------------

\* It holds of the rows the run starts from, which nobody has booked yet.
LEMMA VenuesStart == VenuesInit => VenuesInv
<1> SUFFICES ASSUME VenuesInit PROVE VenuesInv
  OBVIOUS
<1>1. RowsTyped
  BY RowsAssumption DEF VenuesInit, RowsTyped
<1>2. ListsTyped
  BY RowsAssumption DEF VenuesInit, ListsTyped
<1>3. IdsLeft
  BY BoundsAssumption, FS_EmptySet DEF VenuesInit, IdsLeft
<1>4. ASSUME NEW r \in RoomTypes PROVE \A night \in Int : RoomsTaken(r, night) = 0
  BY <1>3, NothingTaken DEF VenuesInit, IdsLeft
<1>5. NeverOverbooked
  <2>1. \A r \in RoomTypes : child[r] # None => child[r].total \in Nat
    BY <1>1, RoomTypes \subseteq Children DEF RowsTyped, ChildRow, Children
  <2>2. booked = {}
    BY DEF VenuesInit
  <2> QED
    BY <1>4, <2>1, <2>2 DEF NeverOverbooked
<1> QED
  BY <1>1, <1>2, <1>3, <1>5 DEF VenuesInv

\* Every route of an owner keeps it: a room type is created with no night taken,
\* and one that is withdrawn keeps its stock and its bookings.
LEMMA OwnerStep == VenuesInv /\ Owner => VenuesInv'
<1> SUFFICES ASSUME VenuesInv, Owner PROVE VenuesInv'
  OBVIOUS
<1>1. \A f \in Venue : Exists(f) => IsRow(venue[f])
  BY DEF VenuesInv, RowsTyped, Exists
<1>2. ASSUME NEW f \in Venue, NEW form \in Profiles, NEW wanted \in SUBSET Amenities,
             createWithType(f, form, wanted)
      PROVE  VenuesInv'
  <2>1. IsRow(NewRow(form))
    BY NewRowTyped
  <2>2. offers' \in [Venue -> SUBSET Amenities]
    BY <1>2 DEF createWithType, VenuesInv, ListsTyped
  <2> QED
    BY <1>2, <2>1, <2>2, RowStep DEF createWithType
<1>3. ASSUME NEW f \in Venue, NEW form \in Profiles, update(f, form) PROVE VenuesInv'
  <2>1. IsRow([venue[f] EXCEPT !.name = form.name, !.city = form.city,
                               !.price = form.price, !.pax = form.pax, !.place = form.place])
    BY <1>1, <1>3, ColumnsTyped DEF update
  <2> QED
    BY <1>3, <2>1, WriteStep DEF update
<1>4. ASSUME NEW f \in Venue, delete(f) PROVE VenuesInv'
  <2>1. IsRow([venue[f] EXCEPT !.deleted = TRUE])
    BY <1>1, <1>4, ColumnsTyped DEF delete
  <2> QED
    BY <1>4, <2>1, WriteStep DEF delete
<1>5. ASSUME NEW f \in Venue, block(f) PROVE VenuesInv'
  <2>1. IsRow([venue[f] EXCEPT !.status = "BLOCKED"])
    BY <1>1, <1>5, ColumnsTyped DEF block, setStatus, Statuses
  <2> QED
    BY <1>5, <2>1, WriteStep DEF block, setStatus
<1>6. ASSUME NEW f \in Venue, NEW codes \in SUBSET EventTypes, setFacilityEvents(f, codes)
      PROVE  VenuesInv'
  <2>1. ListsTyped'
    BY <1>6 DEF setFacilityEvents, VenuesInv, ListsTyped
  <2> QED
    BY <1>6, <2>1, ListStep DEF setFacilityEvents
<1>7. ASSUME NEW f \in Venue, NEW a \in Amenities, addAmenity(f, a) \/ removeAmenity(f, a)
      PROVE  VenuesInv'
  <2>1. ListsTyped'
    BY <1>7 DEF addAmenity, removeAmenity, Touch, VenuesInv, ListsTyped
  <2> QED
    BY <1>7, <2>1, ListStep DEF addAmenity, removeAmenity, Touch
<1>8. ASSUME NEW r \in RoomTypes, NEW form \in Rooms, createRoomType(r, form) PROVE VenuesInv'
  <2> DEFINE row == [price |-> form.price, total |-> IF form.total = 0 THEN 1 ELSE form.total,
                     deleted |-> FALSE]
  <2>1. row \in ChildRow
    BY RowsAssumption DEF ChildRow
  <2>2. r \in Children
    BY DEF Children
  <2> QED
    BY <1>8, <2>1, <2>2, ChildStep DEF createRoomType
<1>9. ASSUME NEW x \in Extras, NEW price \in Prices, createExtra(x, price) PROVE VenuesInv'
  <2>1. [price |-> price, total |-> 1, deleted |-> FALSE] \in ChildRow /\ x \in Children
    BY RowsAssumption DEF ChildRow, Children
  <2> QED
    BY <1>9, <2>1, ChildStep DEF createExtra
<1>10. ASSUME NEW c \in Children, softDeleteChild(c) PROVE VenuesInv'
  <2>1. child[c] \in ChildRow /\ child[c] # None
    BY <1>10 DEF softDeleteChild, LiveChild, VenuesInv, RowsTyped
  <2>2. /\ [child[c] EXCEPT !.deleted = TRUE] \in ChildRow
        /\ [child[c] EXCEPT !.deleted = TRUE].total = child[c].total
    BY <2>1 DEF ChildRow
  <2>3. child' = [child EXCEPT ![c] = [child[c] EXCEPT !.deleted = TRUE]]
    BY <1>10 DEF softDeleteChild
  <2> QED
    BY <1>10, <2>2, <2>3, ChildStep DEF softDeleteChild
<1> QED
  BY <1>2, <1>3, <1>4, <1>5, <1>6, <1>7, <1>8, <1>9, <1>10 DEF Owner

\* Every route of an admin keeps it.
LEMMA AdminStep == VenuesInv /\ Admin => VenuesInv'
<1> SUFFICES ASSUME VenuesInv, Admin PROVE VenuesInv'
  OBVIOUS
<1>1. \A f \in Venue : Exists(f) => IsRow(venue[f])
  BY DEF VenuesInv, RowsTyped, Exists
<1>2. ASSUME NEW f \in Venue, NEW column \in Statuses, approveFacility(f, column) PROVE VenuesInv'
  <2>1. IsRow([venue[f] EXCEPT !.status = column])
    BY <1>1, <1>2, ColumnsTyped DEF approveFacility
  <2> QED
    BY <1>2, <2>1, WriteStep DEF approveFacility
<1>3. ASSUME NEW f \in Venue, toggleBlock(f) PROVE VenuesInv'
  <2> DEFINE column == IF venue[f].status = "BLOCKED" THEN "APPROVED" ELSE "BLOCKED"
  <2>1. IsRow([venue[f] EXCEPT !.status = column])
    BY <1>1, <1>3, ColumnsTyped, column \in Statuses DEF toggleBlock, Statuses
  <2>2. [venue[f] EXCEPT !.status = IF @ = "BLOCKED" THEN "APPROVED" ELSE "BLOCKED"]
          = [venue[f] EXCEPT !.status = column]
    OBVIOUS
  <2> HIDE DEF column
  <2> QED
    BY <1>3, <2>1, <2>2, WriteStep DEF toggleBlock
<1>4. ASSUME NEW f \in Venue, unblock(f) PROVE VenuesInv'
  <2>1. IsRow([venue[f] EXCEPT !.status = "APPROVED"])
    BY <1>1, <1>4, ColumnsTyped DEF unblock, setStatus, Statuses
  <2> QED
    BY <1>4, <2>1, WriteStep DEF unblock, setStatus
<1>5. ASSUME NEW f \in Venue, patchFacility(f) PROVE VenuesInv'
  <2>1. IsRow(venue[f]) /\ Called
    BY <1>1, <1>5 DEF patchFacility
  <2>2. ASSUME NEW row, IsRow(row), Write(f, row) \/ trg_facility_search_vector(f, row)
        PROVE  VenuesInv'
    BY <2>1, <2>2, WriteStep
  <2>3. CASE \E name \in Names : NameFree(name, f) /\ trg_facility_search_vector(f, [venue[f] EXCEPT !.name = name])
    BY <2>1, <2>2, <2>3, ColumnsTyped
  <2>4. CASE \E city \in Cities : trg_facility_search_vector(f, [venue[f] EXCEPT !.city = city])
    BY <2>1, <2>2, <2>4, ColumnsTyped
  <2>5. CASE \E price \in Prices : Write(f, [venue[f] EXCEPT !.price = price])
    BY <2>1, <2>2, <2>5, ColumnsTyped, RowsAssumption
  <2>10. CASE \E pax \in Capacities : Write(f, [venue[f] EXCEPT !.pax = pax])
    BY <2>1, <2>2, <2>10, ColumnsTyped, RowsAssumption
  <2>6. CASE \E percent \in Percents : Write(f, [venue[f] EXCEPT !.percent = percent])
    BY <2>1, <2>2, <2>6, ColumnsTyped, RowsAssumption
  <2>7. CASE Write(f, [venue[f] EXCEPT !.until = "ahead"])
    BY <2>1, <2>2, <2>7, ColumnsTyped
  <2>8. CASE Write(f, [venue[f] EXCEPT !.percent = None, !.until = None])
    BY <2>1, <2>2, <2>8, ColumnsTyped
  <2>9. CASE Write(f, [venue[f] EXCEPT !.verified = ~@])
    <3>1. IsRow([venue[f] EXCEPT !.verified = ~@])
      BY <2>1 DEF IsRow, Columns
    <3> QED
      BY <2>2, <2>9, <3>1
  <2> QED
    BY <1>5, <2>3, <2>4, <2>5, <2>6, <2>7, <2>8, <2>9, <2>10 DEF patchFacility
<1> QED
  BY <1>2, <1>3, <1>4, <1>5 DEF Admin

\* A booking keeps it, for it takes what the locked rows have left; so do a
\* release and the reads.
LEMMA CustomerStep == VenuesInv /\ Customer => VenuesInv'
<1> SUFFICES ASSUME VenuesInv, Customer PROVE VenuesInv'
  OBVIOUS
<1>1. Stays \subseteq SUBSET Int
  BY RowsAssumption DEF Stays
<1>2. NewId \in Int \/ ~ Called
  BY NewIdFree DEF VenuesInv, Called
<1>3. ASSUME NEW h \in Venue, NEW days \in Stays, NEW slot \in Slots, CreateHallBooking(h, days, slot)
      PROVE  VenuesInv'
  <2> DEFINE b == [id |-> NewId, venue |-> h, days |-> days, slot |-> slot, rooms |-> NoRooms]
  <2>1. b \in BookingRow
    BY <1>1, <1>2, <1>3 DEF BookingRow, NoRooms, CreateHallBooking
  <2>2. b.id = NewId /\ \A r \in RoomTypes : b.rooms[r] = 0
    BY DEF NoRooms
  <2>3. Called /\ booked' = booked \cup {b}
        /\ UNCHANGED <<venue, declared, offers, writing, replacing, child>>
    BY <1>3 DEF CreateHallBooking
  <2> HIDE DEF b
  <2> QED
    BY <2>1, <2>2, <2>3, BookStep
<1>4. ASSUME NEW h \in Hotels, NEW nights \in Stays, NEW rooms \in Nightly,
             CreateHotelBooking(h, nights, rooms)
      PROVE  VenuesInv'
  <2> DEFINE b == [id |-> NewId, venue |-> h, days |-> nights, slot |-> None, rooms |-> rooms]
  <2>1. b \in BookingRow
    BY <1>1, <1>2, <1>4, RowsAssumption DEF BookingRow, CreateHotelBooking, Venue
  <2>2. b.id = NewId /\ b.rooms = rooms /\ b.days = nights
    OBVIOUS
  <2>3. Called /\ booked' = booked \cup {b}
        /\ UNCHANGED <<venue, declared, offers, writing, replacing, child>>
    BY <1>4 DEF CreateHotelBooking
  <2>4. \A r \in RoomTypes : rooms[r] > 0 =>
          /\ child[r] # None
          /\ \A night \in nights : RoomsTaken(r, night) + rooms[r] <= child[r].total
    BY <1>4 DEF CreateHotelBooking, LiveChild, RoomsClaimable
  <2> HIDE DEF b
  <2> QED
    BY <2>1, <2>2, <2>3, <2>4, BookStep
<1> QED
  BY <1>3, <1>4, ReleaseStep DEF Customer

\* Every step keeps it.
LEMMA VenuesKept == VenuesInv /\ [VenuesNext]_venueVars => VenuesInv'
<1> SUFFICES ASSUME VenuesInv, [VenuesNext]_venueVars PROVE VenuesInv'
  OBVIOUS
<1>1. ASSUME NEW w \in writing, trg_facility_amenity_search_vector(w) PROVE VenuesInv'
  <2>1. ListsTyped'
    BY <1>1 DEF trg_facility_amenity_search_vector, VenuesInv, ListsTyped
  <2> QED
    BY <1>1, <2>1, ListStep DEF trg_facility_amenity_search_vector
<1>2. ASSUME NEW w \in replacing, SetEvents(w) PROVE VenuesInv'
  <2>1. declared' \in [Venue -> SUBSET EventTypes]
    BY <1>2 DEF SetEvents, VenuesInv, ListsTyped
  <2>2. \A x \in replacing' : /\ DOMAIN x = {"venue", "codes", "alone"}
                             /\ x.venue \in Venue /\ x.codes \in SUBSET EventTypes
    BY <1>2 DEF SetEvents, VenuesInv, ListsTyped
  <2>3. ListsTyped'
    BY <1>2, <2>1, <2>2 DEF SetEvents, VenuesInv, ListsTyped
  <2> QED
    BY <1>2, <2>3, ListStep DEF SetEvents
<1>3. ASSUME NEW f \in Venue, OfferEnds(f) PROVE VenuesInv'
  <2>1. IsRow([venue[f] EXCEPT !.until = "past"])
    BY <1>3, ColumnsTyped DEF OfferEnds, Exists, VenuesInv, RowsTyped
  <2> QED
    BY <1>3, <2>1, WriteStep DEF OfferEnds
<1>4. CASE UNCHANGED venueVars
  <2>1. ListsTyped'
    BY <1>4 DEF venueVars, VenuesInv, ListsTyped
  <2> QED
    BY <1>4, <2>1, ListStep DEF venueVars
<1> QED
  BY <1>1, <1>2, <1>3, <1>4, OwnerStep, AdminStep, CustomerStep DEF VenuesNext

\* In every reachable state the rows are what their columns allow, and no night
\* has more rooms of a type booked than there are: deleting or blocking a venue
\* or a room type takes nothing from the bookings made.
THEOREM VenuesInvariance == VenuesSpec => []VenuesInv
<1> QED
  BY VenuesStart, VenuesKept, PTL DEF VenuesSpec

--------------------------------------------------------------------------------
(* Who is shown *)

\* A comparison is of the venues asked for, all live, or of none.
LEMMA ComparedLive ==
  ASSUME NEW ids
  PROVE  compare(ids) = {} \/ (compare(ids) = ids /\ \A f \in ids : LiveSQL(f))
BY DEF compare, Compare, ByIDs

\* A search finds live venues, and only those its filters let through.
LEMMA FoundLive ==
  ASSUME NEW q
  PROVE  searchVenues(q) \subseteq {f \in Venue : LiveSQL(f) /\ where(q, f)}
BY DEF searchVenues, Strict, Loose, where

\* Every list asks for live rows, whatever else it asks for.
LEMMA LiveOnly == OnlyLiveShown
<1> DEFINE live == {f \in Venue : Exists(f) /\ venue[f].status = "APPROVED"}
<1>1. \A f \in Venue : f \in live <=> LiveSQL(f)
  BY DEF LiveSQL
<1> HIDE DEF live
<1>2. \A q \in Searches : searchVenues(q) \subseteq live
  BY <1>1, FoundLive
<1>3. \A type \in DOMAIN TypeWord, q \in Searches : listWithType(type, q) \subseteq live
  BY <1>1 DEF listWithType, List, listWhere
<1>4. \A t \in Typed : venueSuggestions(t) \subseteq live
  BY <1>1 DEF venueSuggestions
<1>5. \A ids \in SUBSET Venue : compare(ids) \subseteq live
  BY <1>1, ComparedLive
<1>6. \A f \in Venue : similar(f) \subseteq live
  BY <1>1 DEF similar
<1>7. GetRecommendations(None, None) \subseteq live
  BY <1>1 DEF GetRecommendations
<1>8. {f \in Venue : get(f)} = live
  BY <1>1 DEF get, Get, LiveSQL, live
<1>9. popularCities \subseteq {venue[f].city : f \in live}
  BY <1>1 DEF popularCities
<1> QED
  BY <1>2, <1>3, <1>4, <1>5, <1>6, <1>7, <1>8, <1>9 DEF OnlyLiveShown, live

--------------------------------------------------------------------------------
(* What a search says it would find *)

\* A text of no words matches every venue.
LEMMA NoText == \A f : MatchSQL({}, f)
BY DEF MatchSQL, Clean

\* A search that is not relaxed finds its strict matches.
LEMMA StrictFound ==
  ASSUME NEW q, q.text = {} \/ Strict(q) # {}
  PROVE  searchVenues(q) = Strict(q) /\ ~ Relaxed(q)
BY DEF searchVenues, Relaxed

\* A part of a set of venues is counted as no more, and as many only when it is
\* the whole.
LEMMA PartCounted ==
  ASSUME NEW S \in SUBSET Venue, NEW T \in SUBSET S
  PROVE  /\ Cardinality(S) >= Cardinality(T)
         /\ Cardinality(S) = Cardinality(T) <=> S = T
<1>1. IsFiniteSet(S)
  BY FS_Subset, RowsAssumption
<1> QED
  BY <1>1, FS_Subset, FS_CardinalityType

\* The search a suggestion leads to, the venues the suggestion counted, and
\* those the search finds: of the city in any spelling.
LedTo(q, t, e, c) ==
  /\ q.text = {} /\ q.city = c /\ q.type = t /\ q.event = e /\ q.amenities = {}
  /\ q.paxLeast = 0 /\ q.paxMost = 0 /\ q.atLeast = 0 /\ q.atMost = 0
  /\ q.near = FALSE /\ q.stay = None
Counted(t, e, c) ==
  {f \in Venue : LiveSQL(f) /\ InCity(f, c) /\ t \in {None, TypeOf(f)} /\ eventFilter(f, e)}
Reached(t, e, c) ==
  {f \in Venue : /\ LiveSQL(f) /\ (c = None \/ LOWER(c) \in CityWord(venue[f]))
                 /\ t \in {None, TypeOf(f)} /\ eventFilter(f, e)}

\* The search finds at least what was counted, and as many when the city has one
\* spelling; of a suggestion of the city alone, only then.
LEMMA CityCounted ==
  ASSUME NEW c, c = None \/ LOWER(c) \notin DOMAIN OldCities, NEW t, NEW e,
         NEW q, LedTo(q, t, e, c)
  PROVE  /\ Found(q) >= Cardinality(Counted(t, e, c))
         /\ OneSpelling(c) => Found(q) = Cardinality(Counted(t, e, c))
         /\ t = None /\ e = None /\ Found(q) = Cardinality(Counted(t, e, c)) => OneSpelling(c)
<1> DEFINE counted == Counted(t, e, c)
           found == Reached(t, e, c)
<1>1. /\ q.text = {} /\ q.city = c /\ q.type = t /\ q.event = e /\ q.amenities = {}
      /\ q.paxLeast = 0 /\ q.paxMost = 0 /\ q.atLeast = 0 /\ q.atMost = 0
      /\ q.near = FALSE /\ q.stay = None
  BY DEF LedTo
<1>2. c = None \/ City(c) = LOWER(c)
  BY DEF City
<1>3. \A f \in Venue : where(q, f) <=> f \in found
  <2> TAKE f \in Venue
  <2>1. SameCity(f, q.city) <=> c = None \/ LOWER(c) \in CityWord(venue[f])
    BY <1>1, <1>2 DEF SameCity
  <2>2. Within(venue[f].pax, q.paxLeast, q.paxMost) /\ Within(venue[f].price, q.atLeast, q.atMost)
    BY <1>1 DEF Within
  <2>3. q.amenities \subseteq offers[f] /\ ~ q.near /\ q.stay = None
    BY <1>1
  <2> QED
    BY <1>1, <2>1, <2>2, <2>3, Zenon DEF where, Reached
<1>4. Strict(q) = found
  <2>1. \A f : MatchSQL(q.text, f)
    BY <1>1, NoText
  <2>2. found \subseteq Venue
    BY DEF Reached
  <2> HIDE DEF found
  <2> QED
    BY <1>3, <2>1, <2>2 DEF Strict
<1>5. Found(q) = Cardinality(found)
  BY <1>1, <1>4, StrictFound DEF Found
<1>6. found \in SUBSET Venue /\ counted \in SUBSET found
  BY DEF InCity, CityWord, Reached, Counted
<1>7. OneSpelling(c) => found = counted
  <2> SUFFICES ASSUME OneSpelling(c), NEW f \in found PROVE f \in counted
    BY <1>6
  <2>1. InCity(f, c)
    BY DEF OneSpelling, InCity, Reached
  <2> QED
    BY <2>1 DEF Reached, Counted
<1>8. ASSUME t = None, e = None, found = counted
      PROVE  OneSpelling(c)
  <2>1. \A f \in found : InCity(f, c)
    BY <1>8 DEF Counted
  <2>2. \A f \in Venue : LiveSQL(f) /\ LOWER(c) \in CityWord(venue[f]) => f \in found
    BY <1>8 DEF Reached, eventFilter
  <2> QED
    BY <2>1, <2>2 DEF OneSpelling, InCity
<1> HIDE DEF found, counted
<1>9. /\ Cardinality(found) >= Cardinality(counted)
      /\ Cardinality(found) = Cardinality(counted) <=> found = counted
  BY <1>6, PartCounted
<1> QED
  BY <1>5, <1>7, <1>8, <1>9 DEF counted

\* What the type-ahead offers, the search finds.
LEMMA SuggestionsSound == SuggestionsLead
<1> USE NoneAssumption
<1> DEFINE Leads(q, c, n) == Found(q) >= n /\ (OneSpelling(c) => Found(q) = n)
<1>1. ASSUME NEW text, NEW c \in citySuggestions(text), LOWER(c) \notin DOMAIN OldCities
      PROVE  LET found == Found([NoFilter EXCEPT !.city = c])
             IN found >= CityCount(c) /\ (found = CityCount(c) <=> OneSpelling(c))
  <2>1. LedTo([NoFilter EXCEPT !.city = c], None, None, c)
    BY DEF NoFilter, LedTo
  <2>2. c # None
    BY DEF citySuggestions, suggestedCities
  <2>3. Counted(None, None, c) = {f \in Venue : LiveSQL(f) /\ venue[f].city = c}
    BY <2>2 DEF InCity, eventFilter, Counted
  <2>4. Cardinality(Counted(None, None, c)) = CityCount(c)
    BY <2>3 DEF CityCount
  <2> QED
    BY <1>1, <2>1, <2>4, CityCounted, Zenon
<1>2. ASSUME NEW c, c = None \/ LOWER(c) \notin DOMAIN OldCities, NEW t, NEW e
      PROVE  Leads([NoFilter EXCEPT !.type = t, !.event = e, !.city = c], c, Cardinality(Counted(t, e, c)))
  <2>1. LedTo([NoFilter EXCEPT !.type = t, !.event = e, !.city = c], t, e, c)
    BY DEF NoFilter, LedTo
  <2> QED
    BY <1>2, <2>1, CityCounted, Zenon
<1>3. ASSUME NEW text, NEW c, c = None \/ LOWER(c) \notin DOMAIN OldCities,
             NEW s \in typeCategories(text, c)
      PROVE  Leads([NoFilter EXCEPT !.type = s.type, !.event = s.event, !.city = s.city], s.city, s.count)
  <2>1. PICK t \in DOMAIN TypeWord :
          s = [type |-> t, event |-> None, city |-> c,
               count |-> Cardinality({f \in Venue : LiveSQL(f) /\ TypeOf(f) = t /\ InCity(f, c)})]
    BY DEF typeCategories, wantedTypes
  <2>2. t # None
    BY DEF TypeWord
  <2>3. Counted(t, None, c) = {f \in Venue : LiveSQL(f) /\ TypeOf(f) = t /\ InCity(f, c)}
    BY <2>2 DEF eventFilter, Counted
  <2>4. /\ s.type = t /\ s.event = None /\ s.city = c
        /\ s.count = Cardinality({f \in Venue : LiveSQL(f) /\ TypeOf(f) = t /\ InCity(f, c)})
    BY <2>1
  <2> HIDE DEF Leads
  <2>6. Leads([NoFilter EXCEPT !.type = t, !.event = None, !.city = c], c, Cardinality(Counted(t, None, c)))
    BY <1>2, <1>3
  <2> QED
    BY <2>3, <2>4, <2>6
<1>4. ASSUME NEW text, NEW c, c = None \/ LOWER(c) \notin DOMAIN OldCities,
             NEW s \in eventCategories(text, c)
      PROVE  Leads([NoFilter EXCEPT !.type = s.type, !.event = s.event, !.city = s.city], s.city, s.count)
  <2> DEFINE counted(e) == {f \in Venue : LiveSQL(f) /\ InCity(f, c)
                                            /\ (e \in declared[f] \/ declared[f] = {})}
  <2>1. PICK e \in EventTypes :
          s = [type |-> None, event |-> e, city |-> c, count |-> Cardinality(counted(e))]
    BY EventWordsAssumption DEF eventCategories
  <2>2. Counted(None, e, c) = counted(e)
    BY DEF eventFilter, Counted
  <2>3. s.type = None /\ s.event = e /\ s.city = c /\ s.count = Cardinality(counted(e))
    BY <2>1
  <2> HIDE DEF Leads
  <2>5. Leads([NoFilter EXCEPT !.type = None, !.event = e, !.city = c], c, Cardinality(Counted(None, e, c)))
    BY <1>2, <1>4
  <2> QED
    BY <2>2, <2>3, <2>5
<1>5. ASSUME NEW text, NEW s \in categories(text), LOWER(s.city) \notin DOMAIN OldCities
      PROVE  Leads([NoFilter EXCEPT !.type = s.type, !.event = s.event, !.city = s.city], s.city, s.count)
  <2>1. PICK c \in citySuggestions(text) \cup {None} :
          s \in typeCategories(text, c) \/ s \in eventCategories(text, c)
    <3> DEFINE cities == IF citySuggestions(text) = {} THEN {None} ELSE citySuggestions(text)
    <3>1. PICK c \in cities : s \in typeCategories(text, c) \cup eventCategories(text, c)
      <4>1. s \in UNION {typeCategories(text, c) \cup eventCategories(text, c) : c \in cities}
        BY <1>5, Zenon DEF categories
      <4> HIDE DEF cities
      <4> QED
        BY <4>1
    <3>2. c \in citySuggestions(text) \cup {None}
      OBVIOUS
    <3> QED
      BY <3>1, <3>2
  <2>2. s.city = c
    <3>1. CASE s \in typeCategories(text, c)
      <4>1. \E t, n : s = [type |-> t, event |-> None, city |-> c, count |-> n]
        BY <3>1, Zenon DEF typeCategories
      <4> QED
        BY <4>1
    <3>2. CASE s \in eventCategories(text, c)
      <4>1. \E e, n : s = [type |-> None, event |-> e, city |-> c, count |-> n]
        BY <3>2, Zenon DEF eventCategories
      <4> QED
        BY <4>1
    <3> QED
      BY <2>1, <3>1, <3>2
  <2> QED
    BY <1>3, <1>4, <1>5, <2>1, <2>2
<1>6. ASSUME NEW text
      PROVE  venueSuggestions(text) \subseteq searchVenues([NoFilter EXCEPT !.text = text])
  <2> DEFINE q == [NoFilter EXCEPT !.text = text]
  <2>1. /\ q.text = text /\ q.city = None /\ q.type = None /\ q.event = None /\ q.amenities = {}
        /\ q.paxLeast = 0 /\ q.paxMost = 0 /\ q.atLeast = 0 /\ q.atMost = 0
        /\ q.near = FALSE /\ q.stay = None
    BY DEF NoFilter
  <2> HIDE DEF q
  <2>2. \A f \in Venue : LiveSQL(f) => where(q, f)
    BY <2>1 DEF where, SameCity, eventFilter, Within
  <2>3. venueSuggestions(text) \subseteq Strict(q)
    BY <2>1, <2>2 DEF Strict, venueSuggestions
  <2>4. venueSuggestions(text) \subseteq searchVenues(q)
    BY <2>3 DEF searchVenues, Relaxed
  <2> QED
    BY <2>4 DEF q
<1>7. ASSUME NEW q, didYouMean(q) # None
      PROVE  ~ Relaxed([q EXCEPT !.text = didYouMean(q)])
  <2>1. Strict([q EXCEPT !.text = didYouMean(q)]) # {}
    BY <1>7 DEF didYouMean
  <2> QED
    BY <2>1 DEF Relaxed
<1>8. ASSUME NEW q
      PROVE  listVenues(q) =
               searchVenues([NoFilter EXCEPT !.type = q.type, !.event = q.event,
                               !.city = q.city, !.text = q.text])
  <2> DEFINE p == [NoFilter EXCEPT !.type = q.type, !.event = q.event,
                     !.city = q.city, !.text = q.text]
  <2>1. /\ p.text = q.text /\ p.city = q.city /\ p.type = q.type /\ p.event = q.event
        /\ p.amenities = {} /\ p.paxLeast = 0 /\ p.paxMost = 0 /\ p.atLeast = 0 /\ p.atMost = 0
        /\ p.near = FALSE /\ p.stay = None
    BY DEF NoFilter
  <2> HIDE DEF p
  <2>2. \A f \in Venue : where(p, f) <=> listWhere(q.type, q.event, q.city, f)
    BY <2>1 DEF where, listWhere, eventFilter, Within
  <2>3. listVenues(q) = List(p.type, p.event, p.city, p.text)
    BY <2>1 DEF listVenues, listWithType
  <2>4. List(p.type, p.event, p.city, p.text) = searchVenues(p)
    BY <2>1, <2>2 DEF List, searchVenues, Relaxed, Strict, Loose
  <2> QED
    BY <2>3, <2>4 DEF p
<1> QED
  BY <1>1, <1>5, <1>6, <1>7, <1>8 DEF SuggestionsLead

--------------------------------------------------------------------------------
(* What the facets of a search promise *)

\* The columns of a comparison with a tick are the venues the amenity's filter
\* finds among those compared.
LEMMA TicksTell ==
  ASSUME NEW ids \in SUBSET Venue, NEW a \in DOMAIN amenityMatrix(compare(ids))
  PROVE  amenityMatrix(compare(ids))[a] =
           ids \cap searchVenues([NoFilter EXCEPT !.amenities = {a}])
<1> DEFINE q == [NoFilter EXCEPT !.amenities = {a}]
<1>1. /\ q.text = {} /\ q.city = None /\ q.type = None /\ q.event = None /\ q.amenities = {a}
      /\ q.paxLeast = 0 /\ q.paxMost = 0 /\ q.atLeast = 0 /\ q.atMost = 0
      /\ q.near = FALSE /\ q.stay = None
  BY DEF NoFilter
<1> HIDE DEF q
<1>2. \A f \in Venue : where(q, f) <=> LiveSQL(f) /\ a \in offers[f]
  BY <1>1 DEF where, SameCity, eventFilter, Within
<1>3. searchVenues(q) = {f \in Venue : LiveSQL(f) /\ a \in offers[f]}
  BY <1>1, <1>2, NoText, StrictFound DEF Strict
<1>4. compare(ids) # {}
  BY DEF amenityMatrix
<1>5. compare(ids) = ids /\ \A f \in ids : LiveSQL(f)
  BY <1>4, ComparedLive
<1>6. amenityMatrix(compare(ids))[a] = {f \in ids : a \in offers[f]}
  BY <1>5 DEF amenityMatrix
<1> QED
  BY <1>3, <1>5, <1>6 DEF q

\* A search as it is made: every parameter has a value.
IsSearch(q) ==
  /\ DOMAIN q = {"text", "city", "type", "event", "amenities", "paxLeast", "paxMost",
                 "atLeast", "atMost", "near", "stay"}
  /\ q.paxLeast \in Nat /\ q.paxMost \in Nat /\ q.atLeast \in Nat /\ q.atMost \in Nat

\* Lifting a filter and setting it again, or setting one more: the venues found
\* are those of the lifted search the new filter lets through, when it finds any.
LEMMA TypeTells ==
  ASSUME NEW q, IsSearch(q), ~ Relaxed(q), NEW t \in DOMAIN typeFacet(q)
  PROVE  typeFacet(q)[t] = Found([q EXCEPT !.type = t])
<1> DEFINE lifted == [q EXCEPT !.type = None]
           p == [q EXCEPT !.type = t]
           found == {f \in Strict(lifted) : TypeOf(f) = t}
<1>1. t \in {TypeOf(f) : f \in Strict(lifted)} /\ typeFacet(q)[t] = Cardinality(found)
  BY DEF typeFacet, Over
<1>2. t # None
  BY <1>1, NoneAssumption DEF TypeOf
<1>3. /\ p.text = lifted.text /\ p.type = t /\ lifted.type = None
      /\ \A f : where(p, f) <=> where(lifted, f) /\ t \in {None, TypeOf(f)}
  BY DEF IsSearch, where
<1> HIDE DEF p, lifted
<1>4. Strict(p) = found
  BY <1>2, <1>3 DEF Strict
<1>5. found # {}
  BY <1>1
<1> QED
  BY <1>1, <1>4, <1>5, StrictFound DEF Found, p

\* The same of an event: the count and the filter take a venue that declares
\* none for a host of every event.
LEMMA EventTells ==
  ASSUME NEW q, IsSearch(q), ~ Relaxed(q), NEW e \in DOMAIN eventFacet(q)
  PROVE  eventFacet(q)[e] = Found([q EXCEPT !.event = e])
<1> DEFINE lifted == [q EXCEPT !.event = None]
           p == [q EXCEPT !.event = e]
           found == {f \in Strict(lifted) : CountsFor(f, e)}
<1>1. /\ e \in EventTypes /\ \E f \in Strict(lifted) : CountsFor(f, e)
      /\ eventFacet(q)[e] = Cardinality(found)
  BY DEF eventFacet, Over
<1>2. e # None
  BY <1>1, NoneAssumption
<1>3. /\ p.text = lifted.text /\ p.event = e
      /\ \A f : where(p, f) <=> where(lifted, f) /\ eventFilter(f, e)
  BY DEF IsSearch, where, eventFilter
<1> HIDE DEF p, lifted
<1>4. Strict(p) = found
  BY <1>2, <1>3 DEF Strict, CountsFor, eventFilter
<1>5. found # {}
  BY <1>1
<1> QED
  BY <1>1, <1>4, <1>5, StrictFound DEF Found, p

\* The same of an amenity, whose filter is added to those of the search.
LEMMA AmenityTells ==
  ASSUME NEW q, IsSearch(q), ~ Relaxed(q), NEW a \in DOMAIN amenityFacet(q)
  PROVE  amenityFacet(q)[a] = Found([q EXCEPT !.amenities = @ \cup {a}])
<1> DEFINE p == [q EXCEPT !.amenities = @ \cup {a}]
           found == {f \in Strict(q) : a \in offers[f]}
<1>1. (\E f \in Strict(q) : a \in offers[f]) /\ amenityFacet(q)[a] = Cardinality(found)
  BY DEF amenityFacet, Over
<1>2. /\ p.text = q.text /\ p.amenities = q.amenities \cup {a}
      /\ \A f : where(p, f) <=> where(q, f) /\ a \in offers[f]
  BY DEF IsSearch, where
<1> HIDE DEF p
<1>3. Strict(p) = found
  BY <1>2 DEF Strict
<1>4. found # {}
  BY <1>1
<1> QED
  BY <1>1, <1>3, <1>4, StrictFound DEF Found, p

\* The prices drawn are whole numbers, of finitely many venues: there is a least
\* and a greatest, and every priced venue of the search lies between.  A least of
\* 0 is no bound, and no priced venue is under it.
LEMMA PricesTell ==
  ASSUME RowsTyped, NEW q, IsSearch(q), ~ Relaxed(q), priceRange(q) # {}, Max(priceRange(q)) > 0
  PROVE  LET prices == priceRange(q)
         IN searchVenues([q EXCEPT !.atLeast = Min(prices), !.atMost = Max(prices)])
              = {f \in searchVenues([q EXCEPT !.atLeast = 0, !.atMost = 0]) : Priced(f)}
<1> DEFINE free == [q EXCEPT !.atLeast = 0, !.atMost = 0]
           priced == {f \in Strict(free) : Priced(f)}
           prices == priceRange(q)
           p == [q EXCEPT !.atLeast = Min(prices), !.atMost = Max(prices)]
<1>1. prices = {venue[f].price : f \in priced} /\ priced # {}
  BY DEF priceRange, Over
<1>2. priced \subseteq Venue /\ IsFiniteSet(priced)
  <2>1. priced \in SUBSET Venue
    BY DEF Strict
  <2> HIDE DEF priced
  <2> QED
    BY <2>1, FS_Subset, RowsAssumption
<1>3. \A f \in priced : venue[f].price \in Nat
  BY DEF RowsTyped, IsRow, Strict, where, LiveSQL, Exists, Priced
<1> HIDE DEF priced, prices
<1>4. IsFiniteSet(prices)
  <2>1. [f \in priced |-> venue[f].price] \in Surjection(priced, prices)
    BY <1>1 DEF Surjection
  <2> QED
    BY <1>2, <2>1, FS_Surjection
<1>5. prices \subseteq Int /\ prices # {}
  BY <1>1, <1>3
<1>6. /\ Min(prices) \in prices /\ \A x \in prices : Min(prices) <= x
      /\ Max(prices) \in prices /\ \A x \in prices : Max(prices) >= x
  BY <1>4, <1>5, Bounds DEF Min, Max
<1>7. /\ p.atLeast = Min(prices) /\ p.atMost = Max(prices) /\ p.text = free.text
      /\ free.atLeast = 0 /\ free.atMost = 0 /\ free.text = q.text
      /\ free.paxLeast = p.paxLeast /\ free.paxMost = p.paxMost
  BY DEF IsSearch
<1>8. Min(prices) \in Nat /\ Max(prices) \in Nat /\ Max(prices) > 0
  BY <1>1, <1>3, <1>6 DEF prices
<1>9. \A f : where(p, f) <=> where(free, f) /\ Within(venue[f].price, Min(prices), Max(prices))
  BY <1>7, <1>8 DEF IsSearch, where, Within
<1>10. \A f : where(q, f) => where(free, f)
  BY <1>7 DEF IsSearch, where, Within
<1>14. \A f \in Venue : where(free, f) => venue[f].price \in Nat \cup {None}
  BY DEF RowsTyped, IsRow, where, LiveSQL, Exists
<1> HIDE DEF p, free
<1>11. Strict(p) = priced
  <2>1. \A f \in Strict(free) : f \in Venue /\ where(free, f)
    BY DEF Strict
  <2>2. ASSUME NEW f \in Strict(free)
        PROVE  Within(venue[f].price, Min(prices), Max(prices)) <=> f \in priced
    <3>1. f \in priced <=> Priced(f)
      BY DEF priced
    <3>2. f \in priced => Min(prices) <= venue[f].price /\ venue[f].price <= Max(prices)
      BY <1>1, <1>5, <1>6
    <3> QED
      BY <1>8, <1>14, <2>1, <3>1, <3>2 DEF Within, Priced
  <2>3. Strict(p) = {f \in Strict(free) : Within(venue[f].price, Min(prices), Max(prices))}
    BY <1>7, <1>9 DEF Strict
  <2>4. priced \subseteq Strict(free)
    BY DEF priced
  <2> QED
    BY <2>2, <2>3, <2>4
<1>12. searchVenues(p) = priced
  BY <1>1, <1>11, StrictFound
<1>13. searchVenues(free) = Strict(free)
  <2>1. free.text # {} => Strict(free) # {}
    BY <1>7, <1>10 DEF Strict, Relaxed
  <2> QED
    BY <2>1, StrictFound
<1> QED
  BY <1>12, <1>13 DEF p, free, prices, priced

\* Together, what every facet of a search promises.
LEMMA FacetsSound == RowsTyped => FacetsTell
<1> SUFFICES ASSUME RowsTyped PROVE FacetsTell
  OBVIOUS
<1>1. \A q \in Searches : IsSearch(q)
  BY SearchesAssumption DEF IsSearch
<1> QED
  BY <1>1, TicksTell, TypeTells, EventTells, AmenityTells, PricesTell DEF FacetsTell

--------------------------------------------------------------------------------
(* What a date search promises *)

\* A day's slots by the rule of the search and by the rule of the claim.
LEMMA SlotFree ==
  ASSUME NEW taken, NEW slot, slot # None
  PROVE  (~ CASE slot = None -> "FULL_DAY" \in taken \/ {"MORNING", "EVENING"} \subseteq taken
              [] slot = "FULL_DAY" -> taken # {}
              [] OTHER -> taken \cap {slot, "FULL_DAY"} # {})
         <=> /\ ~ (taken # {} /\ ("FULL_DAY" \in taken \/ slot = "FULL_DAY"))
             /\ slot \notin taken
<1>1. CASE slot = "FULL_DAY"
  BY <1>1
<1>2. CASE slot # "FULL_DAY"
  BY <1>2
<1> QED
  BY <1>1, <1>2

\* A hall found for a slot can be had for it, and one hidden cannot.
LEMMA HallBySlot ==
  ASSUME NEW f \in Halls, NEW stay, stay.slot # None
  PROVE  availableSQL(f, stay) <=> HallClaimable(f, DaysOf(stay), stay.slot)
<1>1. f \notin Hotels
  BY RowsAssumption
<1> QED
  BY <1>1, SlotFree DEF availableSQL, HallClaimable

\* A hall that can be had for one slot on all the days is found for them.
LEMMA HallByDays ==
  ASSUME NEW f \in Halls, NEW stay, stay.slot = None,
         NEW slot \in Slots, HallClaimable(f, DaysOf(stay), slot)
  PROVE  availableSQL(f, stay)
<1>1. f \notin Hotels
  BY RowsAssumption
<1>2. \A day \in DaysOf(stay) :
        LET taken == SlotsTaken(f, day)
        IN ~ ("FULL_DAY" \in taken \/ {"MORNING", "EVENING"} \subseteq taken)
  BY SlotsAssumption DEF HallClaimable
<1> QED
  BY <1>1, <1>2, NoneAssumption, SlotsAssumption DEF availableSQL

\* A hall found for a day can be had for one of its slots, and one hidden for none.
LEMMA HallByDay ==
  ASSUME NEW f \in Halls, NEW stay, stay.slot = None,
         stay.first \in Int, stay.first = stay.last
  PROVE  availableSQL(f, stay) <=> \E slot \in Slots : HallClaimable(f, DaysOf(stay), slot)
<1> DEFINE taken == SlotsTaken(f, stay.first)
<1>1. f \notin Hotels
  BY RowsAssumption
<1>2. DaysOf(stay) = {stay.first}
  BY DEF DaysOf
<1>3. availableSQL(f, stay) <=>
        ~ ("FULL_DAY" \in taken \/ {"MORNING", "EVENING"} \subseteq taken)
  BY <1>1, <1>2, NoneAssumption, SlotsAssumption DEF availableSQL
<1>4. \A slot : HallClaimable(f, DaysOf(stay), slot) <=>
                  /\ ~ (taken # {} /\ ("FULL_DAY" \in taken \/ slot = "FULL_DAY"))
                  /\ slot \notin taken
  BY <1>2 DEF HallClaimable
<1> HIDE DEF taken
<1>5. ASSUME "FULL_DAY" \notin taken, ~ ({"MORNING", "EVENING"} \subseteq taken)
      PROVE  \E slot \in Slots : HallClaimable(f, DaysOf(stay), slot)
  <2>1. CASE "MORNING" \notin taken
    BY <1>4, <1>5, <2>1, SlotsAssumption
  <2>2. CASE "EVENING" \notin taken
    BY <1>4, <1>5, <2>2, SlotsAssumption
  <2> QED
    BY <1>5, <2>1, <2>2
<1>6. ASSUME NEW slot \in Slots, HallClaimable(f, DaysOf(stay), slot)
      PROVE  "FULL_DAY" \notin taken /\ ~ ({"MORNING", "EVENING"} \subseteq taken)
  BY <1>4, <1>6, SlotsAssumption
<1> QED
  BY <1>3, <1>5, <1>6

\* The rooms taken on a night are counted.
LEMMA TakenType ==
  ASSUME RowsTyped, IsFiniteSet(booked), NEW r \in RoomTypes, NEW night
  PROVE  RoomsTaken(r, night) \in Nat
<1> DEFINE S == Takers(r, night)
           w == [x \in S |-> x.rooms[r]]
<1>1. IsFiniteSet(S) /\ S \subseteq booked
  BY FS_Subset DEF Takers
<1>2. \A x \in S : x.rooms[r] \in Nat
  BY <1>1 DEF RowsTyped, BookingRow
<1>3. RoomsTaken(r, night) = SumFunction(w)
  BY DEF RoomsTaken, Takers
<1> QED
  BY <1>1, <1>2, <1>3, SumFunctionType

\* A stay has a first night.
LEMMA SomeNight ==
  ASSUME NEW stay, stay.first \in Int, stay.last \in Int
  PROVE  /\ IsFiniteSet(NightsOf(stay)) /\ NightsOf(stay) # {}
         /\ NightsOf(stay) \subseteq Int
<1> DEFINE S == {stay.last, stay.first + 1}
<1>1. S \in SUBSET Int /\ IsFiniteSet(S) /\ S # {}
  BY FS_EmptySet, FS_AddElement, IsFiniteSet({stay.last}), FS_Singleton
<1>2. Max(S) \in Int /\ Max(S) >= stay.first + 1
  <2>1. \E x \in S : \A y \in S : x >= y
    BY <1>1, Bounds
  <2>2. Max(S) \in S /\ \A y \in S : Max(S) >= y
    BY <2>1 DEF Max
  <2> QED
    BY <1>1, <2>2
<1>3. NightsOf(stay) = stay.first..(Max(S) - 1)
  BY DEF NightsOf
<1> HIDE DEF S
<1>4. stay.first \in NightsOf(stay)
  BY <1>2, <1>3
<1> QED
  BY <1>2, <1>3, <1>4, FS_Interval

\* What is left of a room type on the worst of some nights: never less than
\* none, for no night is overbooked.
LEMMA LeftOver ==
  ASSUME VenuesInv, NEW r \in RoomTypes, child[r] # None,
         NEW nights, IsFiniteSet(nights), nights # {}, nights \subseteq Int
  PROVE  /\ RoomsLeft(r, nights) \in Nat
         /\ \A k \in Nat : k <= RoomsLeft(r, nights) <=>
              \A night \in nights : RoomsTaken(r, night) + k <= child[r].total
<1> DEFINE spare(night) == child[r].total - RoomsTaken(r, night)
           S == {spare(night) : night \in nights}
<1>1. child[r].total \in Nat
  BY r \in Children DEF VenuesInv, RowsTyped, ChildRow, Children
<1>2. \A night \in nights : RoomsTaken(r, night) \in Nat /\ spare(night) \in Nat
  BY <1>1, TakenType DEF VenuesInv, IdsLeft, NeverOverbooked
<1>3. IsFiniteSet(S)
  <2>1. [night \in nights |-> spare(night)] \in Surjection(nights, S)
    BY DEF Surjection
  <2> QED
    BY <2>1, FS_Surjection
<1>4. S \in SUBSET Int /\ S # {}
  <2>1. PICK night \in nights : TRUE
    OBVIOUS
  <2>2. spare(night) \in S
    BY <2>1
  <2> QED
    BY <1>2, <2>2
<1>5. RoomsLeft(r, nights) = Min(S)
  BY DEF RoomsLeft
<1>6. Min(S) \in S /\ \A y \in S : Min(S) <= y
  <2> HIDE DEF S
  <2>1. \E x \in S : \A y \in S : x <= y
    BY <1>3, <1>4, Bounds
  <2> QED
    BY <2>1 DEF Min
<1>7. PICK worst \in nights : Min(S) = spare(worst)
  BY <1>6
<1> HIDE DEF S
<1>8. \A night \in nights : Min(S) <= spare(night)
  BY <1>6 DEF S
<1> QED
  BY <1>1, <1>2, <1>5, <1>7, <1>8

\* A hotel found for a stay has a choice of as many rooms that can be had, and
\* one hidden has none.
LEMMA HotelByStay ==
  ASSUME VenuesInv, NEW f \in Hotels, NEW stay,
         stay.first \in Int, stay.last \in Int, stay.rooms \in Nat,
         \E r \in RoomTypes : BookableChild(f, r)
  PROVE  LET lines == {rooms \in [RoomTypes -> 0..stay.rooms] :
                         /\ SumFunction(rooms) = stay.rooms
                         /\ \A r \in RoomTypes : rooms[r] > 0 => BookableChild(f, r)}
         IN availableSQL(f, stay) <=> \E rooms \in lines : RoomsClaimable(NightsOf(stay), rooms)
<1> DEFINE lines == {rooms \in [RoomTypes -> 0..stay.rooms] :
                       /\ SumFunction(rooms) = stay.rooms
                       /\ \A r \in RoomTypes : rooms[r] > 0 => BookableChild(f, r)}
           nights == NightsOf(stay)
           types == {r \in RoomTypes : At[r] = f /\ LiveChild(r)}
           left == [r \in types |-> RoomsLeft(r, nights)]
           rest == RoomTypes \ types
<1>1. /\ types # {} /\ types \in SUBSET RoomTypes
      /\ \A r \in RoomTypes : BookableChild(f, r) <=> r \in types
      /\ \A r \in types : child[r] # None
  BY DEF BookableChild, LiveChild
<1>2. IsFiniteSet(nights) /\ nights # {} /\ nights \subseteq Int
  BY SomeNight
<1>3. availableSQL(f, stay) <=> SumFunctionOnSet(left, types) >= stay.rooms
  BY <1>1 DEF availableSQL, SumFunction
<1> HIDE DEF nights, types
<1>4. \A r \in types :
        /\ left[r] \in Nat
        /\ \A k \in Nat : k <= left[r] <=>
             \A night \in nights : RoomsTaken(r, night) + k <= child[r].total
  BY <1>1, <1>2, LeftOver
<1>5. IsFiniteSet(RoomTypes) /\ IsFiniteSet(types)
  <2>1. RoomTypes \in SUBSET Children
    BY DEF Children
  <2> QED
    BY <1>1, <2>1, FS_Subset, RowsAssumption
<1> HIDE DEF left
\* A choice of rooms adds up over the live types alone.
<1>6. ASSUME NEW rooms \in [RoomTypes -> Nat], \A r \in rest : rooms[r] = 0
      PROVE  SumFunction(rooms) = SumFunctionOnSet(rooms, types)
  <2>1. rest \in SUBSET RoomTypes /\ RoomTypes \ rest = types
    BY <1>1
  <2>2. \A r \in RoomTypes : rooms[r] \in Int
    OBVIOUS
  <2> HIDE DEF rest
  <2>3. SumFunctionOnSet(rooms, RoomTypes) = SumFunctionOnSet(rooms, RoomTypes \ rest)
    BY <1>5, <1>6, <2>1, <2>2, SumNonZero
  <2> QED
    BY <2>1, <2>3 DEF SumFunction
<1>7. ASSUME stay.rooms <= SumFunctionOnSet(left, types)
      PROVE  \E rooms \in lines : RoomsClaimable(nights, rooms)
  <2>1. PICK w \in [types -> Nat] : /\ \A r \in types : w[r] <= left[r]
                                    /\ SumFunctionOnSet(w, types) = stay.rooms
    BY <1>4, <1>5, <1>7, SumDivides
  <2> DEFINE rooms == [r \in RoomTypes |-> IF r \in types THEN w[r] ELSE 0]
  <2>2. /\ rooms \in [RoomTypes -> Nat]
        /\ \A r \in rest : rooms[r] = 0
        /\ \A r \in types : rooms[r] = w[r]
        /\ \A r \in RoomTypes : rooms[r] > 0 => r \in types
    BY <1>1
  <2> HIDE DEF rooms
  <2>3. SumFunctionOnSet(rooms, types) = stay.rooms
    <3>1. SumFunctionOnSet(rooms, types) = SumFunctionOnSet(w, types)
      BY <1>5, <2>2, SumAgree
    <3> QED
      BY <2>1, <3>1
  <2>4. SumFunction(rooms) = stay.rooms
    BY <1>6, <2>2, <2>3
  <2>5. ASSUME NEW r \in RoomTypes PROVE rooms[r] \in 0..stay.rooms
    <3>1. CASE r \in types
      <4>1. \A x \in types : rooms[x] \in Nat /\ rooms[x] \in Int
        BY <1>1, <2>2
      <4>2. SumFunctionOnSet(rooms, types) = rooms[r] + SumFunctionOnSet(rooms, types \ {r})
        BY <1>5, <3>1, <4>1, SumRemove, types \in SUBSET types
      <4>3. IsFiniteSet(types \ {r})
        BY <1>5, FS_Subset, types \ {r} \in SUBSET types
      <4>4. SumFunctionOnSet(rooms, types \ {r}) \in Nat
        BY <4>1, <4>3, SumNonNegative
      <4> QED
        BY <2>3, <3>1, <4>1, <4>2, <4>4
    <3>2. CASE r \notin types
      BY <2>2, <3>2
    <3> QED
      BY <3>1, <3>2
  <2>6. rooms \in [RoomTypes -> 0..stay.rooms]
    BY <2>2, <2>5
  <2>7. rooms \in lines
    BY <1>1, <2>2, <2>4, <2>6
  <2>8. RoomsClaimable(nights, rooms)
    BY <1>1, <1>4, <2>1, <2>2 DEF RoomsClaimable
  <2> QED
    BY <2>7, <2>8
<1>8. ASSUME NEW rooms \in lines, RoomsClaimable(nights, rooms)
      PROVE  stay.rooms <= SumFunctionOnSet(left, types)
  <2>1. /\ rooms \in [RoomTypes -> Nat] /\ SumFunction(rooms) = stay.rooms
        /\ \A r \in RoomTypes : rooms[r] > 0 => r \in types
    BY <1>1
  <2>2. \A r \in rest : rooms[r] = 0
    BY <2>1
  <2>3. \A r \in types : rooms[r] \in Int /\ left[r] \in Int /\ rooms[r] <= left[r]
    <3> SUFFICES ASSUME NEW r \in types PROVE rooms[r] \in Int /\ left[r] \in Int /\ rooms[r] <= left[r]
      OBVIOUS
    <3>1. r \in RoomTypes /\ rooms[r] \in Nat /\ left[r] \in Nat
      BY <1>1, <1>4, <2>1
    <3>2. CASE rooms[r] = 0
      BY <3>1, <3>2
    <3>3. CASE rooms[r] > 0
      BY <1>4, <1>8, <3>1, <3>3 DEF RoomsClaimable
    <3> QED
      BY <3>1, <3>2, <3>3
  <2>4. SumFunctionOnSet(rooms, types) <= SumFunctionOnSet(left, types)
    BY <1>5, <2>3, SumMonotone
  <2> QED
    BY <1>6, <2>1, <2>2, <2>4
<1>9. SumFunctionOnSet(left, types) \in Nat
  BY <1>4, <1>5, SumNonNegative
<1> HIDE DEF lines
<1>10. availableSQL(f, stay) <=> \E rooms \in lines : RoomsClaimable(nights, rooms)
  BY <1>3, <1>7, <1>8, <1>9
<1> QED
  BY <1>10 DEF lines, nights

\* A venue found for an event takes a booking for it.
LEMMA HostsFound ==
  ASSUME NEW q, q.event # None, NEW f \in searchVenues(q) \cup GetRecommendations(q.type, q.event)
  PROVE  HostsEvent(f, q.event)
BY FoundLive DEF where, eventFilter, GetRecommendations, HostsEvent

\* Together, that the date search and the claims agree.
LEMMA BookableSound == VenuesInv => FoundIsBookable
BY HostsFound, HallBySlot, HallByDays, HallByDay, HotelByStay, SearchesAssumption DEF FoundIsBookable

--------------------------------------------------------------------------------
(* Amounts *)

\* The nearest whole number of hundredths.
LEMMA RoundBounds ==
  ASSUME NEW n \in Int
  PROVE  Round(n) \in Int /\ 100 * Round(n) <= n + 50 /\ n + 50 < 100 * Round(n) + 100
BY DEF Round

\* A share of an amount is no more than the amount, and grows with it.
LEMMA ShareBounds ==
  ASSUME NEW p \in Nat, NEW x \in Nat, x <= p, NEW k \in 0..100
  PROVE  /\ p * k \in Nat /\ p * k <= 100 * p
         /\ x * k <= p * k /\ p * k - x * k <= 100 * (p - x)
<1>1. \A a, b \in Nat : a * b \in Nat
  OBVIOUS
<1>2. p * (100 - k) \in Nat /\ (p - x) * k \in Nat /\ (p - x) * (100 - k) \in Nat
  BY <1>1
<1>3. p * (100 - k) = 100 * p - p * k
  OBVIOUS
<1>4. (p - x) * k = p * k - x * k /\ (p - x) * (100 - k) = 100 * (p - x) - (p * k - x * k)
  OBVIOUS
<1>5. p * k \in Nat /\ x * k \in Nat
  BY <1>1
<1> QED
  BY <1>2, <1>3, <1>4, <1>5

Discounts == (1..100) \cup {None}

\* A day's rate is between nothing and the listed price, and of two prices under
\* one discount the lower has the lower rate.
LEMMA RateBounds ==
  ASSUME NEW p \in Nat, NEW x \in Nat, x <= p, NEW percent \in Discounts
  PROVE  DayRate(p, percent) \in 0..p /\ DayRate(x, percent) <= DayRate(p, percent)
<1>1. CASE percent = None
  BY <1>1 DEF DayRate
<1>2. CASE percent # None
  <2> DEFINE k == 100 - percent
  <2>1. k \in 0..100
    BY <1>2 DEF Discounts
  <2> HIDE DEF k
  <2>2. p * k \in Nat /\ p * k <= 100 * p /\ x * k <= p * k /\ x * k \in Nat
    BY <2>1, ShareBounds
  <2>3. DayRate(p, percent) = Round(p * k) /\ DayRate(x, percent) = Round(x * k)
    BY <1>2 DEF DayRate, k
  <2>4. /\ Round(p * k) \in Int /\ 100 * Round(p * k) <= p * k + 50
        /\ p * k + 50 < 100 * Round(p * k) + 100
        /\ Round(x * k) \in Int /\ 100 * Round(x * k) <= x * k + 50
    <3>1. p * k \in Int /\ x * k \in Int
      BY <2>2
    <3> QED
      BY <3>1, RoundBounds, Zenon
  <2> QED
    BY <2>2, <2>3, <2>4
<1> QED
  BY <1>1, <1>2

\* A coupon takes off no more than the amount, and on a lower amount less, but
\* for the difference of the two and a unit of rounding.
LEMMA CouponBounds ==
  ASSUME NEW c \in Platform, NEW p \in Nat, NEW x \in Nat, x <= p
  PROVE  /\ calcDiscount(c, p) \in 0..p
         /\ calcDiscount(c, p) - calcDiscount(c, x) <= p - x + 1
<1> USE DEF Lesser
<1>1. /\ c.kind \in {"PERCENT", "FLAT"} /\ c.value \in Nat /\ c.max \in Nat \cup {None}
      /\ c.kind = "PERCENT" => c.value <= 100
  BY PlatformAssumption
<1>2. CASE c.kind = "FLAT"
  BY <1>1, <1>2 DEF calcDiscount
<1>3. CASE c.kind = "PERCENT"
  <2> DEFINE of(y) == y * c.value
             off(y) == Lesser(IF c.max = None THEN Round(of(y)) ELSE Lesser(Round(of(y)), c.max), y)
  <2>1. of(p) \in Nat /\ of(x) \in Nat /\ of(p) - of(x) <= 100 * (p - x) /\ of(x) <= of(p)
    BY <1>1, <1>3, ShareBounds
  <2>2. calcDiscount(c, p) = off(p) /\ calcDiscount(c, x) = off(x)
    BY <1>3 DEF calcDiscount
  <2> HIDE DEF of
  <2>3. /\ Round(of(p)) \in Int /\ 100 * Round(of(p)) <= of(p) + 50
        /\ of(p) + 50 < 100 * Round(of(p)) + 100
        /\ Round(of(x)) \in Int /\ 100 * Round(of(x)) <= of(x) + 50
        /\ of(x) + 50 < 100 * Round(of(x)) + 100
    <3>1. of(p) \in Int /\ of(x) \in Int
      BY <2>1
    <3> QED
      BY <3>1, RoundBounds, Zenon
  <2>4. /\ Round(of(p)) \in Nat /\ Round(of(x)) \in Nat
        /\ Round(of(p)) - Round(of(x)) <= p - x + 1
        /\ Round(of(x)) <= Round(of(p))
    BY <2>1, <2>3
  <2>5. CASE c.max = None
    BY <2>2, <2>4, <2>5
  <2>6. CASE c.max # None
    <3>1. c.max \in Nat
      BY <1>1, <2>6
    <3> QED
      BY <2>2, <2>4, <2>6, <3>1
  <2> QED
    BY <2>5, <2>6
<1> QED
  BY <1>1, <1>2, <1>3

--------------------------------------------------------------------------------
(* What a card says and what checkout charges *)

\* The rows of a live venue and of its live children.
LEMMA LiveRow ==
  ASSUME RowsTyped, NEW f \in Venue, LiveSQL(f)
  PROVE  /\ venue[f].price \in Nat \cup {None}
         /\ DiscountPercent(f) \in Discounts /\ ActiveDiscountSQL(f) = DiscountPercent(f)
BY DEF RowsTyped, IsRow, LiveSQL, Exists, DiscountPercent, ActiveDiscountSQL, Discounts

\* A live room type, package or add-on has a price.
LEMMA ChildPrice ==
  ASSUME RowsTyped, NEW c \in Children, LiveChild(c)
  PROVE  child[c].price \in Nat
BY DEF RowsTyped, LiveChild, ChildRow

\* The cheapest room of a hotel is the cheapest after its discount too.
LEMMA CheapestRoom ==
  ASSUME RowsTyped, NEW f \in Hotels, LiveSQL(f), StartingPrice(f) # None
  PROVE  /\ StartingPrice(f) \in Nat
         /\ LeastCharge(f) = DayRate(StartingPrice(f), DiscountPercent(f))
<1> DEFINE types == {r \in RoomTypes : At[r] = f /\ LiveChild(r)}
           prices == {child[r].price : r \in types}
           charges == {NightCharge(r) : r \in types}
           percent == DiscountPercent(f)
<1>1. f \notin Halls /\ f \in Venue
  BY RowsAssumption DEF Venue
<1>2. percent \in Discounts /\ ActiveDiscountSQL(f) = percent
  BY <1>1, LiveRow
<1>3. \A r \in types : child[r].price \in Nat /\ NightCharge(r) = DayRate(child[r].price, percent)
  BY <1>2, ChildPrice DEF NightCharge, Children
<1>4. prices # {} /\ StartingPrice(f) = Min(prices)
  BY <1>1 DEF StartingPrice
<1>5. LeastCharge(f) = Min(charges)
  <2>1. {r \in RoomTypes : BookableChild(f, r)} = types
    BY DEF BookableChild
  <2> QED
    BY <1>1, <2>1 DEF LeastCharge
<1>6. IsFiniteSet(prices)
  <2>1. types \in SUBSET Children
    BY DEF Children
  <2>2. IsFiniteSet(types)
    BY <2>1, FS_Subset, RowsAssumption
  <2>3. [r \in types |-> child[r].price] \in Surjection(types, prices)
    BY DEF Surjection
  <2> QED
    BY <2>2, <2>3, FS_Surjection
<1>7. prices \in SUBSET Int
  BY <1>3
<1>8. Min(prices) \in prices /\ \A y \in prices : Min(prices) <= y
  <2> HIDE DEF prices
  <2>1. \E x \in prices : \A y \in prices : x <= y
    BY <1>4, <1>6, <1>7, Bounds
  <2> QED
    BY <2>1 DEF Min
<1>9. PICK cheapest \in types : Min(prices) = child[cheapest].price
  BY <1>8
<1>10. \A r \in types : Min(prices) <= child[r].price
  BY <1>8
<1> DEFINE least == Min(prices)
<1> HIDE DEF types, prices, percent
<1>11. least \in Nat
  BY <1>3, <1>9
<1> HIDE DEF least
<1>12. DayRate(least, percent) \in charges
  BY <1>3, <1>9 DEF least
<1>13. ASSUME NEW r \in types PROVE DayRate(least, percent) <= NightCharge(r)
  <2>1. child[r].price \in Nat /\ least <= child[r].price
    BY <1>3, <1>10 DEF least
  <2>2. DayRate(least, percent) <= DayRate(child[r].price, percent)
    BY <1>2, <1>11, <2>1, RateBounds
  <2> QED
    BY <1>3, <2>2
<1>14. \A y \in charges : y \in Int /\ DayRate(least, percent) <= y
  <2>1. \A r \in types : NightCharge(r) \in Int
    BY <1>2, <1>3, RateBounds
  <2> QED
    BY <1>13, <2>1
<1> HIDE DEF charges
<1>15. Min(charges) = DayRate(least, percent)
  BY <1>12, <1>14 DEF Min
<1> QED
  BY <1>4, <1>5, <1>11, <1>15 DEF least, percent

\* What is charged is the starting price, less the venue's discount.
LEMMA CardPrice ==
  ASSUME RowsTyped, NEW f \in Venue, LiveSQL(f), StartingPrice(f) # None
  PROVE  /\ StartingPrice(f) \in Nat
         /\ LeastCharge(f) = DayRate(StartingPrice(f), DiscountPercent(f))
         /\ LeastCharge(f) = IF applyDiscount(f) = None THEN StartingPrice(f) ELSE applyDiscount(f)
         /\ comparePrice(f) = StartingPrice(f)
<1>1. f \in Halls \/ f \in Hotels
  BY DEF Venue
<1>2. /\ StartingPrice(f) \in Nat
      /\ LeastCharge(f) = DayRate(StartingPrice(f), DiscountPercent(f))
  <2>1. CASE f \in Halls
    BY <2>1, LiveRow DEF StartingPrice, LeastCharge, HallCharge
  <2>2. CASE f \in Hotels
    BY <2>2, CheapestRoom
  <2> QED
    BY <1>1, <2>1, <2>2
<1>3. comparePrice(f) = StartingPrice(f)
  BY <1>1, RowsAssumption DEF comparePrice, StartingPrice
<1>4. DayRate(StartingPrice(f), DiscountPercent(f))
        = IF applyDiscount(f) = None THEN StartingPrice(f) ELSE applyDiscount(f)
  <2>1. CASE DiscountPercent(f) = None
    BY <2>1 DEF DayRate, applyDiscount
  <2>2. CASE DiscountPercent(f) # None
    <3>1. /\ applyDiscount(f) = Round(StartingPrice(f) * (100 - DiscountPercent(f)))
          /\ DayRate(StartingPrice(f), DiscountPercent(f)) = applyDiscount(f)
      BY <2>2 DEF DayRate, applyDiscount
    <3>2. DayRate(StartingPrice(f), DiscountPercent(f)) \in Nat
      BY <1>2, LiveRow, RateBounds
    <3> QED
      BY <3>1, <3>2, NoneAssumption
  <2> QED
    BY <2>1, <2>2
<1> QED
  BY <1>2, <1>3, <1>4

\* A venue's own discount and the rate it leaves make the price, to a unit.
LEMMA OwnDiscount ==
  ASSUME NEW p \in Nat, NEW percent \in 1..100
  PROVE  /\ Round(p * percent) \in Nat
         /\ Round(p * (100 - percent)) <= p - Round(p * percent) + 1
<1> DEFINE a == p * percent
           b == p * (100 - percent)
<1>1. a \in Nat /\ b = 100 * p - a
  <2>1. a \in Nat
    BY ShareBounds
  <2>2. b = 100 * p - a
    OBVIOUS
  <2> QED
    BY <2>1, <2>2
<1> HIDE DEF a, b
<1>2. a \in Int /\ b \in Int
  BY <1>1
<1>3. /\ Round(a) \in Int /\ 100 * Round(a) <= a + 50 /\ a + 50 < 100 * Round(a) + 100
      /\ Round(b) \in Int /\ 100 * Round(b) <= b + 50
  BY <1>2, RoundBounds, Zenon
<1>4. Round(a) \in Nat /\ Round(b) <= p - Round(a) + 1
  BY <1>1, <1>3
<1> QED
  BY <1>4 DEF a, b

\* A coupon alone takes off its amount, or is refused.
LEMMA OneCoupon ==
  ASSUME NEW c \in Platform, NEW f, NEW price \in Nat
  PROVE  /\ calcDiscount(c, price) \in 0..price
         /\ PriceCoupons({c}, f, price) =
              IF Check(c, f, price) THEN calcDiscount(c, price) ELSE None
<1> DEFINE off == [d \in {c} |-> calcDiscount(d, price)]
<1>1. Cardinality({c}) = 1 /\ IsFiniteSet({c})
  BY FS_Singleton
<1>2. DOMAIN off = {c} /\ off[c] = calcDiscount(c, price)
  OBVIOUS
<1>3. calcDiscount(c, price) \in 0..price
  BY CouponBounds
<1>4. PriceCoupons({c}, f, price) = IF Check(c, f, price) THEN SumFunction(off) ELSE None
  <2>1. {c} # {} /\ ((\A d \in {c} : Check(d, f, price)) <=> Check(c, f, price))
    OBVIOUS
  <2> QED
    BY <1>1, <2>1, Zenon DEF PriceCoupons
<1> HIDE DEF off
<1>5. SumFunction(off) = SumFunctionOnSet(off, {c})
  BY <1>2 DEF SumFunction
<1>6. SumFunctionOnSet(off, {c}) = off[c] + SumFunctionOnSet(off, {c} \ {c})
  <2>1. \A d \in {c} : off[d] \in Int
    BY <1>2, <1>3
  <2> QED
    BY <1>1, <2>1, SumRemove
<1>7. SumFunctionOnSet(off, {c} \ {c}) = 0
  <2>1. {c} \ {c} = {}
    OBVIOUS
  <2> QED
    BY <2>1, SumEmpty
<1> QED
  BY <1>2, <1>3, <1>4, <1>5, <1>6, <1>7

\* The one coupon a form may carry takes off no more than there is.
LEMMA CouponPriced ==
  ASSUME NEW coupons \in SUBSET Platform, NEW f, NEW price \in Nat,
         PriceCoupons(coupons, f, price) # None
  PROVE  PriceCoupons(coupons, f, price) \in 0..price
<1>1. CASE coupons = {}
  BY <1>1 DEF PriceCoupons
<1>2. CASE coupons # {}
  <2>1. Cardinality(coupons) = 1
    BY <1>2 DEF PriceCoupons
  <2>2. IsFiniteSet(coupons)
    BY FS_Subset, FormsAssumption
  <2>3. PICK only : coupons = {only}
    BY <2>1, <2>2, FS_Singleton
  <2>4. only \in Platform
    BY <2>3
  <2> QED
    BY <2>3, <2>4, OneCoupon
<1> QED
  BY <1>1, <1>2

\* The coupon a card advertises is worth at checkout what the card says, to a
\* unit, or is refused for its minimum, which the venue's offer takes the price
\* under.
LEMMA CardCoupon ==
  ASSUME RowsTyped, NEW f \in Venue, LiveSQL(f), StartingPrice(f) # None,
         NEW c \in bestCoupons(f)
  PROVE  LET off == PriceCoupons({c}, f, LeastCharge(f))
         IN /\ off = None => DiscountPercent(f) # None /\ c.min # None /\ LeastCharge(f) < c.min
            /\ off # None => LeastCharge(f) - off <= StartingPrice(f) - PopulateDiscounts(f).off + 1
<1> DEFINE p == StartingPrice(f)
           percent == DiscountPercent(f)
           x == LeastCharge(f)
           k == calcDiscount(c, p)
           own == IF percent = None THEN 0 ELSE Round(p * percent)
<1>1. p \in Nat /\ x = DayRate(p, percent) /\ percent \in Discounts
  BY CardPrice, LiveRow
<1>2. c \in Platform /\ (c.min # None => p >= c.min) /\ \A d \in bestCoupons(f) : d \in Platform
  BY DEF bestCoupons
<1>3. \A d \in bestCoupons(f) : calcDiscount(d, p) = k
  <2>1. \A d \in Platform : calcDiscount(d, p) \in Int
    BY <1>1, CouponBounds
  <2>2. ASSUME NEW d \in bestCoupons(f) PROVE calcDiscount(d, p) >= k /\ k >= calcDiscount(d, p)
    BY DEF bestCoupons
  <2> QED
    BY <1>2, <2>1, <2>2
<1>4. own \in Nat
  BY <1>1, OwnDiscount DEF Discounts
<1>5. k \in Nat /\ x \in 0..p
  BY <1>1, <1>2, CouponBounds, RateBounds
<1>6. PopulateDiscounts(f).off = Max({own, k})
  <2>1. {calcDiscount(d, p) : d \in bestCoupons(f)} = {k}
    BY <1>3
  <2> HIDE DEF own, k
  <2>2. {own} \cup {k} = {own, k}
    OBVIOUS
  <2> QED
    BY <2>1, <2>2 DEF PopulateDiscounts, own
<1> HIDE DEF p, percent, x, k, own
<1>7. Max({own, k}) = IF own >= k THEN own ELSE k
  BY <1>4, <1>5 DEF Max
<1> DEFINE j == calcDiscount(c, x)
           off == PriceCoupons({c}, f, x)
<1>8. j \in 0..x /\ off = IF Check(c, f, x) THEN j ELSE None
  BY <1>2, <1>5, OneCoupon
<1>9. c.min \in Nat \cup {None} /\ (Check(c, f, x) <=> (c.min # None => x >= c.min))
  BY <1>2, PlatformAssumption DEF bestCoupons, Check
<1>10. percent = None => x = p /\ own = 0 /\ j = k
  BY <1>1 DEF DayRate, own, k
<1>11. k - j <= p - x + 1
  BY <1>1, <1>2, <1>5, CouponBounds DEF k
<1>12. percent # None => x <= p - own + 1
  BY <1>1, OwnDiscount DEF DayRate, own, Discounts
<1> HIDE DEF j, off
<1>13. off = None => percent # None /\ c.min # None /\ x < c.min
  <2> SUFFICES ASSUME off = None PROVE percent # None /\ c.min # None /\ x < c.min
    OBVIOUS
  <2>1. c.min # None /\ ~(x >= c.min) /\ c.min \in Nat
    BY <1>5, <1>8, <1>9, NoneAssumption
  <2>2. x < c.min
    BY <1>5, <2>1
  <2>3. p >= c.min
    BY <1>2, <2>1 DEF p
  <2> QED
    BY <1>1, <1>5, <1>10, <2>1, <2>2, <2>3
<1>14. off # None => x - off <= p - Max({own, k}) + 1
  <2> SUFFICES ASSUME off # None PROVE x - off <= p - Max({own, k}) + 1
    OBVIOUS
  <2>1. off = j
    BY <1>8
  <2>2. CASE percent = None
    BY <1>1, <1>4, <1>5, <1>7, <1>8, <1>10, <2>1, <2>2
  <2>3. CASE percent # None
    BY <1>1, <1>4, <1>5, <1>7, <1>8, <1>11, <1>12, <2>1, <2>3
  <2> QED
    BY <2>2, <2>3
<1> QED
  BY <1>6, <1>13, <1>14 DEF p, x, off, percent

\* Together, that a card says what checkout charges.
LEMMA CardSound == RowsTyped => CardIsCharged
<1> SUFFICES ASSUME RowsTyped, NEW f \in Venue, LiveSQL(f), StartingPrice(f) # None
             PROVE  LET card   == ToVenueResponse(f)
                        charge == LeastCharge(f)
                    IN /\ charge = IF card.discountedPrice = None THEN card.startingPrice
                                   ELSE card.discountedPrice
                       /\ toCompareVenue(f).startingPrice = comparePrice(f)
                       /\ comparePrice(f) = card.startingPrice
                       /\ \A c \in card.coupons :
                            LET off == PriceCoupons({c}, f, charge)
                            IN /\ off = None => /\ DiscountPercent(f) # None
                                               /\ c.min # None /\ charge < c.min
                               /\ off # None => charge - off <= card.couponPrice + 1
                       /\ listChildren(f) = {c \in Children : BookableChild(f, c)}
  BY DEF CardIsCharged
<1>1. /\ ToVenueResponse(f).startingPrice = StartingPrice(f)
      /\ ToVenueResponse(f).discountedPrice = applyDiscount(f)
      /\ ToVenueResponse(f).coupons = bestCoupons(f)
      /\ ToVenueResponse(f).couponPrice = StartingPrice(f) - PopulateDiscounts(f).off
      /\ toCompareVenue(f).startingPrice = StartingPrice(f)
  BY DEF ToVenueResponse, PopulateDiscounts, toCompareVenue
<1>2. listChildren(f) = {c \in Children : BookableChild(f, c)}
  BY DEF listChildren, BookableChild, LiveChild
<1> QED
  BY <1>1, <1>2, CardPrice, CardCoupon

\* A morning starts before noon and ends by 12:59, an evening starts at noon, and
\* neither runs past midnight; what starts before noon and ends after it is a
\* morning up to 12:59, and a whole day from 13:00.
LEMMA HoursOfSlot ==
  ASSUME NEW s \in Minutes, NEW t \in Minutes
  PROVE  /\ s \in Int /\ t \in Int /\ s <= 1439
         /\ slotFor(s, t) = "MORNING" => s < 720 /\ s < t /\ t <= 779
         /\ slotFor(s, t) = "EVENING" => 720 <= s /\ s < t
         /\ s < 720 /\ 720 < t => slotFor(s, t) = IF t < 780 THEN "MORNING" ELSE "FULL_DAY"
<1>1. s \in Int /\ t \in Int /\ s # None /\ t # None
  BY NoneAssumption DEF Minutes
<1>2. slotFor(s, t) = IF Hour(t) <= Hour(s) THEN "FULL_DAY"
                      ELSE IF Hour(t) <= 12 THEN "MORNING"
                      ELSE IF Hour(s) >= 12 THEN "EVENING" ELSE "FULL_DAY"
  BY <1>1 DEF slotFor
<1>3. /\ Hour(s) \in Int /\ 60 * Hour(s) <= s /\ s < 60 * Hour(s) + 60
      /\ Hour(t) \in Int /\ 60 * Hour(t) <= t /\ t < 60 * Hour(t) + 60
  BY <1>1 DEF Hour
<1>4. s <= 1439
  BY DEF Minutes
<1>5. CASE Hour(t) <= Hour(s)
  <2>1. slotFor(s, t) = "FULL_DAY"
    BY <1>2, <1>5
  <2>2. ~ (s < 720 /\ 720 < t /\ t < 780)
    BY <1>3, <1>5, <1>1
  <2> QED
    BY <1>1, <1>4, <2>1, <2>2
<1>6. CASE ~(Hour(t) <= Hour(s)) /\ Hour(t) <= 12
  <2>1. slotFor(s, t) = "MORNING"
    BY <1>2, <1>6
  <2>2. s < 720 /\ s < t /\ t <= 779
    BY <1>1, <1>3, <1>6
  <2> QED
    BY <1>1, <1>4, <2>1, <2>2
<1>7. CASE ~(Hour(t) <= Hour(s)) /\ ~(Hour(t) <= 12)
  <2>1. slotFor(s, t) = IF Hour(s) >= 12 THEN "EVENING" ELSE "FULL_DAY"
    BY <1>2, <1>7
  <2>2. s < t /\ t >= 780 /\ (Hour(s) >= 12 <=> 720 <= s)
    BY <1>1, <1>3, <1>7
  <2> QED
    BY <1>1, <1>4, <2>1, <2>2
<1> QED
  BY <1>5, <1>6, <1>7

\* The slot a form leaves to its hours is the one they give.
LEMMA SlotOfHours ==
  ASSUME NEW form \in Timed
  PROVE  /\ form.start \in Minutes /\ form.end \in Minutes
         /\ SlotOf(form) = slotFor(form.start, form.end)
<1>1. form \in Forms /\ form.slot = None /\ form.start # None /\ form.end # None
  BY DEF Timed
<1>2. form.start \in Minutes /\ form.end \in Minutes
  BY <1>1, FormsAssumption
<1> QED
  BY <1>1, <1>2 DEF SlotOf

\* The hours of two events that one hall may hold on a day overlap at most in
\* the hour after noon, and there when the morning ends after the evening began.
LEMMA HoursSound == HoursApart
<1>1. ASSUME NEW form \in Timed
      PROVE  /\ form.start \in Int /\ form.end \in Int
             /\ SlotOf(form) = "MORNING" =>
                  /\ form.start < 720 /\ form.start < form.end /\ form.end <= 779
                  /\ Span(form) = form.start .. (form.end - 1)
             /\ SlotOf(form) = "EVENING" =>
                  /\ 720 <= form.start /\ form.start < form.end
                  /\ Span(form) = form.start .. (form.end - 1)
             /\ form.start < 720 /\ 720 < form.end =>
                  SlotOf(form) = IF form.end < 780 THEN "MORNING" ELSE "FULL_DAY"
  <2> DEFINE s == form.start
             t == form.end
  <2>1. s \in Minutes /\ t \in Minutes /\ SlotOf(form) = slotFor(s, t)
    BY SlotOfHours
  <2>2. Span(form) = s .. (IF t <= s THEN 1439 ELSE t - 1)
    BY DEF Span
  <2> HIDE DEF s, t
  <2>3. /\ s \in Int /\ t \in Int
        /\ SlotOf(form) = "MORNING" => s < 720 /\ s < t /\ t <= 779
        /\ SlotOf(form) = "EVENING" => 720 <= s /\ s < t
        /\ s < 720 /\ 720 < t => SlotOf(form) = IF t < 780 THEN "MORNING" ELSE "FULL_DAY"
    BY <2>1, HoursOfSlot
  <2>4. s < t => Span(form) = s .. (t - 1)
    BY <2>2, <2>3
  <2> QED
    BY <2>3, <2>4 DEF s, t
<1>2. ASSUME NEW e \in Timed, NEW g \in Timed, SlotOf(e) = "MORNING", SlotOf(g) = "EVENING"
      PROVE  /\ Span(e) \cap Span(g) \subseteq 720..779
             /\ Span(e) \cap Span(g) # {} <=> g.start < e.end
  <2> DEFINE a == e.start
             b == e.end
             c == g.start
             d == g.end
  <2>1. /\ a \in Int /\ b \in Int /\ c \in Int /\ d \in Int
        /\ a < 720 /\ a < b /\ b <= 779 /\ 720 <= c /\ c < d
        /\ Span(e) = a .. (b - 1) /\ Span(g) = c .. (d - 1)
    BY <1>1, <1>2
  <2> HIDE DEF a, b, c, d
  <2>2. \A n \in Span(e) \cap Span(g) : n \in Int /\ 720 <= n /\ n <= 779 /\ c < b
    BY <2>1
  <2>3. c < b => c \in Span(e) \cap Span(g)
    BY <2>1
  <2> QED
    BY <2>2, <2>3 DEF b, c
<1> QED
  BY <1>1, <1>2 DEF HoursApart

--------------------------------------------------------------------------------
(* The forms *)

\* The packages of a form that is accepted cost something the rows say.
LEMMA PackagesPriced ==
  ASSUME RowsTyped, NEW packages \in SUBSET Extras, \A x \in packages : LiveChild(x)
  PROVE  PackagesSum(packages) \in Nat
<1>1. packages \in SUBSET Children
  BY DEF Children
<1>2. IsFiniteSet(packages)
  BY <1>1, FS_Subset, RowsAssumption
<1>3. \A x \in packages : child[x].price \in Nat
  BY <1>1, ChildPrice
<1> QED
  BY <1>2, <1>3, SumFunctionType DEF PackagesSum

\* A form names a slot, or its hours do.
LEMMA SlotNamed == ASSUME NEW form \in Forms PROVE SlotOf(form) \in Slots
<1>1. slotFor(form.start, form.end) \in {"MORNING", "EVENING", "FULL_DAY"}
  BY DEF slotFor
<1> QED
  BY <1>1, FormsAssumption, SlotsAssumption DEF SlotOf

\* The fee is added to any amount but nothing, and the tax on it is not negative.
LEMMA TaxesAdd ==
  ASSUME NEW price \in Nat
  PROVE  /\ serviceFee(price) \in Nat /\ taxes(price) \in Nat
         /\ price > 0 => serviceFee(price) > 0
         /\ price = 0 => serviceFee(price) = 0 /\ taxes(price) = 0
<1> DEFINE base == 18 * (100 * price + serviceFee(price))
<1>1. serviceFee(price) = 2 * price /\ serviceFee(price) \in Nat /\ base \in Nat
  BY DEF serviceFee
<1>2. price = 0 => base = 0
  BY DEF serviceFee
<1> HIDE DEF base
<1>3. Round(base) \in Int /\ 100 * Round(base) <= base + 50 /\ base + 50 < 100 * Round(base) + 100
  <2>1. base \in Int
    BY <1>1
  <2> QED
    BY <2>1, RoundBounds, Zenon
<1>4. Round(base) \in Nat /\ (price = 0 => Round(base) = 0)
  BY <1>1, <1>2, <1>3
<1> QED
  BY <1>1, <1>4 DEF taxes, base

\* The claim asks of every day that its own slot is free, as the preview does,
\* and that no other slot overlaps it.
LEMMA ClaimRule ==
  ASSUME NEW f, NEW days, NEW slot
  PROVE  HallClaimable(f, days, slot) <=>
           available(f, days, slot) /\ ~ \E day \in days : Overlapped(f, day, slot)
<1>1. ASSUME NEW day
      PROVE  LET taken == SlotsTaken(f, day)
             IN (~ (taken # {} /\ ("FULL_DAY" \in taken \/ slot = "FULL_DAY")) /\ slot \notin taken)
                  <=> slot \notin taken /\ ~ Overlapped(f, day, slot)
  BY DEF Overlapped
<1> QED
  BY <1>1 DEF HallClaimable, available

\* A whole number of days at a rate.
LEMMA DaysPriced ==
  ASSUME NEW days \in Nat, NEW rate \in Nat
  PROVE  rate * days \in Nat /\ days * rate = rate * days
OBVIOUS

\* The preview computes what the booking does, coupon and discount included.
LEMMA PreviewSound == RowsTyped => PreviewIsCharged
<1> SUFFICES ASSUME RowsTyped, NEW f \in Venue, NEW form \in Forms,
                    createVenue(f, form), CreateVenueBooking(f, form) # None
             PROVE  LET charge == CreateVenueBooking(f, form)
                        shown  == quote(f, form)
                    IN /\ shown # None
                       /\ shown.slot = charge.slot
                       /\ shown.hallPrice = charge.amount
                       /\ shown.discount = charge.discount
                       /\ shown.total >= 100 * charge.amount
                       /\ shown.total = 100 * charge.amount <=> charge.amount = 0
                       /\ HallClaimable(f, form.first..form.last, charge.slot) <=>
                            /\ shown.available
                            /\ ~ \E day \in form.first..form.last : Overlapped(f, day, charge.slot)
  BY DEF PreviewIsCharged
<1> DEFINE days  == form.last - form.first + 1
           base  == IF venue[f].price = None THEN 0 ELSE venue[f].price
           rate  == DayRate(base, ActiveDiscountSQL(f))
           extra == PackagesSum(form.packages)
           total == rate * days + extra
           off   == PriceCoupons(form.coupons, f, total)
           price == total - off
<1>1. /\ LiveSQL(f) /\ off # None
      /\ \A x \in form.packages : BookableChild(f, x)
      /\ CreateVenueBooking(f, form)
           = [slot |-> SlotOf(form), amount |-> price, discount |-> (base - rate) * days + off]
  BY Zenon DEF CreateVenueBooking
<1>2. form.first <= form.last /\ Cardinality(form.coupons) <= 2
  BY DEF createVenue
<1>3. form.first \in Int /\ form.last \in Int /\ form.coupons \subseteq Platform
      /\ form.packages \subseteq Extras
  BY FormsAssumption
<1>4. days \in Nat
  BY <1>2, <1>3
<1>5. base \in Nat /\ ActiveDiscountSQL(f) \in Discounts
  BY <1>1, LiveRow
<1>6. rate \in 0..base
  <2> HIDE DEF base
  <2> QED
    BY <1>5, RateBounds
<1>7. extra \in Nat
  BY <1>1, <1>3, PackagesPriced DEF BookableChild
<1>8. hallPrice(f, form) = total
  <2>1. CASE venue[f].price = None
    <3>1. rate = 0
      BY <1>6, <2>1
    <3>2. hallPrice(f, form) = 0 + extra
      BY <2>1 DEF hallPrice
    <3> HIDE DEF rate, days, extra
    <3> QED
      BY <1>4, <1>7, <3>1, <3>2
  <2>2. CASE venue[f].price # None
    <3>1. hallPrice(f, form) = days * rate + extra
      BY <2>2 DEF hallPrice
    <3> HIDE DEF rate, days, extra, base
    <3>2. days * rate = rate * days
      BY <1>4, <1>5, <1>6
    <3> QED
      BY <3>1, <3>2
  <2> QED
    BY <2>1, <2>2
<1>9. venueDiscount(f, form) = (base - rate) * days
  <2>1. CASE venue[f].price = None
    <3>1. rate = 0 /\ base = 0
      BY <1>6, <2>1
    <3>2. venueDiscount(f, form) = 0
      BY <2>1 DEF venueDiscount
    <3> HIDE DEF rate, days, base
    <3> QED
      BY <1>4, <3>1, <3>2
  <2>2. CASE venue[f].price # None
    <3>1. venueDiscount(f, form) = days * (base - rate)
      BY <2>2 DEF venueDiscount
    <3> HIDE DEF rate, days, base
    <3>2. days * (base - rate) = (base - rate) * days
      BY <1>4, <1>5, <1>6
    <3> QED
      BY <3>1, <3>2
  <2> QED
    BY <2>1, <2>2
<1>10. total \in Nat /\ (base - rate) * days \in Int
  <2> HIDE DEF rate, days, base, extra
  <2> QED
    BY <1>4, <1>5, <1>6, <1>7
<1> HIDE DEF days, base, rate, extra, total
<1>11. off \in 0..total
  BY <1>1, <1>3, <1>10, CouponPriced
<1> DEFINE shown ==
      [slot |-> SlotOf(form), hallPrice |-> price,
       discount |-> (base - rate) * days + off,
       total |-> 100 * price + serviceFee(price) + taxes(price),
       available |-> available(f, form.first..form.last, SlotOf(form))]
<1>12. quote(f, form) = shown
  BY <1>1, <1>2, <1>8, <1>9, Zenon DEF quote
<1> HIDE DEF off
<1>13. price \in Nat
  BY <1>10, <1>11
<1> HIDE DEF price
<1>14. /\ serviceFee(price) \in Nat /\ taxes(price) \in Nat
       /\ price > 0 => serviceFee(price) > 0
       /\ price = 0 => serviceFee(price) = 0 /\ taxes(price) = 0
  BY <1>13, TaxesAdd
<1>15. /\ 100 * price + serviceFee(price) + taxes(price) = 100 * price <=> price = 0
       /\ 100 * price + serviceFee(price) + taxes(price) \in Int
       /\ 100 * price + serviceFee(price) + taxes(price) >= 100 * price
       /\ (base - rate) * days + off \in Int
  BY <1>10, <1>11, <1>13, <1>14
<1>16. available(f, form.first..form.last, SlotOf(form)) \in BOOLEAN
  BY DEF available
<1>17. shown \in PreviewRow
  BY <1>13, <1>15, <1>16, SlotNamed DEF PreviewRow
<1>18. shown # None
  BY <1>17, FormsAssumption
<1>19. HallClaimable(f, form.first..form.last, SlotOf(form)) <=>
         /\ available(f, form.first..form.last, SlotOf(form))
         /\ ~ \E day \in form.first..form.last : Overlapped(f, day, SlotOf(form))
  BY ClaimRule
<1> QED
  BY <1>1, <1>12, <1>15, <1>18, <1>19

\* Three lists of amounts on the same lines: the third is the sum of two.
LEMMA LinesAddUp ==
  ASSUME NEW lines, IsFiniteSet(lines), NEW charged, NEW spared, NEW listed,
         DOMAIN charged = lines, DOMAIN spared = lines, DOMAIN listed = lines,
         \A r \in lines : /\ charged[r] \in Nat /\ spared[r] \in Nat
                          /\ listed[r] = charged[r] + spared[r]
  PROVE  /\ SumFunction(charged) \in Nat /\ SumFunction(spared) \in Nat
         /\ SumFunction(listed) = SumFunction(charged) + SumFunction(spared)
<1>1. SumFunctionOnSet(listed, lines)
        = SumFunctionOnSet(charged, lines) + SumFunctionOnSet(spared, lines)
  BY SumPlus
<1>2. SumFunction(charged) \in Nat /\ SumFunction(spared) \in Nat
  BY SumFunctionType
<1> QED
  BY <1>1, <1>2 DEF SumFunction

\* What a booking of rooms is charged and spared is the listed price.
LEMMA RoomsSound == RowsTyped => RoomsAddUp
<1> SUFFICES ASSUME RowsTyped, NEW f \in Hotels, NEW form \in RoomForms,
                    createHotel(form), CreateRoomsBooking(f, form) # None
             PROVE  LET charge == CreateRoomsBooking(f, form)
                    IN /\ charge.amount >= 0 /\ charge.discount >= 0
                       /\ charge.amount + charge.discount =
                            (form.last - form.first)
                              * SumFunction([i \in DOMAIN form.lines |->
                                  form.lines[i].quantity * child[form.lines[i].type].price])
  BY Zenon DEF RoomsAddUp, LinesSum
<1> DEFINE nights == form.last - form.first
           lines  == DOMAIN form.lines
           type(i) == form.lines[i].type
           charged == [i \in lines |-> form.lines[i].quantity * NightCharge(type(i))]
           spared == [i \in lines |-> form.lines[i].quantity
                                        * (child[type(i)].price - NightCharge(type(i)))]
           listed == [i \in lines |-> form.lines[i].quantity * child[type(i)].price]
           total  == nights * SumFunction(charged)
           off    == PriceCoupons(form.coupons, f, total)
<1>1. /\ nights \in 1..MaxNights /\ LiveSQL(f) /\ off # None
      /\ \A i \in lines : form.lines[i].quantity > 0 /\ BookableChild(f, type(i))
      /\ CreateRoomsBooking(f, form)
           = [amount |-> total - off, discount |-> nights * SumFunction(spared) + off]
  BY Zenon DEF CreateRoomsBooking, LinesSum
<1>2. /\ form.first \in Int /\ form.last \in Int /\ form.coupons \subseteq Platform
      /\ form.lines \in Seq([type : RoomTypes, quantity : Int])
  BY FormsAssumption
<1>3. nights \in Nat
  BY <1>1, FormsAssumption
<1>4. IsFiniteSet(lines)
  <2>1. lines = 1..Len(form.lines) /\ Len(form.lines) \in Nat
    BY <1>2
  <2> QED
    BY <2>1, FS_Interval
<1>5. ASSUME NEW i \in lines
      PROVE  /\ form.lines[i].quantity \in Nat /\ child[type(i)].price \in Nat
             /\ NightCharge(type(i)) \in 0..child[type(i)].price
  <2> DEFINE r == type(i)
  <2>1. form.lines[i] \in [type : RoomTypes, quantity : Int]
    <3>1. i \in 1..Len(form.lines)
      BY <1>2
    <3> DEFINE Line == [type : RoomTypes, quantity : Int]
    <3> HIDE DEF Line
    <3>2. form.lines \in Seq(Line)
      BY <1>2 DEF Line
    <3>3. form.lines[i] \in Line
      BY <3>1, <3>2
    <3> QED
      BY <3>3 DEF Line
  <2>2. form.lines[i].quantity \in Int /\ form.lines[i].quantity > 0 /\ r \in RoomTypes
    BY <1>1, <2>1
  <2>3. At[r] = f /\ LiveChild(r)
    BY <1>1 DEF BookableChild
  <2> HIDE DEF r
  <2>4. r \in Children /\ f \in Venue
    BY <2>2 DEF Children, Venue
  <2>5. child[r].price \in Nat /\ ActiveDiscountSQL(f) \in Discounts
    BY <1>1, <2>3, <2>4, ChildPrice, LiveRow
  <2>6. DayRate(child[r].price, ActiveDiscountSQL(f)) \in 0..child[r].price
    BY <2>5, RateBounds
  <2>7. child[r].price \in Nat /\ NightCharge(r) \in 0..child[r].price
    BY <2>3, <2>5, <2>6 DEF NightCharge
  <2> QED
    BY <2>2, <2>7 DEF r
<1>6. DOMAIN charged = lines /\ DOMAIN spared = lines /\ DOMAIN listed = lines
  OBVIOUS
<1>7. ASSUME NEW i \in lines
      PROVE  /\ charged[i] \in Nat /\ spared[i] \in Nat
             /\ listed[i] = charged[i] + spared[i]
  <2> DEFINE q == form.lines[i].quantity
             p == child[type(i)].price
             x == NightCharge(type(i))
  <2>1. q \in Nat /\ p \in Nat /\ x \in 0..p
    BY <1>5
  <2>2. charged[i] = q * x /\ spared[i] = q * (p - x) /\ listed[i] = q * p
    OBVIOUS
  <2> HIDE DEF q, p, x, charged, spared, listed
  <2>3. x \in Nat /\ p - x \in Nat
    BY <2>1
  <2>4. q * x \in Nat /\ q * (p - x) \in Nat /\ q * p = q * x + q * (p - x)
    BY <2>1, <2>3
  <2> QED
    BY <2>2, <2>4
<1>8. /\ SumFunction(charged) \in Nat /\ SumFunction(spared) \in Nat
      /\ SumFunction(listed) = SumFunction(charged) + SumFunction(spared)
  <2> HIDE DEF charged, spared, listed, lines
  <2> QED
    BY <1>4, <1>6, <1>7, LinesAddUp
<1> DEFINE a == SumFunction(charged)
           b == SumFunction(spared)
<1>9. total \in Nat /\ nights * b \in Nat
      /\ nights * SumFunction(listed) = total + nights * b
  <2>1. a \in Nat /\ b \in Nat /\ SumFunction(listed) = a + b
    BY <1>8
  <2> HIDE DEF a, b, nights
  <2>2. nights * a \in Nat /\ nights * b \in Nat /\ nights * (a + b) = nights * a + nights * b
    BY <1>3, <2>1
  <2> QED
    BY <2>1, <2>2 DEF a, b
<1> HIDE DEF total
<1>10. off \in 0..total
  BY <1>1, <1>2, <1>9, CouponPriced
<1> HIDE DEF off, nights, b
<1>11. total - off >= 0 /\ nights * b + off >= 0 /\ (total - off) + (nights * b + off) = total + nights * b
  BY <1>9, <1>10
<1>12. /\ CreateRoomsBooking(f, form).amount = total - off
       /\ CreateRoomsBooking(f, form).discount = nights * b + off
  BY <1>1 DEF b
<1>13. (total - off) + (nights * b + off) = (form.last - form.first) * SumFunction(listed)
  BY <1>9, <1>11 DEF nights
<1> QED
  BY <1>11, <1>12, <1>13, Zenon

\* What checkout charges is what the card, the preview and the form said.
LEMMA CheckoutSound == RowsTyped => CheckoutKept
BY CardSound, PreviewSound, RoomsSound, HoursSound DEF CheckoutKept

--------------------------------------------------------------------------------
(* Theorems *)

\* A venue reaches customers only once an admin approves it, and leaves every
\* list when it is rejected, blocked or deleted; what a list shows, opens.
THEOREM OnlyLiveIsShown == VenuesSpec => []OnlyLiveShown
BY LiveOnly, PTL

\* What the type-ahead offers, the search finds: as many venues as it says when
\* the city's live venues are stored under one spelling, and never fewer (a city
\* stored under an old name left out); and the listing finds what the search does.
THEOREM SuggestionsDoLead == VenuesSpec => []SuggestionsLead
BY SuggestionsSound, PTL

\* Picking a facet leaves the number of venues it says, for any rows and any
\* search that matched word for word: the queries of facets.go and of the search
\* agree.
THEOREM FacetsDoTell == VenuesSpec => []FacetsTell
<1>1. VenuesInv => FacetsTell
  BY FacetsSound DEF VenuesInv
<1> QED
  BY <1>1, VenuesInvariance, PTL

\* A venue a date search shows for a slot, a day or a number of rooms can be
\* booked then, and one it hides cannot, for any dates, stocks and bookings: the
\* search's arithmetic over the nights and the claims of the booking repository
\* agree.  Of a hall for several days and any slot, the second half only.
THEOREM FoundCanBeBooked == VenuesSpec => []FoundIsBookable
BY BookableSound, VenuesInvariance, PTL

\* Checkout charges the price the card said and the hall price the preview said,
\* for any prices, percentages, coupons, dates and lines of rooms; the preview's
\* fee and tax it does not, and an advertised coupon it may refuse for its minimum.
THEOREM CheckoutIsKept == VenuesSpec => []CheckoutKept
<1>1. VenuesInv => CheckoutKept
  BY CheckoutSound DEF VenuesInv
<1> QED
  BY <1>1, VenuesInvariance, PTL

--------------------------------------------------------------------------------
(* Payment: what makes its invariants inductive *)

\* A payment row belongs to a booking that was inserted before it.
OrdersHaveBookings ==
  \A o \in Orders :
    IF orderStatus[o] = "NONE"
    THEN refunded[o] = 0 /\ orderOf[o] = NoBooking
    ELSE orderOf[o] \in Bookings /\ status[orderOf[o]] # "NONE"

\* What makes PendingIsUnpaid inductive: a booking that is still PENDING has only
\* orders for its whole total, and none of them was ever paid.
PendingOwesAll ==
  \A b \in Bookings : status[b] \in {"NONE", "PENDING"} =>
    /\ paid[b] = 0
    /\ \A o \in Orders : orderOf[o] = b =>
         orderStatus[o] \in {"PENDING", "FAILED"} /\ amount[o] = Total[b]

IInv ==
  /\ TypeOK
  /\ OrdersHaveBookings
  /\ OneOpenOrder
  /\ NeverOvercharged
  /\ RefundsBounded
  /\ PendingOwesAll

--------------------------------------------------------------------------------
(* The booking rows *)

\* Whatever the lifecycle does to a booking, it moves one row that was live or
\* not yet inserted, and never back to PENDING.
LEMMA MoveFacts ==
  ASSUME L!TypeOK, NEW b \in Bookings, BookingMoves(b)
  PROVE  /\ L!TypeOK'
         /\ UNCHANGED <<paid, orderVars, eventVars>>
         /\ \A a \in Bookings : status[a] # "NONE" => status'[a] # "NONE"
         /\ \A a \in Bookings : status'[a] = "NONE" => status[a] = "NONE"
         /\ \A a \in Bookings : status'[a] = "PENDING" => status[a] \in {"NONE", "PENDING"}
BY DEF BookingMoves, L!TypeOK, L!Open, L!Elapse, L!Accept, L!Reject, L!Cancel, L!Expire,
       L!Move, L!Live, L!Ended, L!Status, L!Hold

\* It holds before the first booking.
LEMMA InitIInv == Init => IInv
BY ConstantsAssumption
   DEF Init, IInv, TypeOK, L!Init, L!TypeOK, L!Status, L!Hold, OrdersHaveBookings, OneOpenOrder,
       NeverOvercharged, RefundsBounded, PendingOwesAll, OpenOrders, OrderStatus

--------------------------------------------------------------------------------
(* One lemma per action that changes an order *)

\* An order is created for what is owed, when no order is open.
LEMMA CreateStep ==
  ASSUME IInv, NEW b \in Bookings, NEW o \in Orders, Create(b, o)
  PROVE  IInv'
<1> USE ConstantsAssumption DEF IInv
<1> DEFINE due == Total[b] - paid[b]
<1>1. /\ status[b] \in L!Live /\ due > 0 /\ OpenOrders(b) = {} /\ orderStatus[o] = "NONE"
      /\ orderOf' = [orderOf EXCEPT ![o] = b]
      /\ amount' = [amount EXCEPT ![o] = due]
      /\ orderStatus' = [orderStatus EXCEPT ![o] = "PENDING"]
      /\ UNCHANGED <<status, hold, paid, refunded, sent, recorded>>
  BY DEF Create, Due, MayOpen, bookingVars, eventVars
<1>2. due \in Nat /\ paid[b] + due = Total[b]
  BY <1>1 DEF TypeOK
<1> HIDE DEF due
<1>3. TypeOK'
  BY <1>1, <1>2 DEF TypeOK, L!TypeOK, OrderStatus
<1>4. OrdersHaveBookings'
  BY <1>1 DEF OrdersHaveBookings, TypeOK, L!Live
<1>5. \A a \in Bookings : OpenOrders(a)' = IF a = b THEN {o} ELSE OpenOrders(a)
  BY <1>1 DEF OpenOrders, TypeOK
<1>6. OneOpenOrder'
  BY <1>5 DEF OneOpenOrder
<1>7. NeverOvercharged'
  <2>1. \A a \in Bookings : paid'[a] <= Total[a]
    BY <1>1 DEF NeverOvercharged
  <2>2. ASSUME NEW a \in Bookings, NEW p \in OpenOrders(a)' PROVE paid'[a] + amount'[p] <= Total[a]
    <3>1. CASE a = b
      BY <1>1, <1>2, <1>5, <2>2, <3>1 DEF TypeOK
    <3>2. CASE a # b
      <4>1. p \in OpenOrders(a) /\ p # o
        BY <1>1, <1>5, <2>2, <3>2 DEF OpenOrders
      <4> QED BY <1>1, <4>1 DEF NeverOvercharged, TypeOK, OpenOrders
    <3> QED BY <3>1, <3>2
  <2> QED BY <2>1, <2>2 DEF NeverOvercharged
<1>8. RefundsBounded'
  <2>1. ASSUME NEW p \in Orders, p = o PROVE refunded'[p] = 0 /\ orderStatus'[p] = "PENDING" /\ amount'[p] \in Nat
    BY <1>1, <1>2, <2>1 DEF TypeOK, OrdersHaveBookings
  <2>2. ASSUME NEW p \in Orders, p # o
        PROVE  /\ refunded'[p] = refunded[p] /\ orderStatus'[p] = orderStatus[p]
               /\ amount'[p] = amount[p]
    BY <1>1, <2>2 DEF TypeOK
  <2> QED BY <2>1, <2>2 DEF RefundsBounded
<1>9. PendingOwesAll'
  BY <1>1, <1>2 DEF PendingOwesAll, TypeOK, L!Live
<1> QED BY <1>3, <1>4, <1>6, <1>7, <1>8, <1>9

\* What every delivery that changes something has checked.
LEMMA DeliveredFacts ==
  ASSUME IInv, NEW e \in Events, NEW outcome, Delivered(e, outcome)
  PROVE  /\ sent[e].order \in Orders
         /\ orderStatus[sent[e].order] = "PENDING"
         /\ orderOf[sent[e].order] \in Bookings
         /\ sent[e].order \in OpenOrders(orderOf[sent[e].order])
         /\ refunded[sent[e].order] = 0
         /\ recorded' \in SUBSET Events
<1>1. sent[e].order \in Orders
  BY DEF IInv, TypeOK, Delivered, Message
<1>2. orderStatus[sent[e].order] = "PENDING"
  BY DEF Delivered
<1>3. orderOf[sent[e].order] \in Bookings
  BY <1>1, <1>2 DEF IInv, OrdersHaveBookings
<1>4. recorded' \in SUBSET Events
  BY DEF IInv, TypeOK, Delivered
<1>5. refunded[sent[e].order] = 0
  BY <1>1, <1>2 DEF IInv, TypeOK, RefundsBounded
<1> QED BY <1>1, <1>2, <1>3, <1>4, <1>5 DEF OpenOrders

\* A captured order adds what it captured to what its booking has paid.
LEMMA SuccessStep ==
  ASSUME IInv, NEW e \in Events, WebhookSuccess(e)
  PROVE  IInv'
<1> USE ConstantsAssumption DEF IInv
<1>0. PICK o \in Orders, b \in Bookings : o = sent[e].order /\ b = orderOf[o]
  BY DeliveredFacts DEF WebhookSuccess
<1> DEFINE settled == Settles(b, amount[o])
<1>1. /\ orderStatus' = [orderStatus EXCEPT ![o] = "SUCCESS"]
      /\ paid' = [paid EXCEPT ![b] = @ + amount[o]]
      /\ status' = IF settled THEN [status EXCEPT ![b] = "CONFIRMED"] ELSE status
      /\ hold' = IF settled THEN [hold EXCEPT ![b] = "none"] ELSE hold
      /\ UNCHANGED <<orderOf, amount, refunded, sent>>
  BY <1>0 DEF WebhookSuccess
<1>2. /\ orderStatus[o] = "PENDING" /\ o \in OpenOrders(b)
      /\ refunded[o] = 0 /\ recorded' \in SUBSET Events
  BY <1>0, DeliveredFacts DEF WebhookSuccess
<1>3. /\ paid[b] \in Nat /\ amount[o] \in Nat /\ Total[b] \in Nat
      /\ paid[b] + amount[o] <= Total[b]
  BY <1>2 DEF TypeOK, NeverOvercharged
<1>a. \A a \in Bookings : status[a] \notin {"NONE", "PENDING"} => status'[a] = status[a] \/ a = b
  BY <1>1, <1>2 DEF TypeOK, L!TypeOK
<1>b. \A a \in Bookings : status'[a] \in {"NONE", "PENDING"} => status'[a] = status[a] /\ a # b
  <2>1. ASSUME status[b] = "PENDING" PROVE settled
    <3>1. paid[b] = 0 /\ amount[o] = Total[b]
      BY <1>0, <1>2, <2>1 DEF PendingOwesAll
    <3> QED BY <1>3, <2>1, <3>1 DEF L!Live, Settles
  <2>2. status[b] # "NONE"
    BY <1>0, <1>2 DEF OrdersHaveBookings
  <2> QED BY <1>1, <1>2, <2>1, <2>2 DEF TypeOK, L!TypeOK
<1> HIDE DEF settled
<1>4. TypeOK'
  BY <1>1, <1>2, <1>3 DEF TypeOK, L!TypeOK, L!Status, L!Live, L!Hold, OrderStatus, Paid, Refundable
<1>5. OrdersHaveBookings'
  BY <1>1, <1>2, <1>b DEF OrdersHaveBookings, TypeOK
<1>6. \A a \in Bookings : OpenOrders(a)' = OpenOrders(a) \ {o}
  BY <1>1, <1>2 DEF OpenOrders, TypeOK
<1>7. OneOpenOrder'
  BY <1>6 DEF OneOpenOrder
<1>8. NeverOvercharged'
  <2>1. OpenOrders(b)' = {}
    BY <1>2, <1>6 DEF OneOpenOrder
  <2>2. paid'[b] <= Total[b]
    BY <1>1, <1>2, <1>3 DEF TypeOK
  <2>3. ASSUME NEW a \in Bookings, a # b
        PROVE  paid'[a] = paid[a] /\ OpenOrders(a)' \subseteq OpenOrders(a)
    BY <1>1, <1>6, <2>3 DEF TypeOK
  <2> QED BY <1>1, <2>1, <2>2, <2>3 DEF NeverOvercharged
<1>9. RefundsBounded'
  BY <1>1, <1>2 DEF RefundsBounded, TypeOK
<1>10. PendingOwesAll'
  <2> SUFFICES ASSUME NEW a \in Bookings, status'[a] \in {"NONE", "PENDING"}
               PROVE  /\ paid'[a] = 0
                      /\ \A p \in Orders : orderOf[p] = a =>
                           orderStatus'[p] \in {"PENDING", "FAILED"} /\ amount[p] = Total[a]
    BY <1>1 DEF PendingOwesAll
  <2>1. status[a] \in {"NONE", "PENDING"} /\ a # b
    BY <1>0, <1>2, <1>b
  <2>2. paid'[a] = paid[a]
    BY <1>1, <2>1 DEF TypeOK
  <2>3. \A p \in Orders : orderOf[p] = a => orderStatus'[p] = orderStatus[p]
    BY <1>0, <1>1, <2>1 DEF TypeOK
  <2> QED BY <2>1, <2>2, <2>3 DEF PendingOwesAll
<1> QED BY <1>4, <1>5, <1>7, <1>8, <1>9, <1>10

\* A failed order leaves what was paid alone.
LEMMA FailedStep ==
  ASSUME IInv, NEW e \in Events, WebhookFailed(e)
  PROVE  IInv'
<1> USE DEF IInv
<1>0. PICK o \in Orders : o = sent[e].order
  BY DeliveredFacts DEF WebhookFailed
<1>1. /\ orderStatus' = [orderStatus EXCEPT ![o] = "FAILED"]
      /\ UNCHANGED <<status, hold, paid, orderOf, amount, refunded, sent>>
  BY <1>0 DEF WebhookFailed, bookingVars
<1>2. orderStatus[o] = "PENDING" /\ refunded[o] = 0 /\ recorded' \in SUBSET Events
  BY <1>0, DeliveredFacts DEF WebhookFailed
<1>3. \A b \in Bookings : OpenOrders(b)' \subseteq OpenOrders(b)
  BY <1>1, <1>2 DEF OpenOrders, TypeOK
<1>4. TypeOK'
  BY <1>1, <1>2 DEF TypeOK, L!TypeOK, OrderStatus
<1>5. OneOpenOrder' /\ NeverOvercharged'
  BY <1>1, <1>3 DEF OneOpenOrder, NeverOvercharged
<1>6. OrdersHaveBookings' /\ RefundsBounded' /\ PendingOwesAll'
  BY <1>1, <1>2 DEF OrdersHaveBookings, RefundsBounded, PendingOwesAll, TypeOK
<1> QED BY <1>4, <1>5, <1>6

\* A refund gives back no more than was captured.
LEMMA RefundStep ==
  ASSUME IInv, NEW o \in Orders, NEW x \in 1 .. amount[o], Refund(o, x)
  PROVE  IInv'
<1> USE ConstantsAssumption DEF IInv
<1>0. PICK b \in Bookings : b = orderOf[o]
  BY DEF Refund, MayRefund, OrdersHaveBookings, Refundable
<1>1. /\ orderStatus[o] \in Refundable
      /\ refunded[o] + x <= amount[o]
      /\ refunded' = [refunded EXCEPT ![o] = @ + x]
      /\ orderStatus' = [orderStatus EXCEPT
           ![o] = IF refunded[o] + x >= amount[o] THEN "REFUNDED" ELSE "PARTIALLY_REFUNDED"]
      /\ paid' = [paid EXCEPT ![b] = IF @ - x > 0 THEN @ - x ELSE 0]
      /\ UNCHANGED <<status, hold, orderOf, amount, sent, recorded>>
  BY <1>0 DEF Refund, MayRefund, bookingVars, eventVars
<1>2. /\ status[b] \notin {"NONE", "PENDING"}
      /\ refunded[o] \in Nat /\ amount[o] \in Nat /\ paid[b] \in Nat /\ x \in Nat /\ x > 0
  BY <1>0, <1>1 DEF OrdersHaveBookings, PendingOwesAll, TypeOK, Refundable
<1>3. \A a \in Bookings : paid'[a] \in Nat /\ paid'[a] <= paid[a]
  BY <1>1, <1>2 DEF TypeOK
<1>4. \A a \in Bookings : OpenOrders(a)' = OpenOrders(a)
  BY <1>1 DEF OpenOrders, TypeOK, Refundable
<1>5. TypeOK'
  <2>1. paid' \in [Bookings -> Nat]
    BY <1>1, <1>3 DEF TypeOK
  <2>2. orderStatus' \in [Orders -> OrderStatus]
    BY <1>1 DEF TypeOK, OrderStatus, Paid, Refundable
  <2>3. refunded' \in [Orders -> Nat]
    BY <1>1, <1>2 DEF TypeOK
  <2> QED BY <1>1, <2>1, <2>2, <2>3 DEF TypeOK, L!TypeOK
<1>6. OneOpenOrder'
  BY <1>4 DEF OneOpenOrder
<1>7. NeverOvercharged'
  BY <1>1, <1>3, <1>4 DEF NeverOvercharged, TypeOK, OpenOrders
<1>8. RefundsBounded'
  <2>1. ASSUME NEW p \in Orders, p # o
        PROVE  refunded'[p] = refunded[p] /\ orderStatus'[p] = orderStatus[p]
    BY <1>1, <2>1 DEF TypeOK
  <2>2. /\ refunded'[o] = refunded[o] + x
        /\ orderStatus'[o] = IF refunded[o] + x >= amount[o] THEN "REFUNDED" ELSE "PARTIALLY_REFUNDED"
    BY <1>1 DEF TypeOK
  <2>3. ASSUME NEW p \in Orders
        PROVE  /\ refunded'[p] <= amount'[p]
               /\ orderStatus'[p] = "REFUNDED" <=> refunded'[p] > 0 /\ refunded'[p] = amount'[p]
               /\ orderStatus'[p] = "PARTIALLY_REFUNDED" <=> 0 < refunded'[p] /\ refunded'[p] < amount'[p]
    BY <1>1, <1>2, <2>1, <2>2 DEF RefundsBounded
  <2> QED BY <2>3 DEF RefundsBounded
<1>9. OrdersHaveBookings'
  BY <1>1, <1>2 DEF OrdersHaveBookings, TypeOK, Refundable
<1>10. PendingOwesAll'
  <2> SUFFICES ASSUME NEW a \in Bookings, status'[a] \in {"NONE", "PENDING"}
               PROVE  /\ paid'[a] = 0
                      /\ \A p \in Orders : orderOf[p] = a =>
                           orderStatus'[p] \in {"PENDING", "FAILED"} /\ amount[p] = Total[a]
    BY <1>1 DEF PendingOwesAll
  <2>1. status[a] \in {"NONE", "PENDING"} /\ a # b
    BY <1>0, <1>1, <1>2
  <2>2. paid'[a] = paid[a]
    BY <1>1, <2>1 DEF TypeOK
  <2>3. \A p \in Orders : orderOf[p] = a => orderStatus'[p] = orderStatus[p]
    BY <1>0, <1>1, <2>1 DEF TypeOK
  <2> QED BY <2>1, <2>2, <2>3 DEF PendingOwesAll
<1> QED BY <1>5, <1>6, <1>7, <1>8, <1>9, <1>10

\* The rest of the lifecycle touches no order.
LEMMA MoveStep ==
  ASSUME IInv, NEW b \in Bookings, BookingMoves(b)
  PROVE  IInv'
<1>1. /\ L!TypeOK'
      /\ UNCHANGED <<paid, orderOf, amount, orderStatus, refunded, sent, recorded>>
      /\ \A a \in Bookings : status[a] # "NONE" => status'[a] # "NONE"
      /\ \A a \in Bookings : status'[a] \in {"NONE", "PENDING"} => status[a] \in {"NONE", "PENDING"}
  BY MoveFacts DEF IInv, TypeOK, orderVars, eventVars
<1> QED
  BY <1>1 DEF IInv, TypeOK, OrdersHaveBookings, OneOpenOrder, NeverOvercharged, RefundsBounded,
              PendingOwesAll, OpenOrders

\* Every step keeps it.
LEMMA NextStep == IInv /\ [Next]_vars => IInv'
<1> SUFFICES ASSUME IInv, [Next]_vars PROVE IInv'
  OBVIOUS
<1>1. ASSUME NEW e \in Events, NEW o \in Orders, NEW outcome \in Outcome, GatewaySends(e, o, outcome)
      PROVE  IInv'
  <2>1. UNCHANGED <<status, hold, paid, orderOf, amount, orderStatus, refunded, recorded>>
    BY <1>1 DEF GatewaySends, bookingVars, orderVars
  <2>2. sent' \in [Events -> Message \cup {NoEvent}]
    BY <1>1 DEF GatewaySends, IInv, TypeOK, Message
  <2> QED
    BY <2>1, <2>2 DEF IInv, TypeOK, L!TypeOK, OrdersHaveBookings, OneOpenOrder, NeverOvercharged,
                      RefundsBounded, PendingOwesAll, OpenOrders
<1>2. CASE UNCHANGED vars
  BY <1>2 DEF vars, bookingVars, orderVars, eventVars, IInv, TypeOK, L!TypeOK, OrdersHaveBookings,
              OneOpenOrder, NeverOvercharged, RefundsBounded, PendingOwesAll, OpenOrders
<1> QED
  BY <1>1, <1>2, CreateStep, SuccessStep, FailedStep, RefundStep, MoveStep DEF Next

\* So it always holds.
LEMMA Invariance == Spec => []IInv
BY InitIInv, NextStep, PTL DEF Spec

--------------------------------------------------------------------------------
(* paid_amount and the orders it comes from *)

\* What order o still contributes, and that finitely many do.
Kept(o) == amount[o] - refunded[o]

PaidFinite == \A b \in Bookings : IsFiniteSet(PaidOrders(b))

Balanced == PaidFinite /\ PaidMatchesOrders

\* The types of the amounts, in the state a step leaves.
LEMMA KeptType ==
  ASSUME IInv, NEW b \in Bookings, NEW o \in PaidOrders(b)
  PROVE  Kept(o) \in Nat
BY DEF IInv, TypeOK, RefundsBounded, PaidOrders, Kept

\* A booking whose paid amount and paid orders stay as they are stays balanced.
LEMMA BalanceUnchanged ==
  ASSUME Balanced, NEW b \in Bookings, paid'[b] = paid[b], UNCHANGED PaidOrders(b),
         \A o \in PaidOrders(b) : Kept(o)' = Kept(o)
  PROVE  /\ IsFiniteSet(PaidOrders(b)')
         /\ paid'[b] = SumFunction([o \in PaidOrders(b)' |-> Kept(o)'])
<1>1. [o \in PaidOrders(b)' |-> Kept(o)'] = [o \in PaidOrders(b) |-> Kept(o)]
  OBVIOUS
<1>2. paid[b] = SumFunction([o \in PaidOrders(b) |-> Kept(o)])
  BY DEF Balanced, PaidMatchesOrders, Kept
<1> QED BY <1>1, <1>2 DEF Balanced, PaidFinite

\* To keep the whole balanced it is enough to keep every booking balanced.
LEMMA BalancedWhenAllAre ==
  ASSUME \A b \in Bookings : /\ IsFiniteSet(PaidOrders(b)')
                             /\ paid'[b] = SumFunction([o \in PaidOrders(b)' |-> Kept(o)'])
  PROVE  Balanced'
BY DEF Balanced, PaidFinite, PaidMatchesOrders, Kept

\* A new order has captured nothing yet.
LEMMA CreateBalance ==
  ASSUME IInv, Balanced, NEW b \in Bookings, NEW o \in Orders, Create(b, o)
  PROVE  Balanced'
<1>1. /\ orderStatus[o] = "NONE"
      /\ orderOf' = [orderOf EXCEPT ![o] = b]
      /\ \A p \in Orders \ {o} : amount'[p] = amount[p] /\ orderOf'[p] = orderOf[p]
      /\ orderStatus' = [orderStatus EXCEPT ![o] = "PENDING"]
      /\ UNCHANGED <<paid, refunded>>
  BY DEF Create, IInv, TypeOK
<1>2. ASSUME NEW a \in Bookings
      PROVE  UNCHANGED PaidOrders(a) /\ \A p \in PaidOrders(a) : Kept(p)' = Kept(p)
  BY <1>1 DEF IInv, TypeOK, PaidOrders, Paid, Refundable, Kept
<1> QED BY <1>1, <1>2, BalanceUnchanged, BalancedWhenAllAre

\* A payment that succeeds becomes one more summand of its booking.
LEMMA SuccessBalance ==
  ASSUME IInv, Balanced, NEW e \in Events, WebhookSuccess(e)
  PROVE  Balanced'
<1>0. PICK o \in Orders, b \in Bookings : o = sent[e].order /\ b = orderOf[o]
  BY DeliveredFacts DEF WebhookSuccess
<1>1. /\ orderStatus' = [orderStatus EXCEPT ![o] = "SUCCESS"]
      /\ paid' = [paid EXCEPT ![b] = @ + amount[o]]
      /\ orderStatus[o] = "PENDING"
      /\ refunded[o] = 0
      /\ UNCHANGED <<orderOf, amount, refunded>>
  BY <1>0, DeliveredFacts DEF WebhookSuccess
<1>2. \A p \in Orders : UNCHANGED Kept(p)
  BY <1>1 DEF Kept
<1>3. ASSUME NEW a \in Bookings, a # b
      PROVE  paid'[a] = paid[a] /\ UNCHANGED PaidOrders(a)
  BY <1>0, <1>1, <1>3 DEF IInv, TypeOK, PaidOrders
<1>4. ASSUME NEW a \in Bookings, a # b
      PROVE  /\ IsFiniteSet(PaidOrders(a)')
             /\ paid'[a] = SumFunction([p \in PaidOrders(a)' |-> Kept(p)'])
  BY <1>2, <1>3, <1>4, BalanceUnchanged DEF PaidOrders
<1>5. /\ IsFiniteSet(PaidOrders(b)')
      /\ paid'[b] = SumFunction([p \in PaidOrders(b)' |-> Kept(p)'])
  <2> DEFINE v == [p \in PaidOrders(b)' |-> Kept(p)']
             w == [p \in PaidOrders(b) |-> Kept(p)]
  <2>1. PaidOrders(b)' = PaidOrders(b) \cup {o} /\ o \notin PaidOrders(b)
    BY <1>0, <1>1 DEF IInv, TypeOK, PaidOrders, Paid, Refundable
  <2>2. IsFiniteSet(PaidOrders(b)) /\ IsFiniteSet(PaidOrders(b)')
    BY <2>1, FS_AddElement DEF Balanced, PaidFinite
  <2>3. amount[o] \in Nat /\ Kept(o)' = amount[o]
    BY <1>1 DEF IInv, TypeOK, Kept
  <2>4. /\ DOMAIN v = PaidOrders(b) \cup {o}
        /\ DOMAIN w = PaidOrders(b)
        /\ v[o] = amount[o]
        /\ \A p \in PaidOrders(b) : w[p] \in Int /\ v[p] = w[p]
    BY <1>2, <2>1, <2>3, KeptType DEF PaidOrders
  <2>5. paid[b] = SumFunction(w) /\ paid[b] \in Nat /\ paid'[b] = paid[b] + amount[o]
    BY <1>1 DEF Balanced, PaidMatchesOrders, Kept, IInv, TypeOK
  <2> HIDE DEF v, w
  <2>6. SumFunction(v) = v[o] + SumFunction(w)
    BY <2>1, <2>2, <2>3, <2>4, SumFunctionAdded
  <2>7. paid'[b] = SumFunction(v)
    BY <2>3, <2>4, <2>5, <2>6
  <2> QED BY <2>2, <2>7 DEF v
<1> QED BY <1>4, <1>5, BalancedWhenAllAre

\* A refund takes as much off one summand as off paid_amount, which is at least
\* that much, so GREATEST(paid_amount - x, 0) never bites.
LEMMA RefundBalance ==
  ASSUME IInv, Balanced, NEW o \in Orders, NEW x \in 1 .. amount[o], Refund(o, x)
  PROVE  Balanced'
<1>0. PICK b \in Bookings : b = orderOf[o]
  BY DEF Refund, MayRefund, IInv, OrdersHaveBookings, Refundable
<1>1. /\ orderStatus[o] \in Refundable
      /\ refunded[o] + x <= amount[o]
      /\ refunded' = [refunded EXCEPT ![o] = @ + x]
      /\ \A p \in Orders : orderStatus'[p] \in Paid <=> orderStatus[p] \in Paid
      /\ paid' = [paid EXCEPT ![b] = IF @ - x > 0 THEN @ - x ELSE 0]
      /\ UNCHANGED <<orderOf, amount>>
  BY <1>0 DEF Refund, MayRefund, IInv, TypeOK, Paid, Refundable
<1>2. \A a \in Bookings : UNCHANGED PaidOrders(a)
  BY <1>1 DEF PaidOrders
<1>3. \A p \in Orders \ {o} : UNCHANGED Kept(p)
  BY <1>1 DEF Kept, IInv, TypeOK
<1>4. ASSUME NEW a \in Bookings, a # b
      PROVE  /\ IsFiniteSet(PaidOrders(a)')
             /\ paid'[a] = SumFunction([p \in PaidOrders(a)' |-> Kept(p)'])
  <2>1. paid'[a] = paid[a] /\ o \notin PaidOrders(a)
    BY <1>0, <1>1, <1>4 DEF IInv, TypeOK, PaidOrders
  <2> QED BY <1>2, <1>3, <2>1, BalanceUnchanged DEF PaidOrders
<1>5. /\ IsFiniteSet(PaidOrders(b)')
      /\ paid'[b] = SumFunction([p \in PaidOrders(b)' |-> Kept(p)'])
  <2> DEFINE rest == PaidOrders(b) \ {o}
             u == [p \in rest |-> Kept(p)]
             v == [p \in PaidOrders(b)' |-> Kept(p)']
             w == [p \in PaidOrders(b) |-> Kept(p)]
  <2>1. o \in PaidOrders(b) /\ PaidOrders(b)' = PaidOrders(b) /\ PaidOrders(b) = rest \cup {o}
    BY <1>0, <1>1, <1>2 DEF PaidOrders, Paid
  <2>2. IsFiniteSet(PaidOrders(b)) /\ IsFiniteSet(rest)
    BY FS_RemoveElement DEF Balanced, PaidFinite
  <2>3. /\ amount[o] \in Nat /\ refunded[o] \in Nat /\ x \in Nat
        /\ Kept(o) = amount[o] - refunded[o]
        /\ Kept(o)' = amount[o] - (refunded[o] + x)
    BY <1>1 DEF IInv, TypeOK, Kept
  <2>4. Kept(o) \in Nat /\ Kept(o)' \in Nat /\ Kept(o) = Kept(o)' + x
    BY <1>1, <2>3
  <2>5. /\ DOMAIN v = rest \cup {o} /\ DOMAIN w = rest \cup {o} /\ DOMAIN u = rest
        /\ v[o] = Kept(o)' /\ w[o] = Kept(o)
        /\ \A p \in rest : u[p] \in Nat /\ v[p] = u[p] /\ w[p] = u[p]
    BY <1>3, <2>1, KeptType DEF PaidOrders
  <2>6. paid[b] = SumFunction(w) /\ paid[b] \in Nat
        /\ paid'[b] = IF paid[b] - x > 0 THEN paid[b] - x ELSE 0
    BY <1>1 DEF Balanced, PaidMatchesOrders, Kept, IInv, TypeOK
  <2>7. o \notin rest
    OBVIOUS
  <2> HIDE DEF u, v, w, rest
  <2>8. SumFunction(u) \in Nat
    BY <2>2, <2>5, SumFunctionType
  <2>9. SumFunction(v) = v[o] + SumFunction(u)
    BY <2>2, <2>4, <2>5, <2>7, SumFunctionAdded
  <2>10. SumFunction(w) = w[o] + SumFunction(u)
    BY <2>2, <2>4, <2>5, <2>7, SumFunctionAdded
  <2>11. paid'[b] = SumFunction(v)
    BY <2>3, <2>4, <2>5, <2>6, <2>8, <2>9, <2>10
  <2> QED BY <2>1, <2>2, <2>11 DEF v
<1> QED BY <1>4, <1>5, BalancedWhenAllAre

\* Every step keeps the balance.
LEMMA BalanceStep == IInv /\ Balanced /\ [Next]_vars => Balanced'
<1> SUFFICES ASSUME IInv, Balanced, [Next]_vars PROVE Balanced'
  OBVIOUS
<1>1. ASSUME UNCHANGED <<paid, orderOf, amount, refunded>>,
             \A p \in Orders : orderStatus'[p] \in Paid <=> orderStatus[p] \in Paid
      PROVE  Balanced'
  <2>1. \A b \in Bookings :
          /\ paid'[b] = paid[b] /\ UNCHANGED PaidOrders(b)
          /\ \A o \in PaidOrders(b) : UNCHANGED Kept(o)
    BY <1>1 DEF PaidOrders, Kept
  <2> QED BY <2>1, BalanceUnchanged, BalancedWhenAllAre
<1>2. ASSUME NEW e \in Events, WebhookFailed(e) PROVE Balanced'
  <2>1. \A p \in Orders : orderStatus'[p] \in Paid <=> orderStatus[p] \in Paid
    BY <1>2, DeliveredFacts DEF WebhookFailed, IInv, TypeOK, Paid, Refundable
  <2> QED BY <1>1, <1>2, <2>1 DEF WebhookFailed
<1>3. ASSUME UNCHANGED <<paid, orderVars>> PROVE Balanced'
  BY <1>1, <1>3 DEF orderVars
<1> QED
  BY <1>2, <1>3, CreateBalance, SuccessBalance, RefundBalance
     DEF Next, BookingMoves, GatewaySends, vars

\* paid_amount is at all times the money of the booking's successful orders less
\* its refunds: an event delivered twice, or two events for one order, credit it
\* once (HandleWebhook, Refund).
THEOREM PaidIsBalanced == Spec => []PaidMatchesOrders
<1>1. Init => IInv /\ Balanced
  <2> SUFFICES ASSUME Init PROVE Balanced
    BY InitIInv
  <2>1. \A b \in Bookings : PaidOrders(b) = {}
    BY DEF Init, PaidOrders, Paid, Refundable
  <2>2. ASSUME NEW b \in Bookings
        PROVE  paid[b] = SumFunction([o \in PaidOrders(b) |-> amount[o] - refunded[o]])
    <3>1. DOMAIN [o \in PaidOrders(b) |-> amount[o] - refunded[o]] = {}
      BY <2>1
    <3> QED BY <3>1, SumEmpty DEF Init, SumFunction
  <2> QED BY <2>1, <2>2, FS_EmptySet DEF Balanced, PaidFinite, PaidMatchesOrders
<1>2. IInv /\ Balanced /\ [Next]_vars => (IInv /\ Balanced)'
  BY NextStep, BalanceStep
<1>3. IInv /\ Balanced => PaidMatchesOrders
  BY DEF Balanced
<1> QED BY <1>1, <1>2, <1>3, PTL DEF Spec

--------------------------------------------------------------------------------
\* Every variable keeps its type.
THEOREM TypeCorrect == Spec => []TypeOK
<1>1. IInv => TypeOK
  BY DEF IInv
<1> QED BY <1>1, Invariance, PTL

\* Service.Create never opens a second order beside an open one.
THEOREM OrdersExclusive == Spec => []OneOpenOrder
<1>1. IInv => OneOpenOrder
  BY DEF IInv
<1> QED BY <1>1, Invariance, PTL

\* No booking is charged more than its total, however orders, webhooks and
\* refunds follow each other.
THEOREM ChargesBounded == Spec => []NeverOvercharged
<1>1. IInv => NeverOvercharged
  BY DEF IInv
<1> QED BY <1>1, Invariance, PTL

\* Refund never gives back more than an order took.
THEOREM RefundsCorrect == Spec => []RefundsBounded
<1>1. IInv => RefundsBounded
  BY DEF IInv
<1> QED BY <1>1, Invariance, PTL

\* Whoever has paid anything no longer waits for the owner's decision.
THEOREM PendingMeansUnpaid == Spec => []PendingIsUnpaid
<1>1. IInv => PendingIsUnpaid
  BY DEF IInv, PendingOwesAll, PendingIsUnpaid
<1> QED BY <1>1, Invariance, PTL

\* Taken together: the money of a booking adds up, for any totals, orders and
\* webhook events.
THEOREM MoneyIsSound == Spec => []MoneySound
<1>1. IInv => MoneySound
  BY DEF IInv, MoneySound, PendingOwesAll, PendingIsUnpaid
<1> QED BY <1>1, Invariance, PTL

\* Webhooks move booking rows only as BookingLifecycle says.
THEOREM ImplementsLifecycle == Spec => LifecycleHolds
<1>1. Init => L!Init
  BY DEF Init
<1>2. IInv /\ [Next]_vars => [L!Next]_(L!lifecycleVars)
  <2> SUFFICES ASSUME IInv, [Next]_vars PROVE L!Next \/ UNCHANGED <<status, hold>>
    BY DEF L!lifecycleVars
  <2>1. ASSUME NEW b \in Bookings, BookingMoves(b) PROVE L!Next
    BY <2>1 DEF BookingMoves, L!Next
  <2>2. ASSUME NEW e \in Events, WebhookSuccess(e) PROVE L!Next \/ UNCHANGED <<status, hold>>
    <3> DEFINE b == orderOf[sent[e].order]
    <3>1. b \in Bookings
      BY <2>2, DeliveredFacts DEF WebhookSuccess
    <3>2. L!Pay(b) \/ UNCHANGED <<status, hold>>
      BY <2>2 DEF WebhookSuccess, Settles, L!Pay, L!Move
    <3> QED BY <3>1, <3>2 DEF L!Next
  <2>3. CASE UNCHANGED <<status, hold>>
    BY <2>3
  <2> QED
    BY <2>1, <2>2, <2>3
       DEF Next, vars, bookingVars, Create, GatewaySends, WebhookFailed, Refund
<1> QED BY <1>1, <1>2, Invariance, PTL DEF Spec, LifecycleHolds, L!Spec

================================================================================
