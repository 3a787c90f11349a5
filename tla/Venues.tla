-------------------------------- MODULE Venues ---------------------------------
(***************************************************************************)
(* The venues table and its children as the owner and admin routes write   *)
(* them: internal/facility (handler.go, inventory.go, events.go, media.go),*)
(* internal/admin (approveFacility, blockUser, patchFacility), and the     *)
(* claims a booking makes on a venue's dates and rooms.                    *)
(*                                                                         *)
(* A route is one action where it is one statement, or statements no other *)
(* route can disturb.  Two are not.  An amenity's trigger recomputes the   *)
(* venue's search vector from what its own snapshot shows, and waits for   *)
(* the venue's row to write it; a list of events replaces the rows its     *)
(* DELETE saw.  Each is a start and a commit.                              *)
(***************************************************************************)
EXTENDS Integers, FiniteSets, FiniteSetsExt, Functions

CONSTANTS
  Halls, Hotels,     \* ids of venues, by type
  RoomTypes, Extras, \* ids of room types, and of packages and add-ons
  At,                \* [RoomTypes \cup Extras -> the venue a child belongs to]
  Profiles,          \* the listing forms: [name, city, price, pax, place]; city, price, pax may be None
  Names, Cities, Prices, Capacities,   \* what a patch may write; a name is a set of words
  Lower,             \* [spellings of a city with capitals -> the lower-case one]
  Percents,          \* discounts an admin may set
  Amenities,         \* amenity codes, which are words of a search too
  Applies,           \* [Amenities -> the types of venue an amenity is for]
  EventTypes,            \* event codes
  Rooms,             \* [price, total] of a room type form; total 0: not stated
  Days, Slots,       \* Slots == {"MORNING", "EVENING", "FULL_DAY"}
  Nightly,           \* what a room booking asks: functions of RoomTypes to Nat
  Openings,          \* the catalogues a run starts from: [venue, declared, offers, child]
  MaxEdits,          \* bound: routes called in a behaviour
  MaxOpen,           \* bound: amenity requests in flight at once
  None               \* no row, or SQL NULL

Venue == Halls \cup Hotels
Children == RoomTypes \cup Extras

ASSUME SlotsAssumption == Slots = {"MORNING", "EVENING", "FULL_DAY"}
ASSUME AtAssumption == /\ At \in [Children -> Venue]
                       /\ \A r \in RoomTypes : At[r] \in Hotels
ASSUME BoundsAssumption == MaxEdits \in Nat /\ MaxOpen \in Nat

\* A facilities row's columns; those with a CHECK or a validation hold what it allows.
Columns == {"name", "city", "price", "pax", "place", "status", "verified", "deleted", "percent", "until"}
Statuses == {"APPROVED", "REJECTED", "BLOCKED", "PENDING"}
IsRow(row) ==
  /\ DOMAIN row = Columns
  /\ row.price \in Nat \cup {None} /\ row.pax \in Nat \cup {None}
  /\ row.status \in Statuses
  /\ row.percent \in (1..100) \cup {None}
  /\ row.until \in {"ahead", "past", None}

\* A room type, a package or an add-on.
ChildRow == [price : Nat, total : Nat, deleted : BOOLEAN]

ASSUME NoneAssumption ==
  /\ None \notin Int \cup Slots \cup EventTypes \cup Cities \cup {"MARRIAGE_HALL", "HOTEL"}
  /\ None \notin ChildRow
ASSUME RowsAssumption ==
  /\ IsFiniteSet(Venue) /\ IsFiniteSet(Children) /\ Halls \cap Hotels = {}
  /\ Days \subseteq Int
  /\ Prices \subseteq Nat /\ Capacities \subseteq Nat /\ Percents \subseteq 1..100
  /\ \A form \in Profiles : form.price \in Nat \cup {None} /\ form.pax \in Nat \cup {None}
  /\ Rooms \subseteq [price : Nat, total : Nat]
  /\ Nightly \subseteq [RoomTypes -> Nat]
  /\ \A start \in Openings :
       /\ DOMAIN start.venue = Venue
       /\ \A f \in Venue : start.venue[f] # None => IsRow(start.venue[f])
       /\ start.declared \in [Venue -> SUBSET EventTypes]
       /\ start.offers \in [Venue -> SUBSET Amenities]
       /\ start.child \in [Children -> ChildRow \cup {None}]

VARIABLES
  venue,     \* [Venue -> facilities row, or None]
  declared,  \* [Venue -> facility_events: the events it says it hosts]
  offers,    \* [Venue -> facility_amenities]
  vector,    \* [Venue -> facilities.search_vector, a set of words]
  writing,   \* amenity requests whose trigger waits for the venue's row
  replacing, \* event lists being replaced: [venue, codes, alone]
  child,     \* [Children -> room_types, hall_packages or add_on_services row, or None]
  booked,    \* live bookings: [id, venue, days, slot, rooms]
  edits      \* routes called so far

venueVars == <<venue, declared, offers, vector, writing, replacing, child, booked, edits>>

--------------------------------------------------------------------------------
(* Rows *)

TypeOf(f) == IF f \in Halls THEN "MARRIAGE_HALL" ELSE "HOTEL"

\* OwnerOf: the row requireOwner finds.
Exists(f) == venue[f] # None /\ ~venue[f].deleted

\* venuetype.LiveSQL: what a customer may see and book.
LiveSQL(f) == Exists(f) /\ venue[f].status = "APPROVED"

LiveChild(c) == child[c] # None /\ ~child[c].deleted

\* uq_facility_owner_name, the owner being the same.
NameFree(name, f) == \A g \in Venue \ {f} : Exists(g) => venue[g].name # name

TypeWord == [MARRIAGE_HALL |-> "hall", HOTEL |-> "hotel"]

\* A city is stored as it was typed; searches and indexes fold its case.
LOWER(city) == IF city \in DOMAIN Lower THEN Lower[city] ELSE city

\* What is searched of a row's city, which a form may leave out.
CityWord(row) == IF row.city = None THEN {} ELSE {LOWER(row.city)}

\* facility_search_vector: the words of the name, city, type and amenities.
facility_search_vector(f, row, amenities) ==
  row.name \cup CityWord(row) \cup {TypeWord[TypeOf(f)]} \cup amenities

--------------------------------------------------------------------------------
(* The owner's routes *)

Called == edits < MaxEdits /\ edits' = edits + 1

\* A stored row: the form's columns, and the defaults of the others.
NewRow(form) ==
  [name |-> form.name, city |-> form.city, price |-> form.price, pax |-> form.pax,
   place |-> form.place, status |-> "PENDING", verified |-> FALSE, deleted |-> FALSE,
   percent |-> None, until |-> None]

\* resolveAmenities: an amenity of the other type is refused, never dropped.
resolveAmenities(f, wanted) == \A a \in wanted : TypeOf(f) \in Applies[a]

createWithType(f, form, wanted) ==
  /\ Called
  /\ venue[f] = None
  /\ resolveAmenities(f, wanted)
  /\ NameFree(form.name, f)
  /\ venue' = [venue EXCEPT ![f] = NewRow(form)]
  /\ offers' = [offers EXCEPT ![f] = wanted]
  /\ vector' = [vector EXCEPT ![f] = facility_search_vector(f, NewRow(form), wanted)]
  /\ UNCHANGED <<declared, writing, replacing, child, booked>>

\* An UPDATE of columns the search vector is not made of, and of those it is:
\* the trigger fires when the statement names one, changed or not.
Write(f, row) ==
  /\ venue' = [venue EXCEPT ![f] = row]
  /\ UNCHANGED <<declared, offers, vector, writing, replacing, child, booked>>

trg_facility_search_vector(f, row) ==
  /\ venue' = [venue EXCEPT ![f] = row]
  /\ vector' = [vector EXCEPT ![f] = facility_search_vector(f, row, offers[f])]
  /\ UNCHANGED <<declared, offers, writing, replacing, child, booked>>

\* PUT: every column of the form, whatever the status.
update(f, form) ==
  /\ Called
  /\ Exists(f)
  /\ NameFree(form.name, f)
  /\ trg_facility_search_vector(f,
       [venue[f] EXCEPT !.name = form.name, !.city = form.city,
                 !.price = form.price, !.pax = form.pax, !.place = form.place])

delete(f) ==
  /\ Called
  /\ Exists(f)
  /\ Write(f, [venue[f] EXCEPT !.deleted = TRUE])

\* block (the owner or an admin) and unblock (an admin).
setStatus(f, status, from) ==
  /\ Called
  /\ Exists(f)
  /\ venue[f].status \in from
  /\ Write(f, [venue[f] EXCEPT !.status = status])

block(f) == setStatus(f, "BLOCKED", {"PENDING", "APPROVED", "REJECTED"})
unblock(f) == setStatus(f, "APPROVED", {"BLOCKED"})

\* The list is replaced in one transaction, alone until another one commits.
setFacilityEvents(f, codes) ==
  /\ Called
  /\ Exists(f)
  /\ Cardinality(replacing) < MaxOpen
  /\ replacing' = replacing \cup {[venue |-> f, codes |-> codes, alone |-> TRUE]}
  /\ UNCHANGED <<venue, declared, offers, vector, writing, child, booked>>

\* Its DELETE waited for the rows it saw; a list committed meanwhile is made of
\* rows it did not see, and stays.
SetEvents(w) ==
  /\ declared' = [declared EXCEPT ![w.venue] = IF w.alone THEN w.codes ELSE @ \cup w.codes]
  /\ replacing' = {[x EXCEPT !.alone = @ /\ x.venue # w.venue] : x \in replacing \ {w}}
  /\ UNCHANGED <<venue, offers, vector, writing, child, booked, edits>>

\* One statement and its trigger, until the trigger waits for the venue's row:
\* the amenities it will index are those its snapshot shows, and its own.
Touch(f, amenity, shown) ==
  /\ Called
  /\ Exists(f)
  /\ Cardinality(writing) < MaxOpen
  /\ \A w \in writing : w.venue = f => w.amenity # amenity
  /\ writing' = writing \cup {[venue |-> f, amenity |-> amenity, shown |-> shown]}
  /\ UNCHANGED <<venue, declared, offers, vector, replacing, child, booked>>

\* An amenity the venue has already is a no-op: nothing is inserted, no trigger.
addAmenity(f, a) ==
  /\ resolveAmenities(f, {a})
  /\ a \notin offers[f]
  /\ Touch(f, a, offers[f] \cup {a})

removeAmenity(f, a) ==
  /\ a \in offers[f]
  /\ Touch(f, a, offers[f] \ {a})

\* The row is had, the vector written, and the statement committed.
trg_facility_amenity_search_vector(w) ==
  /\ writing' = writing \ {w}
  /\ offers' = [offers EXCEPT ![w.venue] =
                  IF w.amenity \in w.shown THEN @ \cup {w.amenity} ELSE @ \ {w.amenity}]
  /\ vector' = [vector EXCEPT ![w.venue] = facility_search_vector(w.venue, venue[w.venue], w.shown)]
  /\ UNCHANGED <<venue, declared, replacing, child, booked, edits>>

\* A room type with no stated total has one room.
createRoomType(r, form) ==
  /\ Called
  /\ Exists(At[r])
  /\ child[r] = None
  /\ child' = [child EXCEPT ![r] =
       [price |-> form.price, total |-> IF form.total = 0 THEN 1 ELSE form.total,
        deleted |-> FALSE]]
  /\ UNCHANGED <<venue, declared, offers, vector, writing, replacing, booked>>

\* createPackage and createAddon.
createExtra(x, price) ==
  /\ Called
  /\ Exists(At[x])
  /\ child[x] = None
  /\ child' = [child EXCEPT ![x] = [price |-> price, total |-> 1, deleted |-> FALSE]]
  /\ UNCHANGED <<venue, declared, offers, vector, writing, replacing, booked>>

softDeleteChild(c) ==
  /\ Called
  /\ Exists(At[c])
  /\ LiveChild(c)
  /\ child' = [child EXCEPT ![c].deleted = TRUE]
  /\ UNCHANGED <<venue, declared, offers, vector, writing, replacing, booked>>

--------------------------------------------------------------------------------
(* The admin's routes *)

\* From any status to any.
approveFacility(f, status) ==
  /\ Called
  /\ Exists(f)
  /\ Write(f, [venue[f] EXCEPT !.status = status])

\* blockUser, for a facility: a toggle.
toggleBlock(f) ==
  /\ Called
  /\ Exists(f)
  /\ Write(f, [venue[f] EXCEPT !.status = IF @ = "BLOCKED" THEN "APPROVED" ELSE "BLOCKED"])

\* patchFacility: only the columns the body names.  clearDiscount clears the
\* percentage and the expiry together; otherwise each is set alone, so a new
\* percentage keeps an expiry that may have passed.
patchFacility(f) ==
  /\ Called
  /\ Exists(f)
  /\ \/ \E name \in Names : NameFree(name, f) /\ trg_facility_search_vector(f, [venue[f] EXCEPT !.name = name])
     \/ \E city \in Cities : trg_facility_search_vector(f, [venue[f] EXCEPT !.city = city])
     \/ \E price \in Prices : Write(f, [venue[f] EXCEPT !.price = price])
     \/ \E pax \in Capacities : Write(f, [venue[f] EXCEPT !.pax = pax])
     \/ \E percent \in Percents : Write(f, [venue[f] EXCEPT !.percent = percent])
     \/ Write(f, [venue[f] EXCEPT !.until = "ahead"])
     \/ Write(f, [venue[f] EXCEPT !.percent = None, !.until = None])
     \/ Write(f, [venue[f] EXCEPT !.verified = ~@])

\* The offer's last instant passes.
OfferEnds(f) ==
  /\ Exists(f)
  /\ venue[f].until = "ahead"
  /\ Write(f, [venue[f] EXCEPT !.until = "past"])
  /\ UNCHANGED edits

--------------------------------------------------------------------------------
(* Bookings: what claims a venue's dates and rooms *)

\* The hall_availability rows of a hall and a date that are BOOKED; no statement
\* writes the third status of the column, BLOCKED.
SlotsTaken(h, day) == {b.slot : b \in {x \in booked : x.venue = h /\ day \in x.days}}

\* The rooms of a type booked for a night.
RoomsTaken(r, night) ==
  SumFunction([b \in {x \in booked : x.venue = At[r] /\ night \in x.days} |-> b.rooms[r]])

\* mutant: only the row of the same slot is in the way.
HallClaimableSlot(h, days, slot) == \A day \in days : slot \notin SlotsTaken(h, day)

\* CreateHallBooking, for each date: a FULL_DAY clashes with any slot, any slot
\* with a FULL_DAY, and the insert finds no row of the same slot.
HallClaimable(h, days, slot) ==
  \A day \in days :
    LET taken == SlotsTaken(h, day)
    IN /\ ~(taken # {} /\ ("FULL_DAY" \in taken \/ slot = "FULL_DAY"))
       /\ slot \notin taken

\* CreateHotelBooking, for each night and line: booked_rooms + quantity <= total_rooms.
RoomsClaimable(nights, rooms) ==
  \A r \in RoomTypes : rooms[r] > 0 =>
    \A night \in nights : RoomsTaken(r, night) + rooms[r] <= child[r].total

NoRooms == [r \in RoomTypes |-> 0]

NewId == Min((0..MaxEdits) \ {b.id : b \in booked})

\* A hotel can be booked for a day too: its slots are nothing to its rooms.
CreateHallBooking(h, days, slot) ==
  /\ Called
  /\ LiveSQL(h)
  /\ HallClaimable(h, days, slot)
  /\ booked' = booked \cup
       {[id |-> NewId, venue |-> h, days |-> days, slot |-> slot, rooms |-> NoRooms]}
  /\ UNCHANGED <<venue, declared, offers, vector, writing, replacing, child>>

\* Every line names a live room type of the hotel; at least one does.
CreateHotelBooking(h, nights, rooms) ==
  /\ Called
  /\ LiveSQL(h)
  /\ \E r \in RoomTypes : rooms[r] > 0
  /\ \A r \in RoomTypes : rooms[r] > 0 => At[r] = h /\ LiveChild(r)
  /\ RoomsClaimable(nights, rooms)
  /\ booked' = booked \cup
       {[id |-> NewId, venue |-> h, days |-> nights, slot |-> None, rooms |-> rooms]}
  /\ UNCHANGED <<venue, declared, offers, vector, writing, replacing, child>>

\* A booking cancelled, expired or rejected.
releaseInventory(b) ==
  /\ Called
  /\ booked' = booked \ {b}
  /\ UNCHANGED <<venue, declared, offers, vector, writing, replacing, child>>

--------------------------------------------------------------------------------

\* A stay is one date, or consecutive ones.
Stays == {a..b : a, b \in Days} \ {{}}

VenuesInit ==
  \E start \in Openings :
    /\ venue = start.venue
    /\ declared = start.declared
    /\ offers = start.offers
    /\ vector = [f \in Venue |-> IF start.venue[f] = None THEN {}
                  ELSE facility_search_vector(f, start.venue[f], start.offers[f])]
    /\ writing = {}
    /\ replacing = {}
    /\ child = start.child
    /\ booked = {}
    /\ edits = 0

Owner ==
  \/ \E f \in Venue, form \in Profiles, wanted \in SUBSET Amenities :
       createWithType(f, form, wanted)
  \/ \E f \in Venue, form \in Profiles : update(f, form)
  \/ \E f \in Venue : delete(f) \/ block(f)
  \/ \E f \in Venue, codes \in SUBSET EventTypes : setFacilityEvents(f, codes)
  \/ \E f \in Venue, a \in Amenities : addAmenity(f, a) \/ removeAmenity(f, a)
  \/ \E r \in RoomTypes, form \in Rooms : createRoomType(r, form)
  \/ \E x \in Extras, price \in Prices : createExtra(x, price)
  \/ \E c \in Children : softDeleteChild(c)

Admin ==
  \/ \E f \in Venue, status \in Statuses : approveFacility(f, status)
  \/ \E f \in Venue : toggleBlock(f) \/ unblock(f) \/ patchFacility(f)

Customer ==
  \/ \E h \in Venue, days \in Stays, slot \in Slots : CreateHallBooking(h, days, slot)
  \/ \E h \in Hotels, nights \in Stays, rooms \in Nightly : CreateHotelBooking(h, nights, rooms)
  \/ \E b \in booked : releaseInventory(b)

VenuesNext ==
  \/ Owner
  \/ Admin
  \/ Customer
  \/ \E w \in writing : trg_facility_amenity_search_vector(w)
  \/ \E w \in replacing : SetEvents(w)
  \/ \E f \in Venue : OfferEnds(f)

VenuesSpec == VenuesInit /\ [][VenuesNext]_venueVars

================================================================================
