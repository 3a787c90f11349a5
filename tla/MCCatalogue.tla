----------------------------- MODULE MCCatalogue -----------------------------
(***************************************************************************)
(* Two halls and a hotel.  In one catalogue a hall and the hotel are       *)
(* approved and the other hall not there yet; in the other all three are   *)
(* live, a hall says it hosts anything, and the hotel has two room types.  *)
(* Eleven booking forms are previewed and charged in every state.          *)
(***************************************************************************)
EXTENDS Checkout, TLC

CONSTANTS h1, h2, t1, r1, r2, x1

MCAt == (r1 :> t1) @@ (r2 :> t1) @@ (x1 :> h1)

Form(name, city, price, pax, place) ==
  [name |-> name, city |-> city, price |-> price, pax |-> pax, place |-> place]

MCNames == {{"lotus"}}
MCProfiles == {Form({"grand", "palace"}, "Mysuru", 90, None, "unknown"),
               Form({"lotus"}, None, None, 300, "near")}

MCApplies == ("parking" :> {"MARRIAGE_HALL", "HOTEL"}) @@ ("mandap" :> {"MARRIAGE_HALL"})

MCRooms == {[price |-> 40, total |-> 0]}
MCNightly == {[r \in RoomTypes |-> IF r = r1 THEN 1 ELSE 0], [r \in RoomTypes |-> 1]}

Approved(name, city, price, place, percent, until) ==
  [name |-> name, city |-> city, price |-> price, pax |-> 300, place |-> place,
   status |-> "APPROVED", verified |-> TRUE, deleted |-> FALSE,
   percent |-> percent, until |-> until]

Small ==
  [venue    |-> (h1 :> Approved({"grand", "palace"}, "bengaluru", 50, "far", 15, "ahead"))
                @@ (h2 :> None)
                @@ (t1 :> Approved({"palace"}, "mysuru", None, "near", None, None)),
   declared |-> (h1 :> {"WEDDING"}) @@ (h2 :> {}) @@ (t1 :> {}),
   offers   |-> (h1 :> {"parking"}) @@ (h2 :> {}) @@ (t1 :> {}),
   child    |-> (r1 :> [price |-> 70, total |-> 2, deleted |-> FALSE]) @@ (r2 :> None)
                @@ (x1 :> None)]

Large ==
  [venue    |-> [Small.venue EXCEPT ![h1].until = None,
                                    ![h2] = Approved({"lotus"}, "mysuru", 90, "near", None, None),
                                    ![t1] = Approved({"palace"}, "mysuru", 60, "near", 50, "ahead")],
   declared |-> [Small.declared EXCEPT ![t1] = {"SANGEET"}],
   offers   |-> [Small.offers EXCEPT ![h2] = {"parking", "mandap"}],
   child    |-> [Small.child EXCEPT ![r2] = [price |-> 40, total |-> 1, deleted |-> FALSE],
                                    ![x1] = [price |-> 50, total |-> 1, deleted |-> FALSE]]]

MCOpenings == {Small, Large}

MCLower == "Mysuru" :> "mysuru"
MCOldCities == "bangalore" :> "bengaluru"
MCNear == {<<"palce", "palace">>, <<"mysur", "mysuru">>}
MCEventWords == "sangeet" :> "SANGEET"
MCPlatform == {[code |-> "PCT", kind |-> "PERCENT", value |-> 20, max |-> 9, min |-> None, type |-> "ALL"],
               [code |-> "FLAT", kind |-> "FLAT", value |-> 12, max |-> None, min |-> 60,
                type |-> "HOTEL"]}

Stay(first, last, slot, rooms) == [first |-> first, last |-> last, slot |-> slot, rooms |-> rooms]

\* One filter, and the pairs whose filters meet in a facet.
MCSearches ==
  {NoFilter,
   [NoFilter EXCEPT !.type = "HOTEL"],
   [NoFilter EXCEPT !.event = "WEDDING"],
   [NoFilter EXCEPT !.type = "MARRIAGE_HALL", !.event = "SANGEET"],
   [NoFilter EXCEPT !.amenities = {"parking"}, !.event = "WEDDING"],
   [NoFilter EXCEPT !.atLeast = 60],
   [NoFilter EXCEPT !.atMost = 60, !.type = "MARRIAGE_HALL", !.paxMost = 200],
   [NoFilter EXCEPT !.near = TRUE, !.paxLeast = 200],
   [NoFilter EXCEPT !.city = "bangalore"],
   [NoFilter EXCEPT !.text = {"grand", "palce"}],
   [NoFilter EXCEPT !.text = {"palace", "mysuru"}, !.type = "HOTEL"],
   [NoFilter EXCEPT !.text = {"parking"}],
   [NoFilter EXCEPT !.text = {"lotus", "mysur"}],
   [NoFilter EXCEPT !.stay = Stay(1, 1, None, 1)],
   [NoFilter EXCEPT !.stay = Stay(1, 2, "MORNING", 2)],
   [NoFilter EXCEPT !.stay = Stay(2, 2, "FULL_DAY", 3)]}

MCTyped == {{"banquet"}, {"bangalore"}, {"mysur"}, {"sangeet", "bengaluru"}, {"palce"}}

Booking(first, last, start, end, slot, packages, coupons) ==
  [customer |-> TRUE, first |-> first, last |-> last, start |-> start, end |-> end,
   slot |-> slot, event |-> None, packages |-> packages, coupons |-> coupons]

Percent == {c \in MCPlatform : c.kind = "PERCENT"}

\* Minutes: 570 is 9:30, 765 is 12:45, 1380 is 23:00.
MCForms ==
  {Booking(1, 1, None, None, None, {}, {}),
   Booking(1, 2, None, None, "FULL_DAY", {x1}, Percent),
   Booking(2, 2, 570, 765, None, {}, {}),
   Booking(2, 2, 720, 900, None, {x1}, MCPlatform \ Percent),
   Booking(1, 2, 690, 780, None, {}, Percent),
   Booking(1, 1, 1380, 90, None, {}, {}),
   Booking(1, 1, 1200, 1410, None, {}, {}),
   Booking(1, 1, 900, 1380, "MORNING", {}, MCPlatform),
   Booking(2, 1, None, 600, None, {}, {}),
   [Booking(1, 1, 840, None, None, {}, {}) EXCEPT !.event = "WEDDING"],
   [Booking(1, 1, None, 840, None, {}, {}) EXCEPT !.customer = FALSE]}

Rooming(first, last, lines, coupons) ==
  [customer |-> TRUE, first |-> first, last |-> last, lines |-> lines, coupons |-> coupons]

Line(type, quantity) == [type |-> type, quantity |-> quantity]

\* The second names one room type twice; the fourth stays a night too long.
MCRoomForms ==
  {Rooming(1, 2, <<Line(r1, 1), Line(r2, 1)>>, {}),
   Rooming(1, 3, <<Line(r1, 1), Line(r1, 1)>>, Percent),
   Rooming(1, 2, <<Line(r2, 1)>>, MCPlatform \ Percent),
   Rooming(1, 4, <<Line(r1, 1)>>, {})}

================================================================================
