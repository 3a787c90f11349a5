------------------------------- MODULE Catalogue -------------------------------
(***************************************************************************)
(* What the screens show of the venues table, and what a booking charges:  *)
(* search, its facets and its type-ahead (internal/search), the listing,   *)
(* the cards and the comparison (internal/facility), recommendations and   *)
(* the prices the booking service computes.  Each screen is a query of its *)
(* own over the rows of module Venues; the properties say they agree.      *)
(*                                                                         *)
(* A text is a set of words.  Two words are Near when PostgreSQL's trigram *)
(* similarity takes one for the other.                                     *)
(***************************************************************************)
EXTENDS Venues

CONSTANTS
  OldCities,   \* [old names of cities -> the name venues are stored under]
  Synonyms,    \* sets of words that stand for one another
  Short,       \* words of one or two letters
  Near,        \* pairs of different words within the typo threshold
  EventWords,  \* [words -> the event whose name they begin]
  Platform,    \* platform coupons in force: [code, kind, value, max, min, type]
  Searches,    \* searches a customer makes
  Typed        \* texts a customer types

ASSUME EventWordsAssumption == \A w \in DOMAIN EventWords : EventWords[w] \in EventTypes

\* What the coupon handler validates.
ASSUME PlatformAssumption ==
  \A c \in Platform :
    /\ c.kind \in {"PERCENT", "FLAT"} /\ c.value \in Nat
    /\ c.kind = "PERCENT" => c.value <= 100
    /\ c.max \in Nat \cup {None} /\ c.min \in Nat \cup {None}

\* Every parameter of a search has a value, an absent one that of NoFilter below.
ASSUME SearchesAssumption ==
  \A q \in Searches :
    /\ DOMAIN q = {"text", "city", "type", "event", "amenities", "paxLeast", "paxMost",
                   "atLeast", "atMost", "near", "stay"}
    /\ q.paxLeast \in Nat /\ q.paxMost \in Nat /\ q.atLeast \in Nat /\ q.atMost \in Nat
    /\ q.stay # None => q.stay.first \in Int /\ q.stay.last \in Int /\ q.stay.rooms \in Nat

--------------------------------------------------------------------------------
(* Matching: pkg/venuesearch *)

\* A city's stored name in lower case, given that or an old one.
City(name) ==
  LET c == LOWER(name) IN IF c \in DOMAIN OldCities THEN OldCities[c] ELSE c

Clean(text) == {City(w) : w \in text}

\* A word, and those it stands for.
Alternatives(w) == {w} \cup UNION {set \in Synonyms : w \in set}

\* The city filter: whatever the case it is stored in.
SameCity(f, city) == city = None \/ City(city) \in CityWord(venue[f])

haystack(f) == venue[f].name \cup CityWord(venue[f])

\* Every word, or one it stands for, is in the venue's vector, or nearly a word
\* of its name or city.
MatchSQL(text, f) ==
  \A w \in Clean(text) : \E a \in Alternatives(w) :
    a \in vector[f] \/ \E v \in haystack(f) : <<a, v>> \in Near

\* The phrase near the name or city: one word carries the rest.
LooseSQL(text, f) ==
  text = {} \/ \E w \in Clean(text) : w \in haystack(f) \/ \E v \in haystack(f) : <<w, v>> \in Near

--------------------------------------------------------------------------------
(* Search: GET /search/venues *)

\* What an absent parameter stands for.  A stay is None or
\* [first, last, slot, rooms], its slot None for any.
NoFilter == [text |-> {}, city |-> None, type |-> None, event |-> None, amenities |-> {},
             paxLeast |-> 0, paxMost |-> 0, atLeast |-> 0, atMost |-> 0,
             near |-> FALSE, stay |-> None]

\* The days a hall would be held, and the nights a room.
DaysOf(stay) == stay.first..stay.last
NightsOf(stay) == stay.first..(Max({stay.last, stay.first + 1}) - 1)

RoomsLeft(r, nights) == Min({child[r].total - RoomsTaken(r, n) : n \in nights})

\* availableSQL.
availableSQL(f, stay) ==
  IF f \in Hotels
  THEN LET types == {r \in RoomTypes : At[r] = f /\ LiveChild(r)}
       IN \/ types = {}
          \/ SumFunction([r \in types |-> RoomsLeft(r, NightsOf(stay))]) >= stay.rooms
  ELSE \A day \in DaysOf(stay) :
         LET taken == SlotsTaken(f, day)
         IN ~ CASE stay.slot = None -> "FULL_DAY" \in taken \/ {"MORNING", "EVENING"} \subseteq taken
                [] stay.slot = "FULL_DAY" -> taken # {}
                [] OTHER -> taken \cap {stay.slot, "FULL_DAY"} # {}

\* A venue that declares no event matches every one.
eventFilter(f, e) == e = None \/ e \in declared[f] \/ declared[f] = {}

\* No coordinates: kept, for it is not provably far.
radiusSQL(f) == venue[f].place # "far"

Priced(f) == venue[f].price # None

\* A bound of 0 is no bound; a venue that does not state the figure is within none.
Within(n, least, most) ==
  /\ least > 0 => n # None /\ n >= least
  /\ most > 0 => n # None /\ n <= most

where(q, f) ==
  /\ LiveSQL(f)
  /\ SameCity(f, q.city)
  /\ q.type \in {None, TypeOf(f)}
  /\ Within(venue[f].pax, q.paxLeast, q.paxMost)
  /\ Within(venue[f].price, q.atLeast, q.atMost)
  /\ q.amenities \subseteq offers[f]
  /\ eventFilter(f, q.event)
  /\ q.near => radiusSQL(f)
  /\ q.stay # None => availableSQL(f, q.stay)

Strict(q) == {f \in Venue : where(q, f) /\ MatchSQL(q.text, f)}
Loose(q) == {f \in Venue : where(q, f) /\ LooseSQL(q.text, f)}

\* The looser match only when no venue matches every word.
Relaxed(q) == q.text # {} /\ Strict(q) = {}
searchVenues(q) == IF Relaxed(q) THEN Loose(q) ELSE Strict(q)

Found(q) == Cardinality(searchVenues(q))

\* The words live venues' names and cities, and the amenities, are made of.
Vocabulary ==
  (Amenities \cup UNION {haystack(f) : f \in {g \in Venue : LiveSQL(g)}}) \ Short

\* Each unknown word replaced by a near known one; None when nothing changes.
\* A synonym or a short word is left alone.
correction(text) ==
  LET known(w) == w \in Vocabulary \cup Short \cup UNION Synonyms
      fixes(w) == {v \in Vocabulary : ~known(w) /\ <<w, v>> \in Near}
      fix(w)   == IF fixes(w) = {} THEN w ELSE CHOOSE v \in fixes(w) : TRUE
      fixed    == {fix(w) : w \in Clean(text)}
  IN IF fixed = Clean(text) THEN None ELSE fixed

\* Offered, never applied, and only when the corrected search finds something.
didYouMean(q) ==
  LET fixed == correction(q.text)
  IN IF Relaxed(q) /\ fixed # None /\ Strict([q EXCEPT !.text = fixed]) # {} THEN fixed ELSE None

--------------------------------------------------------------------------------
(* Facets: internal/search/handler/facets.go *)

\* The venues a facet counts over: the search's match, one filter lifted.
Over(q, relaxed) == IF relaxed THEN Loose(q) ELSE Strict(q)

typeFacet(q) ==
  LET found == Over([q EXCEPT !.type = None], Relaxed(q))
  IN [t \in {TypeOf(f) : f \in found} |-> Cardinality({f \in found : TypeOf(f) = t})]

\* mutant: only the venues that say they host the event are counted.
CountsForDeclared(f, e) == e \in declared[f]

\* A venue that declares no events counts toward every event.
CountsFor(f, e) == e \in declared[f] \/ declared[f] = {}

eventFacet(q) ==
  LET found == Over([q EXCEPT !.event = None], Relaxed(q))
  IN [e \in {x \in EventTypes : \E f \in found : CountsFor(f, x)} |->
        Cardinality({f \in found : CountsFor(f, e)})]

amenityFacet(q) ==
  LET found == Over(q, Relaxed(q))
  IN [a \in UNION {offers[f] : f \in found} |-> Cardinality({f \in found : a \in offers[f]})]

\* Over the search without its budget; empty when no venue publishes a price.
priceRange(q) ==
  {venue[f].price : f \in {g \in Over([q EXCEPT !.atLeast = 0, !.atMost = 0], Relaxed(q)) :
                             Priced(g)}}

--------------------------------------------------------------------------------
(* Type-ahead: internal/search/handler/suggest.go *)

\* The cities a word begins, or nearly is, whatever the case.
suggestedCities(text, cities) ==
  {c \in cities : \E w \in Clean(text) : w = LOWER(c) \/ <<w, LOWER(c)>> \in Near}

\* Grouped by the city as it is stored: two spellings are two cities.
CityCount(c) == Cardinality({f \in Venue : LiveSQL(f) /\ venue[f].city = c})

\* CITY rows: at most two, the fullest first; here, any of the cities offered.
citySuggestions(text) ==
  suggestedCities(text, {venue[f].city : f \in {g \in Venue : LiveSQL(g)}} \ {None})

\* The words name a type, or nothing but the city: then both types.
wantedTypes(text, city) ==
  LET named == {t \in DOMAIN TypeWord : Alternatives(TypeWord[t]) \cap text # {}}
  IN IF named = {} /\ text \cap DOMAIN EventWords = {} /\ city # None
          /\ Clean(text) = {LOWER(city)}
     THEN DOMAIN TypeWord ELSE named

\* The city as it is stored, not as a search compares it.
InCity(f, city) == city = None \/ venue[f].city = city

typeCategories(text, city) ==
  LET count(t) == Cardinality({f \in Venue : LiveSQL(f) /\ TypeOf(f) = t /\ InCity(f, city)})
  IN {[type |-> t, event |-> None, city |-> city, count |-> count(t)] :
        t \in {x \in wantedTypes(text, city) : count(x) > 0}}

eventCategories(text, city) ==
  LET count(e) == Cardinality({f \in Venue : LiveSQL(f) /\ InCity(f, city)
                                 /\ (e \in declared[f] \/ declared[f] = {})})
  IN {[type |-> None, event |-> e, city |-> city, count |-> count(e)] :
        e \in {EventWords[w] : w \in {x \in text \cap DOMAIN EventWords : count(EventWords[x]) > 0}}}

\* Categories are within the first of the cities, when one matched.
categories(text) ==
  UNION {typeCategories(text, c) \cup eventCategories(text, c) :
           c \in IF citySuggestions(text) = {} THEN {None} ELSE citySuggestions(text)}

venueSuggestions(text) == {f \in Venue : LiveSQL(f) /\ MatchSQL(text, f)}

--------------------------------------------------------------------------------
(* The other lists of venues *)

\* mutant: the event never reaches the list's WHERE.
ListWhereAnyEvent(type, event, city, f) ==
  /\ LiveSQL(f)
  /\ type \in {None, TypeOf(f)}
  /\ SameCity(f, city)

\* Repo.List: a customer's list, with the loose match when nothing matches.
listWhere(type, event, city, f) ==
  /\ LiveSQL(f)
  /\ type \in {None, TypeOf(f)}
  /\ SameCity(f, city)
  /\ event = None \/ event \in declared[f] \/ declared[f] = {}

List(type, event, city, text) ==
  LET strict == {f \in Venue : listWhere(type, event, city, f) /\ MatchSQL(text, f)}
  IN IF strict = {} /\ text # {}
     THEN {f \in Venue : listWhere(type, event, city, f) /\ LooseSQL(text, f)}
     ELSE strict

\* The lists of one type, and of both.
listWithType(type, q) == List(type, q.event, q.city, q.text)
listVenues(q) == listWithType(q.type, q)

\* Repo.Get, and the venue's page as a customer opens it.
Get(f) == Exists(f)
get(f) == Get(f) /\ LiveSQL(f)

\* mutant: ByIDs asks only that the row is not deleted.
ByIDsAny(ids) == {f \in ids : Exists(f)}

\* Repo.ByIDs.
ByIDs(ids) == {f \in ids : LiveSQL(f)}

\* CompareService.Compare: two or three venues of one type, all found, or nothing.
Compare(type, ids) ==
  IF Cardinality(ids) \in 2..3 /\ ByIDs(ids) = ids /\ \A f \in ids : TypeOf(f) = type
  THEN ids ELSE {}

mixedTypes(ids) == Cardinality({TypeOf(f) : f \in ids}) > 1

\* GET compare: the service's answer for one type, the plain one for a mix.
compare(ids) ==
  IF Cardinality(ids) \in 2..3 /\ ByIDs(ids) = ids
  THEN IF mixedTypes(ids) THEN ids ELSE Compare(TypeOf(CHOOSE f \in ids : TRUE), ids)
  ELSE {}

\* similar: the source may be any row; the results are live and of its type.
similar(f) == {g \in Venue \ {f} : LiveSQL(g) /\ venue[f] # None /\ TypeOf(g) = TypeOf(f)}

\* GetRecommendations: verified, and known to be near.
GetRecommendations(type, event) ==
  {f \in Venue : /\ LiveSQL(f)
                 /\ venue[f].verified
                 /\ venue[f].place = "near"
                 /\ type \in {None, TypeOf(f)}
                 /\ event = None \/ event \in declared[f] \/ declared[f] = {}}

\* popularCities, the half that ranks where venues are.
popularCities == {venue[f].city : f \in {g \in Venue : LiveSQL(g)}} \ {None}

--------------------------------------------------------------------------------
(* Cards: what a venue is said to cost *)

Round(n) == (n + 50) \div 100   \* math.Round of hundredths

\* FacilityCols: the starting price, and the discount while it lasts.
StartingPrice(f) ==
  IF f \in Halls THEN venue[f].price
  ELSE LET rooms == {child[r].price : r \in {x \in RoomTypes : At[x] = f /\ LiveChild(x)}}
       IN IF rooms = {} THEN None ELSE Min(rooms)

DiscountPercent(f) == IF venue[f].until = "past" THEN None ELSE venue[f].percent

\* applyDiscount; None when there is no discount or no price to apply it to.
applyDiscount(f) ==
  IF DiscountPercent(f) = None \/ StartingPrice(f) = None THEN None
  ELSE Round(StartingPrice(f) * (100 - DiscountPercent(f)))

Lesser(a, b) == IF a < b THEN a ELSE b

\* calcDiscount, for a starting price.
calcDiscount(c, price) ==
  IF c.kind = "FLAT" THEN Lesser(c.value, price)
  ELSE LET percent == Round(price * c.value)
       IN Lesser(IF c.max = None THEN percent ELSE Lesser(percent, c.max), price)

\* PopulateDiscounts: the best coupon that applies to the starting price.
bestCoupons(f) ==
  LET price == StartingPrice(f)
      apply == {c \in Platform : c.type \in {"ALL", TypeOf(f)} /\ price # None
                                  /\ (c.min # None => price >= c.min)}
  IN {c \in apply : \A d \in apply : calcDiscount(c, price) >= calcDiscount(d, price)}

\* ... and its amount, unless the venue's own discount is as large.
PopulateDiscounts(f) ==
  LET price == StartingPrice(f)
      own   == IF DiscountPercent(f) = None THEN 0 ELSE Round(price * DiscountPercent(f))
  IN [codes |-> bestCoupons(f),
      off   |-> Max({own} \cup {calcDiscount(c, price) : c \in bestCoupons(f)})]

\* buildVenueCompareDetail: the headline price of a comparison column.
comparePrice(f) ==
  LET rooms == {child[r].price : r \in {x \in RoomTypes : At[x] = f /\ LiveChild(x)}}
  IN IF f \in Hotels
     THEN IF StartingPrice(f) # None THEN StartingPrice(f)
          ELSE IF rooms = {} THEN None ELSE Min(rooms)
     ELSE IF venue[f].price # None THEN venue[f].price ELSE StartingPrice(f)

\* toCompareVenue: a column of a comparison of mixed types.
toCompareVenue(f) ==
  [startingPrice |-> StartingPrice(f), discountedPrice |-> applyDiscount(f)]

\* ToVenueResponse: a card, and the best coupon on it.
ToVenueResponse(f) ==
  [startingPrice |-> StartingPrice(f), discountedPrice |-> applyDiscount(f),
   coupons |-> PopulateDiscounts(f).codes,
   couponPrice |-> StartingPrice(f) - PopulateDiscounts(f).off]

\* amenityMatrix and computeAmenityMatrix: the rows of a comparison, and the
\* columns with a tick.
amenityMatrix(ids) == [a \in UNION {offers[f] : f \in ids} |-> {f \in ids : a \in offers[f]}]

\* The room types, packages and add-ons a venue's pages and comparison list.
listChildren(f) == {c \in Children : At[c] = f /\ child[c] # None /\ ~child[c].deleted}

--------------------------------------------------------------------------------
(* Checkout: internal/booking/service *)

\* mutant: an offer is charged after its end.
LastingDiscount(f) == venue[f].percent

\* ActiveDiscountSQL and DayRate.
ActiveDiscountSQL(f) == IF venue[f].until = "past" THEN None ELSE venue[f].percent

DayRate(base, percent) ==
  IF percent = None THEN base ELSE Round(base * (100 - percent))

\* CreateVenueBooking of a hall for one day; no price, nothing charged.
HallCharge(f) ==
  IF venue[f].price = None THEN 0 ELSE DayRate(venue[f].price, ActiveDiscountSQL(f))

\* CreateHotelBooking of one room for one night.
NightCharge(r) == DayRate(child[r].price, ActiveDiscountSQL(At[r]))

\* HostsEvent: a booking for an event is refused by a venue that lists others.
HostsEvent(f, e) == declared[f] # {} => e \in declared[f]

\* What a booking accepts a line of.
BookableChild(f, c) == At[c] = f /\ LiveChild(c)

\* The least a customer pays, before a coupon.
LeastCharge(f) ==
  IF f \in Halls THEN HallCharge(f)
  ELSE Min({NightCharge(r) : r \in {x \in RoomTypes : BookableChild(f, x)}})

--------------------------------------------------------------------------------
(* Properties *)

\* A facet is a promise: picking the type, event or amenity it lists leaves
\* exactly the number of venues it says, and the price range it draws holds
\* every venue of the search that publishes a price.  (A range whose upper end
\* is 0 is left out: the search takes both its ends for no bound.  So is a
\* search that found nothing word for word: it shows the facets of the loose
\* match, and picking one may then match strictly.)  And a comparison ticks
\* the venues the amenity's filter finds.
FacetsTell ==
  /\ \A a \in UNION {offers[f] : f \in Venue} :
       LET found == searchVenues([NoFilter EXCEPT !.amenities = {a}])
       IN \A ids \in SUBSET Venue :
            LET ticks == amenityMatrix(compare(ids))
            IN a \in DOMAIN ticks => ticks[a] = ids \cap found
  /\ \A q \in {s \in Searches : ~Relaxed(s)} :
       LET types     == typeFacet(q)
           events    == eventFacet(q)
           amenities == amenityFacet(q)
           prices    == priceRange(q)
           free      == [q EXCEPT !.atLeast = 0, !.atMost = 0]
       IN /\ \A t \in DOMAIN types : types[t] = Found([q EXCEPT !.type = t])
          /\ \A e \in DOMAIN events : events[e] = Found([q EXCEPT !.event = e])
          /\ \A a \in DOMAIN amenities :
               amenities[a] = Found([q EXCEPT !.amenities = @ \cup {a}])
          /\ prices # {} /\ Max(prices) > 0 =>
               searchVenues([q EXCEPT !.atLeast = Min(prices), !.atMost = Max(prices)])
                 = {f \in searchVenues(free) : Priced(f)}

\* A venue a date search shows has its dates to give, and one it hides has not:
\* a hall its slot, and a hotel that lists rooms some choice of as many rooms.
\* With no slot asked for, a hall is shown for one day exactly when some slot
\* can be claimed, and for several whenever one slot can be claimed on all; it
\* is also shown when a half is free on each day and no slot is free on all.
\* The rule of the search and the rule of the claim are two queries
\* (availableSQL, and the claims of the booking repository).  And a venue found
\* for an event takes a booking for it.
FoundIsBookable ==
  /\ \A q \in {s \in Searches : s.event # None} :
       \A f \in searchVenues(q) \cup GetRecommendations(q.type, q.event) : HostsEvent(f, q.event)
  /\ \A q \in {s \in Searches : s.stay # None}, f \in Venue :
    LET stay    == q.stay
        shown   == availableSQL(f, stay)
        lines   == {rooms \in [RoomTypes -> 0..stay.rooms] :
                      /\ SumFunction(rooms) = stay.rooms
                      /\ \A r \in RoomTypes : rooms[r] > 0 => BookableChild(f, r)}
    IN LiveSQL(f) =>
       /\ f \in Halls /\ stay.slot # None => (shown <=> HallClaimable(f, DaysOf(stay), stay.slot))
       /\ f \in Halls /\ stay.slot = None =>
            /\ (\E slot \in Slots : HallClaimable(f, DaysOf(stay), slot)) => shown
            /\ stay.first = stay.last /\ shown =>
                 \E slot \in Slots : HallClaimable(f, DaysOf(stay), slot)
       /\ f \in Hotels /\ (\E r \in RoomTypes : BookableChild(f, r)) =>
            (shown <=> \E rooms \in lines : RoomsClaimable(NightsOf(stay), rooms))

\* The live venues of a city are stored under one spelling of it.
OneSpelling(city) ==
  city = None \/ \A f \in Venue :
    LiveSQL(f) /\ LOWER(city) \in CityWord(venue[f]) => venue[f].city = city

\* What the type-ahead offers, the search finds: at least as many venues as it
\* says, and for a city exactly as many when its live venues share one spelling
\* (suggestions count the city as stored, a search folds its case).  The
\* corrected spelling leads somewhere; and the listing finds what the search
\* does.  A city stored under an old name is left out: the search asks for the
\* name it should have been stored under, and finds none of its venues.
SuggestionsLead ==
  /\ \A text \in Typed :
       /\ \A c \in {x \in citySuggestions(text) : LOWER(x) \notin DOMAIN OldCities} :
            LET found == Found([NoFilter EXCEPT !.city = c])
            IN found >= CityCount(c) /\ (found = CityCount(c) <=> OneSpelling(c))
       /\ \A s \in {x \in categories(text) : LOWER(x.city) \notin DOMAIN OldCities} :
            LET found == Found([NoFilter EXCEPT !.type = s.type, !.event = s.event, !.city = s.city])
            IN found >= s.count /\ (OneSpelling(s.city) => found = s.count)
       /\ venueSuggestions(text) \subseteq searchVenues([NoFilter EXCEPT !.text = text])
  /\ \A q \in Searches :
       /\ didYouMean(q) # None => ~Relaxed([q EXCEPT !.text = didYouMean(q)])
       /\ listVenues(q) =
            searchVenues([NoFilter EXCEPT !.type = q.type, !.event = q.event,
                            !.city = q.city, !.text = q.text])

\* A venue reaches customers only once an admin approves it, and leaves every
\* screen when it is rejected, blocked or deleted; what a screen lists, opens.
OnlyLiveShown ==
  LET live == {f \in Venue : Exists(f) /\ venue[f].status = "APPROVED"}
      ask  == (UNION {searchVenues(q) : q \in Searches})
              \cup (UNION {listWithType(type, q) : type \in DOMAIN TypeWord, q \in Searches})
              \cup (UNION {venueSuggestions(t) : t \in Typed})
              \cup (UNION {compare(ids) : ids \in SUBSET Venue})
              \cup (UNION {similar(f) : f \in Venue})
              \cup GetRecommendations(None, None)
  IN /\ ask \subseteq live
     /\ {f \in Venue : get(f)} = live
     /\ popularCities \subseteq {venue[f].city : f \in live}
==============================================================================
