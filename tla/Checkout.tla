------------------------------- MODULE Checkout --------------------------------
(***************************************************************************)
(* The booking forms (internal/booking/handler): what each is turned into, *)
(* what the booking service charges for it, and what the price preview of  *)
(* the review screen (quote.go) said it would charge.  The preview holds   *)
(* nothing and computes everything a second time, in code of its own.      *)
(*                                                                         *)
(* Times of the day are minutes, amounts whole units; the preview's fee    *)
(* and taxes are hundredths, as it rounds them.                            *)
(***************************************************************************)
EXTENDS Catalogue, Sequences

CONSTANTS
  Forms,       \* venue forms: [customer, first, last, start, end, slot, event, packages, coupons]
  RoomForms,   \* hotel forms: [customer, first, last, lines, coupons]
  MaxHallDays, \* the most days a form may span (14)
  MaxNights,   \* the most nights of a stay (30)
  MaxLines     \* the most lines of a form (20)

Minutes == 0..1439

\* What the preview answers.
PreviewRow == [slot : Slots, hallPrice : Int, discount : Int, total : Int, available : BOOLEAN]

ASSUME FormsAssumption ==
  /\ MaxHallDays \in Nat /\ MaxNights \in Nat /\ MaxLines \in Nat /\ IsFiniteSet(Platform) /\ None \notin PreviewRow
  /\ \A form \in Forms :
       /\ form.first \in Int /\ form.last \in Int
       /\ form.start \in Minutes \cup {None} /\ form.end \in Minutes \cup {None}
       /\ form.slot \in Slots \cup {None}
       /\ form.packages \subseteq Extras /\ form.coupons \subseteq Platform
  /\ \A form \in RoomForms :
       /\ form.first \in Int /\ form.last \in Int
       /\ form.lines \in Seq([type : RoomTypes, quantity : Int])
       /\ form.coupons \subseteq Platform

--------------------------------------------------------------------------------
(* A form's slot *)

Hour(t) == t \div 60

\* mutant: an event that runs past midnight ends in the morning.
SlotForOneDay(start, end) ==
  CASE start = None /\ end = None -> "FULL_DAY"
    [] start # None /\ end # None -> IF Hour(end) <= 12 THEN "MORNING"
                                     ELSE IF Hour(start) >= 12 THEN "EVENING" ELSE "FULL_DAY"
    [] start # None /\ end = None -> IF Hour(start) >= 12 THEN "EVENING" ELSE "MORNING"
    [] start = None /\ end # None -> IF Hour(end) <= 12 THEN "MORNING" ELSE "EVENING"

\* By the hours alone: the minutes are not looked at.
slotFor(start, end) ==
  CASE start = None /\ end = None -> "FULL_DAY"
    [] start # None /\ end # None -> IF Hour(end) <= Hour(start) THEN "FULL_DAY"
                                     ELSE IF Hour(end) <= 12 THEN "MORNING"
                                     ELSE IF Hour(start) >= 12 THEN "EVENING" ELSE "FULL_DAY"
    [] start # None /\ end = None -> IF Hour(start) >= 12 THEN "EVENING" ELSE "MORNING"
    [] start = None /\ end # None -> IF Hour(end) <= 12 THEN "MORNING" ELSE "EVENING"

\* A slot that is named wins over the hours.
SlotOf(form) == IF form.slot # None THEN form.slot ELSE slotFor(form.start, form.end)

--------------------------------------------------------------------------------
(* Booking *)

\* pkg/coupon.Check of a platform coupon.
Check(c, f, amount) ==
  /\ c.type \in {"ALL", TypeOf(f)}
  /\ c.min # None => amount >= c.min

\* PriceCoupons of platform coupons: one at most, and it must apply.
PriceCoupons(coupons, f, amount) ==
  IF coupons = {} THEN 0
  ELSE IF Cardinality(coupons) = 1 /\ \A c \in coupons : Check(c, f, amount)
       THEN SumFunction([c \in coupons |-> calcDiscount(c, amount)])
       ELSE None

PackagesSum(packages) == SumFunction([x \in packages |-> child[x].price])

\* What createVenue hands the service, or refuses.
createVenue(f, form) ==
  /\ form.customer
  /\ form.first <= form.last
  /\ form.event # None => HostsEvent(f, form.event)
  /\ Cardinality(form.coupons) <= 2

\* CreateVenueBooking up to the transaction: the row it would insert, or None.
CreateVenueBooking(f, form) ==
  LET days  == form.last - form.first + 1
      base  == IF venue[f].price = None THEN 0 ELSE venue[f].price
      rate  == DayRate(base, ActiveDiscountSQL(f))
      total == rate * days + PackagesSum(form.packages)
      off   == PriceCoupons(form.coupons, f, total)
  IN IF /\ LiveSQL(f)
        /\ days <= MaxHallDays
        /\ \A x \in form.packages : BookableChild(f, x)
        /\ off # None
     THEN [slot |-> SlotOf(form), amount |-> total - off, discount |-> (base - rate) * days + off]
     ELSE None

createHotel(form) ==
  /\ form.customer
  /\ form.lines # <<>>
  /\ Cardinality(form.coupons) <= 2

\* The lines' sum of what one room of each line comes to.
LinesSum(lines, each(_)) ==
  SumFunction([i \in DOMAIN lines |-> lines[i].quantity * each(lines[i].type)])

\* CreateHotelBooking up to the transaction: every night of every line at its
\* rate, and what the rate spares.  Two lines may name one room type.
CreateRoomsBooking(f, form) ==
  LET nights   == form.last - form.first
      saved(r) == child[r].price - NightCharge(r)
      total    == nights * LinesSum(form.lines, NightCharge)
      off      == PriceCoupons(form.coupons, f, total)
  IN IF /\ nights \in 1..MaxNights /\ Len(form.lines) <= MaxLines
        /\ LiveSQL(f) /\ f \in Hotels
        /\ \A i \in DOMAIN form.lines :
             form.lines[i].quantity > 0 /\ BookableChild(f, form.lines[i].type)
        /\ off # None
     THEN [amount |-> total - off, discount |-> nights * LinesSum(form.lines, saved) + off]
     ELSE None

--------------------------------------------------------------------------------
(* The preview: POST /bookings/quote *)

\* The day rate and the packages, before coupons; and the venue's own discount.
hallPrice(f, form) ==
  LET days == form.last - form.first + 1
  IN (IF venue[f].price = None THEN 0
      ELSE days * DayRate(venue[f].price, ActiveDiscountSQL(f))) + PackagesSum(form.packages)

venueDiscount(f, form) ==
  IF venue[f].price = None THEN 0
  ELSE (form.last - form.first + 1)
         * (venue[f].price - DayRate(venue[f].price, ActiveDiscountSQL(f)))

\* The fee and the tax on it, in hundredths, on the price after coupons.
serviceFee(price) == 2 * price
taxes(price) == Round(18 * (100 * price + serviceFee(price)))

\* mutant: a day with any slot taken is shown as taken.
AvailableWhole(f, days, slot) == \A day \in days : SlotsTaken(f, day) = {}

\* Only rows of the same slot: a half-day does not hide the whole day.
available(f, days, slot) == \A day \in days : slot \notin SlotsTaken(f, day)

quote(f, form) ==
  LET listed == hallPrice(f, form)
      off    == PriceCoupons(form.coupons, f, listed)
      price  == listed - off
  IN IF /\ form.first <= form.last
        /\ LiveSQL(f)
        /\ \A x \in form.packages : BookableChild(f, x)
        /\ Cardinality(form.coupons) <= 2
        /\ off # None
     THEN [slot |-> SlotOf(form), hallPrice |-> price,
           discount |-> venueDiscount(f, form) + off,
           total |-> 100 * price + serviceFee(price) + taxes(price),
           available |-> available(f, form.first..form.last, SlotOf(form))]
     ELSE None

--------------------------------------------------------------------------------
(* Properties *)

\* What a booking of the cheapest thing charges is what the venue's card says:
\* the struck-through price while the offer lasts and the starting price
\* otherwise, as the comparison shows it.  A coupon the card advertises takes
\* off at least what the card says (within the rounding of a unit), or is
\* refused: that is when the venue has an offer of its own which takes the
\* price under the coupon's minimum.  The card tests the minimum against the
\* full price, checkout against the discounted one.
CardIsCharged ==
  \A f \in {g \in Venue : LiveSQL(g) /\ StartingPrice(g) # None} :
    LET card   == ToVenueResponse(f)
        charge == LeastCharge(f)
    IN
    /\ charge = IF card.discountedPrice = None THEN card.startingPrice ELSE card.discountedPrice
    /\ toCompareVenue(f).startingPrice = comparePrice(f)
    /\ comparePrice(f) = card.startingPrice
    /\ \A c \in card.coupons :
         LET off == PriceCoupons({c}, f, charge)
         IN /\ off = None => DiscountPercent(f) # None /\ c.min # None /\ charge < c.min
            /\ off # None => charge - off <= card.couponPrice + 1
    /\ listChildren(f) = {c \in Children : BookableChild(f, c)}

\* The slots of other bookings that stop a claim although the preview, which
\* looks at its own slot alone, does not see them.
Overlapped(f, day, slot) ==
  IF slot = "FULL_DAY" THEN SlotsTaken(f, day) \ {slot} # {} ELSE "FULL_DAY" \in SlotsTaken(f, day)

\* Whatever is booked was previewed, for the same slot, at the same hall price
\* and with the same discounts: it is the hall price that is charged.  The
\* total the preview ends with is more (by a 2% fee and the 18% tax on both)
\* unless nothing is charged.  And a slot can be claimed exactly when the
\* preview calls it available and no other slot overlaps it.
PreviewIsCharged ==
  \A f \in Venue, form \in Forms :
    LET charge == CreateVenueBooking(f, form)
        shown  == quote(f, form)
        days   == form.first..form.last
    IN createVenue(f, form) /\ charge # None =>
         /\ shown # None
         /\ shown.slot = charge.slot
         /\ shown.hallPrice = charge.amount
         /\ shown.discount = charge.discount
         /\ shown.total >= 100 * charge.amount
         /\ shown.total = 100 * charge.amount <=> charge.amount = 0
         /\ HallClaimable(f, days, charge.slot) <=>
              shown.available /\ ~ \E day \in days : Overlapped(f, day, charge.slot)

\* What a booking of rooms stores as taken off is what it was spared: with the
\* amount it makes the listed price of its nights, and neither is negative.
RoomsAddUp ==
  \A f \in Hotels, form \in RoomForms :
    LET charge    == CreateRoomsBooking(f, form)
        listed(r) == child[r].price
    IN createHotel(form) /\ charge # None =>
         /\ charge.amount >= 0 /\ charge.discount >= 0
         /\ charge.amount + charge.discount =
              (form.last - form.first) * LinesSum(form.lines, listed)

Timed == {form \in Forms : form.slot = None /\ form.start # None /\ form.end # None}

\* The minutes of a day an event is on for; past midnight, up to it.
Span(form) ==
  form.start .. (IF form.end <= form.start THEN 1439 ELSE form.end - 1)

\* An event on before noon and after it takes the whole day, unless it is over
\* by 13:00 (slotFor compares hours: an end at 12:59 is still a MORNING, a
\* start at 12:00 an EVENING).  So the two halves of one hall's day are sold to
\* events that are on together exactly when the morning's ends, in the hour
\* after noon, after the evening's began.
HoursApart ==
  /\ \A e \in Timed :
       e.start < 720 /\ 720 < e.end =>
         SlotOf(e) = IF e.end < 780 THEN "MORNING" ELSE "FULL_DAY"
  /\ \A e, g \in Timed :
       SlotOf(e) = "MORNING" /\ SlotOf(g) = "EVENING" =>
         /\ Span(e) \cap Span(g) \subseteq 720..779
         /\ Span(e) \cap Span(g) # {} <=> g.start < e.end

\* Checkout keeps what the card, the preview and the form said.
CheckoutKept == CardIsCharged /\ PreviewIsCharged /\ RoomsAddUp /\ HoursApart
================================================================================
