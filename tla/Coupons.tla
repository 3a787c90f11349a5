-------------------------------- MODULE Coupons --------------------------------
(***************************************************************************)
(* Coupons: their administration (internal/coupon/handler), what they are  *)
(* worth (pkg/coupon), and the transactions of a booking that redeem and   *)
(* release them.                                                           *)
(*                                                                         *)
(* A checkout prices its codes first, outside any transaction, and redeems *)
(* them later, one conditional UPDATE per coupon, holding each row's lock  *)
(* until it commits; meanwhile owners and admins edit, delete and add      *)
(* coupons and time passes.  The admin routes look for another active      *)
(* coupon in one statement and write in the next, so they are two steps.   *)
(***************************************************************************)
EXTENDS Integers, Sequences, FiniteSetsExt, SequencesExt

CONSTANTS
  Ids,          \* coupon ids the INSERT may generate
  Venues,
  VenueType,    \* [Venues -> {"MARRIAGE_HALL", "HOTEL"}]
  OwnerOf,      \* [Venues -> Owners]
  Owners,       \* hall owners
  Vendors,      \* the owners who have a vendors row
  Admins,
  Codes,        \* the strings on coupons
  Drafts,       \* request bodies of the create and save routes
  Carts,        \* what a customer checks out: [venue, codes, amount]
  Amounts,      \* amounts a customer may ask a price for
  Checkouts,
  Away,         \* the venues a customer's position proves to be beyond the radius
  FirstInstant, LastInstant,   \* the bounds on the clock
  None          \* an absent optional field, JSON null or SQL NULL

VARIABLES
  row,          \* [Ids -> coupons row, or None]
  venue,        \* [Venues -> "live", "hidden" (not APPROVED) or "deleted"]
  now,          \* the clock, in instants: a day is two of them
  write,        \* [Admins -> the write whose check has passed, or None]
  checkout,     \* [Checkouts -> the request's progress]
  lock,         \* [Ids -> the checkout whose transaction holds the row, or None]
  announced     \* coupons announced to customers (OnCouponCreated)

vars == <<row, venue, now, write, checkout, lock, announced>>

Callers == Owners \cup Admins

\* A request body as its JSON decodes: the scope of venue or type, the rest
\* validated by ValidDraft.  Nothing bounds the minimum and the limit.
Optional(S) == S \cup {None}

DraftType ==
  [code : Codes, kind : {"PERCENT", "FLAT"}, value : Int, max : Optional(Int),
   min : Optional(Int), from : Optional(Int), until : Optional(Int), limit : Optional(Int),
   active : BOOLEAN, facility : Optional(Venues),
   appliesTo : {None, "HALL", "HOTEL", "ALL"}]

CouponType ==
  [code : Codes, kind : {"PERCENT", "FLAT"}, value : Nat, max : Optional(Nat),
   min : Optional(Int), from : Optional(Int), until : Optional(Int), limit : Optional(Int),
   active : BOOLEAN, vendor : Optional(Vendors), facility : Optional(Venues),
   type : {None, "MARRIAGE_HALL", "HOTEL", "ALL"}, deleted : BOOLEAN, used : Nat]

CartType == [venue : Venues, codes : Seq(Codes), amount : Int]

\* None is an absent value and nothing else; a customer may ask a price for an
\* amount as large as any coupon's minimum.
ASSUME CouponsAssumption ==
  /\ Drafts \subseteq DraftType
  /\ Carts \subseteq CartType
  /\ VenueType \in [Venues -> {"MARRIAGE_HALL", "HOTEL"}]
  /\ Away \subseteq Venues
  /\ Vendors \subseteq Owners
  /\ Amounts \subseteq Nat /\ Amounts # {}
  /\ \A d \in Drafts : d.min # None => \E amount \in Amounts : amount >= d.min
  /\ FirstInstant \in Int /\ LastInstant \in Int
  /\ None \notin Venues \cup Vendors \cup Checkouts \cup Int \cup CouponType
  /\ None \notin {"HALL", "MARRIAGE_HALL", "HOTEL", "ALL"}

--------------------------------------------------------------------------------
(* Request bodies *)

\* parseWhen: a bare date is a whole day, from its first instant to its last.
Begins(day) == IF day = None THEN None ELSE 2 * day
Ends(day) == IF day = None THEN None ELSE 2 * day + 1

\* appliesTo to facility_type: an omitted value means halls, never everywhere.
AdminScope(appliesTo) ==
  IF appliesTo \in {None, "HALL"} THEN "MARRIAGE_HALL" ELSE appliesTo

\* couponReq.validateInto.
ValidDraft(d) ==
  /\ d.value > 0
  /\ d.kind = "PERCENT" => d.value <= 100
  /\ d.max # None => d.max > 0
  /\ (d.from # None /\ d.until # None) => Begins(d.from) < Ends(d.until)

\* The row both inserts write.
NewRow(d, vendor, facility, type) ==
  [code |-> d.code, kind |-> d.kind, value |-> d.value, max |-> d.max, min |-> d.min,
   from |-> Begins(d.from), until |-> Ends(d.until), limit |-> d.limit, active |-> d.active,
   vendor |-> vendor, facility |-> facility, type |-> type, deleted |-> FALSE, used |-> 0]

Exists(i) == row[i] # None /\ ~row[i].deleted

\* uq_coupons_code: the codes of coupons not deleted are distinct.
CodeFree(code, i) == \A j \in Ids \ {i} : Exists(j) => row[j].code # code

--------------------------------------------------------------------------------
(* What a coupon is worth: pkg/coupon *)

\* LiveSQL.
Live(i) ==
  /\ Exists(i)
  /\ row[i].active
  /\ row[i].from # None => row[i].from <= now
  /\ row[i].until # None => now <= row[i].until

UsesLeft(i) == row[i].limit # None => row[i].used < row[i].limit

\* AppliesSQL: the most specific scope wins, nothing applies at a deleted venue.
Applies(i, v) ==
  /\ venue[v] # "deleted"
  /\ IF row[i].vendor # None \/ row[i].facility # None
     THEN row[i].facility = v
     ELSE row[i].type \in {"ALL", VenueType[v]}

Scope(i) ==
  IF row[i].type # None \/ (row[i].vendor = None /\ row[i].facility = None)
  THEN "ADMIN" ELSE "VENDOR"

Load(code) == {i \in Ids : Live(i) /\ row[i].code = code}

Check(i, v, amount) ==
  /\ Applies(i, v)
  /\ UsesLeft(i)
  /\ row[i].min # None => amount >= row[i].min

Lesser(a, b) == IF a < b THEN a ELSE b

\* Rounded to whole units; max_discount caps a percentage only.
DiscountUncapped(i, amount) ==   \* mutant: not bounded by the amount
  IF row[i].kind = "PERCENT" THEN (amount * row[i].value + 50) \div 100 ELSE row[i].value

Discount(i, amount) ==
  LET percent == (amount * row[i].value + 50) \div 100
      capped  == IF row[i].max = None THEN percent ELSE Lesser(percent, row[i].max)
  IN Lesser(IF row[i].kind = "PERCENT" THEN capped ELSE row[i].value, amount)

\* PriceCoupons, its refusals: codes repeated or more than two, a code that is
\* not live, one that fails Check on the whole amount, two of one scope.
Priceable(codes, v, amount) ==
  /\ Len(codes) <= 2
  /\ IsInjective(codes)
  /\ \A k \in DOMAIN codes : \E i \in Load(codes[k]) : Check(i, v, amount)
  /\ \A i, j \in UNION {Load(codes[k]) : k \in DOMAIN codes} :
       Scope(i) = Scope(j) => i = j

\* PriceCoupons, its result: the owner's coupon first, the admin's on the rest.
Priced(codes, v, amount) ==
  LET ids    == UNION {Load(codes[k]) : k \in DOMAIN codes}
      vendor == SetToSeq({i \in ids : Scope(i) = "VENDOR"})
      admin  == SetToSeq({i \in ids : Scope(i) = "ADMIN"})
      off    == IF vendor = <<>> THEN 0 ELSE Discount(vendor[1], amount)
  IN [k \in DOMAIN vendor |-> [id |-> vendor[k], discount |-> off]] \o
     [k \in DOMAIN admin |-> [id |-> admin[k], discount |-> Discount(admin[k], amount - off)]]

Total(applied) == SumFunction([k \in DOMAIN applied |-> applied[k].discount])

--------------------------------------------------------------------------------
(* What each screen lists *)

\* GET /coupons and GET /admin/coupons: a vendor's own, an admin's all, and on
\* the admin route the platform coupons.
Matches(caller, i) == caller \in Admins \/ row[i].vendor = caller

Listed(caller) ==
  IF caller \in Admins \cup Vendors THEN {i \in Ids : Exists(i) /\ Matches(caller, i)} ELSE {}

\* GET /coupons/offers at a venue.
OffersExhausted(v) ==   \* mutant: a coupon used up is still shown
  IF venue[v] = "deleted" THEN {} ELSE {i \in Ids : Live(i) /\ Applies(i, v)}

OffersOfVenue(v) ==
  IF venue[v] = "deleted" THEN {} ELSE {i \in Ids : Live(i) /\ UsesLeft(i) /\ Applies(i, v)}

\* The same with no venue: the platform coupons of one venue type.
PlatformOffers(type) == {i \in Ids : Live(i) /\ UsesLeft(i) /\ row[i].type \in {type, "ALL"}}

\* GET /coupons/available: one venue's cards, or with no venue those of the
\* venues not proved to be far away.
OfLiveVenue(i) == row[i].facility # None => venue[row[i].facility] = "live"

CardsOfVenue(v) ==
  IF venue[v] = "deleted" THEN {}
  ELSE {i \in Ids : /\ Live(i) /\ UsesLeft(i) /\ OfLiveVenue(i)
                    /\ IF row[i].vendor # None \/ row[i].facility # None
                       THEN row[i].facility = v
                       ELSE row[i].type \in {"ALL", VenueType[v]}}

CardsNear(type) ==
  {i \in Ids : /\ Live(i) /\ UsesLeft(i) /\ OfLiveVenue(i)
               /\ row[i].facility \notin Away
               /\ \/ type = None
                  \/ row[i].type \in {"ALL", type}
                  \/ row[i].facility # None /\ VenueType[row[i].facility] = type}

--------------------------------------------------------------------------------
(* Administration *)

Init ==
  /\ row = [i \in Ids |-> None]
  /\ venue = [v \in Venues |-> "live"]
  /\ now = FirstInstant
  /\ write = [a \in Admins |-> None]
  /\ checkout = [b \in Checkouts |-> [at |-> "idle"]]
  /\ lock = [i \in Ids |-> None]
  /\ announced = {}

Insert(i, r) ==
  /\ row[i] = None
  /\ CodeFree(r.code, i)
  /\ row' = [row EXCEPT ![i] = r]

\* vendorOf, then the venue must exist, and be the vendor's own.
MayScope(caller, v) ==
  /\ venue[v] # "deleted"
  /\ \/ caller \in Admins
     \/ caller \in Vendors /\ OwnerOf[v] = caller

\* POST /coupons.  A coupon of a venue is announced as soon as it is active.
Create(caller, i, d) ==
  /\ ValidDraft(d)
  /\ d.facility # None
  /\ MayScope(caller, d.facility)
  /\ Insert(i, NewRow(d, IF caller \in Admins THEN None ELSE caller, d.facility, None))
  /\ announced' = IF d.active THEN announced \cup {i} ELSE announced
  /\ UNCHANGED <<venue, now, write, checkout, lock>>

\* The EXISTS of adminCreate and of save: another platform coupon that is
\* active and not over, begun or not.
OtherActive(i) ==
  \E j \in Ids \ {i} :
    /\ Exists(j)
    /\ row[j].type # None
    /\ row[j].active
    /\ row[j].until # None => row[j].until >= now

\* POST /admin/coupons, up to its INSERT.
AdminCreateCheck(a, i, d) ==
  /\ write[a] = None
  /\ row[i] = None
  /\ ValidDraft(d)
  /\ d.facility = None
  /\ d.active => ~OtherActive(i)
  /\ write' = [write EXCEPT ![a] = [op |-> "create", id |-> i, draft |-> d]]
  /\ UNCHANGED <<row, venue, now, checkout, lock, announced>>

\* usableNow: announced to every customer only if the code works today.
UsableNow(d) ==
  /\ d.active
  /\ d.from # None => Begins(d.from) <= now
  /\ d.until # None => Ends(d.until) > now

AdminCreate(a) ==
  /\ write[a] # None /\ write[a].op = "create"
  /\ LET i == write[a].id
         d == write[a].draft
     IN /\ Insert(i, NewRow(d, None, None, AdminScope(d.appliesTo)))
        /\ announced' = IF UsableNow(d) THEN announced \cup {i} ELSE announced
  /\ write' = [write EXCEPT ![a] = None]
  /\ UNCHANGED <<venue, now, checkout, lock>>

\* PUT /admin/coupons/{id}, up to its UPDATE.
AdminSaveCheck(a, i, d) ==
  /\ write[a] = None
  /\ ValidDraft(d)
  /\ d.facility = None
  /\ d.active => ~OtherActive(i)
  /\ write' = [write EXCEPT ![a] = [op |-> "save", id |-> i, draft |-> d]]
  /\ UNCHANGED <<row, venue, now, checkout, lock, announced>>

\* The UPDATE of save rewrites every column but the scope and the count of a row
\* not deleted; it waits for a checkout that holds the row.
Rewrite(i, d) ==
  row' = [row EXCEPT ![i] = [NewRow(d, @.vendor, @.facility, @.type) EXCEPT !.used = row[i].used]]

Update(caller, i, d, platform) ==
  /\ Exists(i) /\ Matches(caller, i)
  /\ platform => row[i].type # None
  /\ lock[i] = None
  /\ CodeFree(d.code, i)
  /\ Rewrite(i, d)

AdminSave(a) ==
  /\ write[a] # None /\ write[a].op = "save"
  /\ Update(a, write[a].id, write[a].draft, TRUE)
  /\ write' = [write EXCEPT ![a] = None]
  /\ UNCHANGED <<venue, now, checkout, lock, announced>>

\* A code taken or a coupon gone since the check: an error, nothing written.
AdminRefused(a) ==
  /\ write[a] # None
  /\ \/ ~CodeFree(write[a].draft.code, write[a].id)
     \/ write[a].op = "create" /\ row[write[a].id] # None
     \/ write[a].op = "save" /\ ~Exists(write[a].id)
     \/ write[a].op = "save" /\ Exists(write[a].id) /\ row[write[a].id].type = None
  /\ write' = [write EXCEPT ![a] = None]
  /\ UNCHANGED <<row, venue, now, checkout, lock, announced>>

\* PUT /coupons/{id}: an owner's own coupon, an admin's any.
Save(caller, i, d) ==
  /\ caller \in Admins \cup Vendors
  /\ ValidDraft(d)
  /\ Update(caller, i, d, FALSE)
  /\ UNCHANGED <<venue, now, write, checkout, lock, announced>>

\* DELETE on either route, a soft delete.
RemoveCoupon(caller, i, platform) ==
  /\ caller \in Admins \cup Vendors
  /\ platform => caller \in Admins
  /\ Exists(i) /\ Matches(caller, i)
  /\ platform => row[i].type # None
  /\ lock[i] = None
  /\ row' = [row EXCEPT ![i].deleted = TRUE]
  /\ UNCHANGED <<venue, now, write, checkout, lock, announced>>

\* The facility handlers: a venue stops being live, or is deleted.
VenueChanges(v, s) ==
  /\ venue[v] # "deleted"
  /\ venue' = [venue EXCEPT ![v] = s]
  /\ UNCHANGED <<row, now, write, checkout, lock, announced>>

TimePasses ==
  /\ now < LastInstant
  /\ now' = now + 1
  /\ UNCHANGED <<row, venue, write, checkout, lock, announced>>

--------------------------------------------------------------------------------
(* Checkouts *)

\* The handler's validation and the pricing of POST /coupons/validate and of
\* the booking service: outside the transaction.
AcceptsCart(c) == c.amount > 0 /\ Len(c.codes) \in 1..2

Price(b, c) ==
  /\ checkout[b].at = "idle"
  /\ AcceptsCart(c)
  /\ Priceable(c.codes, c.venue, c.amount)
  /\ checkout' = [checkout EXCEPT ![b] =
       [at |-> "priced", venue |-> c.venue, amount |-> c.amount,
        applied |-> Priced(c.codes, c.venue, c.amount), done |-> 0]]
  /\ UNCHANGED <<row, venue, now, write, lock, announced>>

Unlock(b) == lock' = [i \in Ids |-> IF lock[i] = b THEN None ELSE lock[i]]

Held(b) == {checkout[b].applied[k].id : k \in DOMAIN checkout[b].applied}

NextId(b) == checkout[b].applied[checkout[b].done + 1].id

\* Redeem of the next coupon: its UPDATE takes the row's lock and reads the row
\* as it is by then.
Redeemable(i) == Live(i) /\ UsesLeft(i)

RedeemUnended(b) ==   \* mutant: a refusal leaves the transaction open
  /\ checkout[b].at = "priced"
  /\ checkout[b].done < Len(checkout[b].applied)
  /\ lock[NextId(b)] = None
  /\ IF Redeemable(NextId(b))
     THEN /\ lock' = [lock EXCEPT ![NextId(b)] = b]
          /\ checkout' = [checkout EXCEPT ![b].done = @ + 1]
     ELSE /\ lock' = lock
          /\ checkout' = [checkout EXCEPT ![b].at = "refused"]
  /\ UNCHANGED <<row, venue, now, write, announced>>

Redeem(b) ==
  /\ checkout[b].at = "priced"
  /\ checkout[b].done < Len(checkout[b].applied)
  /\ lock[NextId(b)] = None
  /\ IF Redeemable(NextId(b))
     THEN /\ lock' = [lock EXCEPT ![NextId(b)] = b]
          /\ checkout' = [checkout EXCEPT ![b].done = @ + 1]
     ELSE /\ Unlock(b)
          /\ checkout' = [checkout EXCEPT ![b].at = "refused"]
  /\ UNCHANGED <<row, venue, now, write, announced>>

\* The commit of the booking: each use it holds is counted.
Counted(ids, n) == [i \in Ids |-> IF i \in ids THEN [row[i] EXCEPT !.used = @ + n] ELSE row[i]]

Commit(b) ==
  /\ checkout[b].at = "priced"
  /\ checkout[b].done = Len(checkout[b].applied)
  /\ row' = Counted(Held(b), 1)
  /\ Unlock(b)
  /\ checkout' = [checkout EXCEPT ![b].at = "booked"]
  /\ UNCHANGED <<venue, now, write, announced>>

\* Release, in the transaction that ends the booking: one UPDATE of every
\* coupon recorded with the booking, which locks the rows in whatever order the
\* plan visits them.
ReleasedFirst(b) == {checkout[b].applied[1].id}   \* mutant: bookings.coupon_id alone

Released(b) == Held(b)

StartRelease(b) ==
  /\ checkout[b].at = "booked"
  /\ checkout' = [checkout EXCEPT ![b].at = "releasing"]
  /\ UNCHANGED <<row, venue, now, write, lock, announced>>

ReleaseLock(b, i) ==
  /\ checkout[b].at = "releasing"
  /\ i \in Released(b) /\ lock[i] = None
  /\ lock' = [lock EXCEPT ![i] = b]
  /\ UNCHANGED <<row, venue, now, write, checkout, announced>>

CommitRelease(b) ==
  /\ checkout[b].at = "releasing"
  /\ \A i \in Released(b) : lock[i] = b
  /\ row' = Counted({i \in Released(b) : row[i].used > 0}, -1)
  /\ Unlock(b)
  /\ checkout' = [checkout EXCEPT ![b].at = "ended"]
  /\ UNCHANGED <<venue, now, write, announced>>

\* The rows b's next statement may be waiting for, and who holds them.
WaitsFor(b) ==
  IF checkout[b].at = "priced" /\ checkout[b].done < Len(checkout[b].applied)
  THEN {lock[NextId(b)]} \ {None}
  ELSE IF checkout[b].at = "releasing"
  THEN {lock[i] : i \in Released(b)} \ {None, b}
  ELSE {}

\* The database's deadlock detector aborts one transaction of a cycle: a
\* booking is refused, a release leaves the booking as it was.
DetectDeadlock(b) ==
  /\ \E c \in WaitsFor(b) : b \in WaitsFor(c)
  /\ Unlock(b)
  /\ checkout' = [checkout EXCEPT ![b].at = IF @ = "priced" THEN "refused" ELSE "booked"]
  /\ UNCHANGED <<row, venue, now, write, announced>>

--------------------------------------------------------------------------------
Next ==
  \/ \E caller \in Callers, i \in Ids, d \in Drafts : Create(caller, i, d) \/ Save(caller, i, d)
  \/ \E a \in Admins, i \in Ids, d \in Drafts : AdminCreateCheck(a, i, d) \/ AdminSaveCheck(a, i, d)
  \/ \E a \in Admins : AdminCreate(a) \/ AdminSave(a) \/ AdminRefused(a)
  \/ \E caller \in Callers, i \in Ids, platform \in BOOLEAN : RemoveCoupon(caller, i, platform)
  \/ \E v \in Venues, s \in {"live", "hidden", "deleted"} : VenueChanges(v, s)
  \/ TimePasses
  \/ \E b \in Checkouts, c \in Carts : Price(b, c)
  \/ \E b \in Checkouts : Redeem(b) \/ Commit(b) \/ StartRelease(b) \/ CommitRelease(b)
                          \/ DetectDeadlock(b)
  \/ \E b \in Checkouts, i \in Ids : ReleaseLock(b, i)

Spec == Init /\ [][Next]_vars

\* A transaction's statements run as soon as the rows they wait for are free;
\* row locks are granted in the order they were asked for, so a waiter is not
\* overtaken for ever; the database resolves a deadlock.
FairSpec ==
  /\ Spec
  /\ \A b \in Checkouts :
       /\ SF_vars(Redeem(b))
       /\ SF_vars(\E i \in Ids : ReleaseLock(b, i))
       /\ WF_vars(Commit(b) \/ CommitRelease(b))
       /\ WF_vars(DetectDeadlock(b))

--------------------------------------------------------------------------------
(* Correctness *)

WriteType == [op : {"create", "save"}, id : Ids, draft : Drafts]

\* A checkout that has been priced.
Underway ==
  [at : {"priced", "refused", "booked", "releasing", "ended"}, venue : Venues, amount : Int,
   applied : Seq([id : Ids, discount : Int]), done : Nat]

CouponsTypeOK ==
  /\ row \in [Ids -> Optional(CouponType)]
  /\ venue \in [Venues -> {"live", "hidden", "deleted"}]
  /\ now \in Int
  /\ write \in [Admins -> Optional(WriteType)]
  /\ checkout \in [Checkouts -> {[at |-> "idle"]} \cup Underway]
  /\ lock \in [Ids -> Optional(Checkouts)]
  /\ announced \subseteq Ids

\* What checkout charges is right for any cart at any moment: the discounts add
\* up to at most the amount, no code yields two coupons of a scope, and the
\* order in which the codes are sent changes nothing.
PricingSound ==
  \A c \in Carts, amount \in Amounts : Priceable(c.codes, c.venue, amount) =>
    LET applied == Priced(c.codes, c.venue, amount)
    IN /\ Len(applied) = Len(c.codes)
       /\ Total(applied) \in 0 .. amount
       /\ applied = Priced(Reverse(c.codes), c.venue, amount)

\* The offers screen shows exactly what checkout accepts at the venue, given a
\* large enough amount; the signed-in cards show nothing else; and whoever made a
\* coupon that is on offer has it in their list, to edit or withdraw it.
ScreensAgree ==
  /\ \A v \in Venues :
       /\ OffersOfVenue(v) =
            {i \in Ids : Exists(i) /\ \E amount \in Amounts :
                           i \in Load(row[i].code) /\ Check(i, v, amount)}
       /\ CardsOfVenue(v) \subseteq OffersOfVenue(v)
       /\ \A c \in Vendors : {i \in OffersOfVenue(v) : row[i].vendor = c} \subseteq Listed(c)
       /\ \A a \in Admins : OffersOfVenue(v) \subseteq Listed(a)
  /\ \A type \in {"MARRIAGE_HALL", "HOTEL"} :
       /\ PlatformOffers(type) \subseteq CardsNear(type)
       /\ CardsNear(type) \subseteq PlatformOffers(type) \cup UNION {OffersOfVenue(v) : v \in Venues}
       /\ CardsNear(type) \subseteq CardsNear(None)

\* However a coupon is edited between pricing and the end of the booking, it
\* stays one that applies at the venue booked, and the booking still holds it.
HeldStillApply ==
  \A b \in Checkouts : checkout[b].at \in {"priced", "booked", "releasing"} =>
    /\ \A i \in Held(b) : venue[checkout[b].venue] # "deleted" => Applies(i, checkout[b].venue)
    /\ \A k, l \in DOMAIN checkout[b].applied :
         Scope(checkout[b].applied[k].id) = Scope(checkout[b].applied[l].id) => k = l

\* The count of a coupon is the number of bookings that hold it, whatever
\* deadlock, refusal or release came between.
UsesAreHeld ==
  \A i \in Ids : row[i] # None =>
    row[i].used = Quantify(Checkouts, LAMBDA b :
                    checkout[b].at \in {"booked", "releasing"} /\ i \in Held(b))

\* What a booking holds is a coupon of its venue, and the coupon knows it.
HoldsMatch == HeldStillApply /\ UsesAreHeld

\* A checkout is answered and a release ends, deadlocks included.
EveryTransactionEnds ==
  \A b \in Checkouts : /\ checkout[b].at = "priced" ~> checkout[b].at \in {"booked", "refused"}
                       /\ checkout[b].at = "releasing" ~> checkout[b].at \in {"booked", "ended"}

================================================================================
