# A verification project for the marriage hall booking backend

The program (`src/marriage-hall-booking`) is a Go backend for renting marriage
halls and the hotel rooms near them. Two kinds of process run it: `cmd/api`
serves HTTP, `cmd/worker` consumes Kafka topics, sweeps unpaid bookings and sends
notifications; several of each may run. They share one PostgreSQL database, a
Valkey/Redis (rate limits, revocation cutoffs) and Kafka. Almost all state is in
PostgreSQL, and almost all of what is hard is what two transactions, two workers
or two messages do to each other's rows.

This directory holds TLA+ models of that state, TLC configurations that check
them on small instances, and TLAPS proofs of their main properties for instances
of any size. `PROJECT.json` lists the components, the runs, the mutants each
property catches, the source lines of every definition, the findings, the
hazards and the theorems.

Running: `tlc -config X.cfg M` for a run of the table below (`M` is the module
the table names), `tlapm XProofs.tla` for the proofs. A module of
proofs about two components extends both, which is why their names differ
(`QuoteSpec`, `RequestSpec`, `ReviewsSpec`, `VenuesSpec` where most modules say `Spec`).

## 1. Inventory: the system's components

| Component | State it keeps | Operations | What makes it correct |
|---|---|---|---|
| Booking repository `internal/booking/repository` | `bookings`, `booking_rooms`, `hall_availability`, `room_availability` | CreateHallBooking, CreateHotelBooking, SetStatus, ExpireHolds | no half-day and no room is sold twice; inventory agrees with the live bookings; statuses only move along the lifecycle |
| Booking service `internal/booking/service` | none of its own (idempotency key on the row) | Create*, Cancel, Decide, Sweep; hooks OnBookingCreated, OnBookingDecided | a retry returns the original booking; nobody else gets it; it is announced once |
| Booking handlers `internal/booking/handler` | none | decoding, price preview, hours to slot | the slot covers the hours asked for |
| Payment `internal/payment` | `payments`, `refunds`, `payment_webhook_events`, `bookings.paid_amount` | Create, HandleWebhook, Refund | money is credited once, never beyond the total, and never revives a booking |
| Coupons `pkg/coupon`, `internal/coupon` | `coupons`, `booking_coupons` | PriceCoupons, Redeem, Release, create, save, remove | a coupon is used at most up to its limit, its count is the live uses |
| Quotes `internal/quote` | `quotes`, `quote_versions`, messages, attachments | request, reply, counter, accept, reject, cancel, convert | one booking per accepted quote, at the amount both agreed to |
| Notification outbox `internal/notification` | `notifications`, `device_tokens`, locations | Enqueue, ClaimDue, MarkSent, MarkFailed, Ack*, DeclineByToken, CancelForBooking, reminders | nobody is forgotten, nobody is chased after an answer or about a dead booking |
| Event bus `pkg/events`, `cmd/worker/main.go` | Kafka topics and offsets | Publish with in-process fallback, consume, retry, dead-letter | every event is handled at least once or parked |
| Media gallery `cmd/worker/media.go`, `internal/facility/handler/upload.go`, `pkg/storage` | spool files, media rows PENDING/READY/FAILED, objects | spool, queue, upload, unspool | a READY row has its object; a PENDING one is finished, deleted or parked |
| Authentication `internal/auth`, `pkg/jwt`, `pkg/middleware` | users, refresh tokens, one-time codes, revocation cutoffs | login, refresh, logout, revoke-all, OTP send and verify | a token is rotated once; a sign-out ends the sessions before it and no later one; attempts are counted |
| Facilities and inventory `internal/facility` | facilities, room types, packages, add-ons, amenities, events, search vector, FAQ | CRUD, cards, comparison | a card promises what checkout charges |
| Administration, vendors `internal/admin`, `internal/vendors`, `pkg/audit` | approval and KYC status, blocked users and venues, pinned ratings, audit rows | approve, reject, block, unblock, patch, pin | what an admin takes off is off every screen; a blocked user's sessions end |
| Reviews `internal/review` | reviews, `facilities.avg_rating` and `review_count` | create, moderate, correct, delete; pin and hand back a rating | the stored rating is what the listed reviews say, or the admin's pin |
| Search, recommendation `internal/search`, `internal/recommendation`, `pkg/venuesearch` | none | search, facets, type-ahead, recommend | the screens agree with each other and with what can be booked |
| Users, help, feedback, FAQ, privacy policy, support | rows of their own or none | CRUD and queries | single-row writes and read-only queries |
| Senders, start-up, plumbing, import and seed tools | none | provider calls, wiring | outside the model |

How they interact. HTTP handlers call services, services call repositories; a
repository method is one transaction. A committed booking calls a hook
(`OnBookingCreated`, `OnBookingDecided`, `OnPaid`) that `cmd/api/main.go` wires
to the publisher or to the notifier, so a crash between commit and hook loses it.
Events go through Kafka to the worker, which only enqueues outbox rows; a ticker
sends them. A webhook of the gateway, the owner's decision, the customer's
cancel and the workers' sweepers all write the same booking row; quotes become
bookings through the booking service; coupons are redeemed and released inside
the booking transactions.

Hard behaviours: claims of several dates under advisory locks; a unique index
that does not see overlapping slots; conditional updates of shared counters;
sweepers working through stale lists; webhooks repeated, reordered and late;
client retries while the first attempt is still running; processes dying between
a commit and what follows it; outbox rows that change between claim and outcome;
uploads handled twice or never; sessions minted in the instant of a sign-out;
coupons edited between their pricing and their redemption; stored copies (the
rating, the search vector) recomputed by transactions that do not see each other;
a dozen queries that must all mean the same by "available" or "live".
`PROJECT.json` lists them line by line under `hazards`, with the properties that
would catch each.

## 2. Modules

| Module | What it is |
|---|---|
| `BookingLifecycle` | abstract: one booking row's status and payment window, and the only moves it may make |
| `SlotPromise` | abstract: a calendar of half-days, each taken and given back atomically |
| `Booking` | the booking repository, one action per transaction: venues, rooms, coupons, statuses, sweepers. Implements `BookingLifecycle` and `SlotPromise` |
| `HallClaim` | CreateHallBooking and the release, one action per SQL statement with PostgreSQL's locks. Implements `SlotPromise`, and so justifies that `Booking` makes a claim one step |
| `BookingRequest` | one create request, its retries and its neighbours: idempotency lookup, transaction, second lookup, announcement |
| `Payment` | orders, webhooks and refunds, beside the booking rows moving as `BookingLifecycle` lets them. Implements `BookingLifecycle` |
| `Outbox` | the notification outbox: consumers, hooks, workers and people |
| `QuotePromise` | abstract: prices are proposed, one is agreed, and that is the price of the booking |
| `Quote` | a quote's versions, acceptance, settlement, expiry and conversion, by requests that act on what they loaded. Implements `QuotePromise` |
| `Coupons` | the administration of coupons, what they are worth and where they are shown, and checkouts that redeem and release them row lock by row lock |
| `Accounts` | one account: registration, codes, sign-in and lockout, sessions and their rotation, sign-out, closing |
| `Uploads` | the gallery of one facility: media routes, spool, store, broker and worker, any of which may fail |
| `Venues` | the venues table and its children, written by owners, admins and bookings |
| `Catalogue` | extends `Venues` with every screen's query over it and with the prices a booking charges |
| `Checkout` | extends `Catalogue` with the booking forms: the slot of their hours, what the service charges for them and what the preview shows |
| `Reviews` | reviews and the rating a venue stores about them, statement by statement |
| `BookingProofs`, `CreateBookingProofs` (of `HallClaim` and `BookingRequest`), `PurchaseProofs` (of `Catalogue`, `Checkout` and `Payment`), `OutboxProofs`, `PricingProofs` (of `Coupons` and `Quote`), `AccountsProofs`, `ListingProofs` (of `Reviews` and `Uploads`) | theorems and proofs |
| `SumLemmas` | lemmas they share: induction over the finite subsets of a set, sums over finite sets |
| `MCBooking`, `MCHallClaim`, `MCBookingRequest`, `MCPayment`, `MCOutbox`, `MCQuote`, `MCCoupons`, `MCAccounts`, `MCUploads`, `MCCatalogue`, `MCReviews` | instances for TLC |

### Booking

State: `status` and `hold` are `bookings.status` and what has become of
`expires_at` (none, running, elapsed: only its being in the past is ever read);
`request` the row's venue, dates, rooms and coupons; `slotOwner` the BOOKED rows
of `hall_availability`; `bookedRooms` is `room_availability.booked_rooms`;
`used`, `limit`, `usable` the coupon's columns; `sweep` the ids a worker read in
`ExpireHolds` and has not come to yet. Actions: `CreateHallBooking` and
`CreateHotelBooking` (each with its coupon redemption, all or nothing),
`Cancel`, `Decide` (with the payment window it sets), `PaidInFull` (the part of
the webhook that touches the booking), `SweepRead`, `SweepExpire` and
`SweepAborts` (a pass is many transactions over a list read before),
`HoldElapses` (time), `EditCoupon` (vendor or admin). Every transition to an
ended status includes the release of slots, rooms and coupon uses, as
`SetStatus` does in its transaction. A transaction is one step because each locks
what it decides on; for the hall claim, whose locks are the subtle ones, this is
shown by `HallClaim`.

### HallClaim

State: the program counter of each transaction and how many dates it has claimed,
the advisory locks (keyed by a hash that may collide), the committed rows, the
row locks and the uncommitted rows. PostgreSQL itself is external and modelled
from what the code relies on under READ COMMITTED: reads see committed rows,
writers wait for row locks, a lost connection rolls back a claim or a release alike,
locks go with the transaction.

### BookingRequest

State: where each call is, the row it inserted (open, live, ended), who has the
slot, what the client was told, how often the booking was announced. A call is
one HTTP request; `first` and `retry` are the same request sent twice. The unique
index on the key makes an insert wait for an open row with the same key and fail
after a committed one. The announcement (the hook) and the answer to the client are
two steps. `Lose` is a death of the process or its connection at any point, between
those two as well. Claim and commit are one step, again by `HallClaim`.

### Payment

State: `paid` (`bookings.paid_amount`), per order its booking, amount, status and
the sum refunded, the events the gateway sent and those recorded in
`payment_webhook_events`. The gateway is external: it may send any outcome for any
order, several events for one, and each any number of times in any order.
Money is in whole units; the code's cents are integers too.

### Outbox

State: one row per booking, event, role and channel with its status, its next
attempt (NULL, future, past), its attempts and whether it was ever delivered;
what each worker claimed with the attempts it read; what the outbox looks at of
the booking; the steps a request still has to run after its commit. `Rows` is the
set of rows whose recipient has an address: rows without one are never inserted.
Payment receipts, reminders and announcements insert more rows of the kind of
`booking.decided` and are not repeated. A reply of ops or the owner through the
app (Ack, AckAdmin) and through a link (AckByToken) have the same effect and are
one action; the lifetime of a link (14 days) is left out, so a link always works.
`answered` is a history variable of the properties.

### Quote

State: the quote's row (`status`, `quoted`, `validUntil`), its `versions` with who
offered what, the bookings made of it by idempotency key, the date, and for each
request under way what it loaded and how far it is. `LoadQuote` is the unlocked read
with all the checks made of it; `AddVersion` is the transaction of a reply or a
counter, which looks at the status again under the row lock; `Accept` and
`Settle` are the conditional UPDATEs; `Book` and `MarkConverted` are the two
writes of a conversion. `Book` stands for a whole `CreateHallBooking` and takes
from `BookingRequest` that a key has one booking and that a retry is given it,
and from the key's form that no direct booking uses it. `Abandon` is a refusal,
an error or a death at any point. A version's line items are its total. An
offer's expiry survives a later version that names none (the COALESCE of
addVersion), so a counter may be on the table already expired, and an accepted
quote whose offer expires before its conversion stays ACCEPTED.

### Coupons

State: each coupon's row, the venues as far as a coupon looks at them (live, hidden,
deleted), a clock of half days, the write of an admin whose check has passed, and
for each checkout what it priced, redeemed and holds, with the row locks of its
transaction. `Price` is the quote made outside any transaction; `Redeem` locks and
counts one coupon; `ReleaseLock` gives one back in any order, as `Release`'s single
UPDATE may; `DetectDeadlock` is PostgreSQL aborting a checkout of a cycle. The admin
routes look for another active platform coupon in one statement and write in the
next, so they are a check and a write. `OffersOfVenue`, `CardsOfVenue`,
`PlatformOffers`, `CardsNear` and `Listed` are the screens' queries.

### Accounts

State: the users row, every session ever issued with its refresh token and the
counts a property needs (how many sign-outs had read the clock when it was minted,
how many had landed when it waited, how many heirs it has), the codes, the cutoff in
Redis, a clock, and the requests of a *plan*: a
sequence of kinds of request that start in order and interleave statement by
statement. A plan is how the instance says which requests meet; within it all
interleavings and all ages are explored. A sign-out reads the clock (`StampCutoff`)
and then sends it to Redis (`SetCutoff`), which overwrites whatever is there: two of
them may land in the opposite order of their readings. `signOuts` remembers what each
read and which landed last. Redis is up: without it the check fails open, as the code
says.

### Uploads

State: committed media rows, the spool directory, the store (each write of a file
makes a new object), the topic from the committed offset on, the dead letters, and
the progress of two requests and of the worker. `faults` bounds crashes, departed
clients and refusals of the database, broker and store together. `Queue` falls
back to `UploadSpooled` on the request when the broker refuses. What the worker has
handled but not committed is delivered again after `WorkerDies`.

### Venues and Catalogue

A text is a set of words, a place is near or far, a word is near another when
trigram similarity takes one for the other (`Near`). A city keeps the spelling it was
stored with, or is missing; `LOWER` folds it where the SQL does and nowhere else, so a
city stored twice in different case is one city to the search and two to the
type-ahead. Every filter of `GET /search/venues` is in `where`, capacities and budget
included, 0 standing for no bound as in the code. `Venues` has one action per
route; adding an amenity and replacing the events of a venue are a start and a
commit, since a trigger or a DELETE acts on a snapshot. Claims and releases are
those of `Booking`, reduced to what search reads. `Catalogue` has no steps of its
own: it adds the queries and the prices, and its properties relate them at every
reachable state of `Venues`. `Checkout` adds the booking forms and the price
preview in the same way: `createVenue` and `createHotel` are what the handlers accept,
`CreateVenueBooking` and `CreateRoomsBooking` the amount and the discount the service
stores (a hotel form's lines are a sequence, in which one room type may stand twice),
`quote` the preview. Dates in the past and owners' coupons are left out there
(`Coupons` has them). Ranking, paging and distances are left out.

### Reviews

State: the committed reviews, each venue's stored rating with `rating_is_manual` and
who wrote it last, for each request of a reviewer the venue it found a booking of his
for (`checkStayed`, in no transaction), and each request's transaction: written, venue
locked, counted or skipped. `LockVenue` is the `SELECT ... FOR UPDATE`, which waits for other lock
holders and for the foreign-key locks that inserts hold. Handing a pinned rating
back reads its snapshot first (`StartClear`) and writes later (`clearRating`).

## 3. Runs

Every passing run finishes in under four minutes, most in one. Bounds are the sizes of the sets
in the cfg files and the constants named `Max...`, each in the guard of the actions
it bounds; `attempts` in `Outbox` is not counted beyond `MaxAttempts + 1` since only
"at least MaxAttempts" is ever tested.

| Run (cfg) | Asks | Properties |
|---|---|---|
| `booking` (`MCBooking`) | Two venue or room bookings with every kind of overlap, a coupon switched on and off and its limit moved between 0, 1 and 2 meanwhile, and two workers sweeping from stale lists: no half-day or room is taken twice, what is taken is what the live bookings hold, the rows implement an atomic half-day calendar, no redemption passes the limit in force, only lifecycle transitions happen and no hold outlives its payment window. | NoDoubleBooking, RoomsWithinCapacity, InventoryAccounted, SlotPromiseHolds, LimitRespected, LifecycleHolds, HoldsEnd |
| `hall_claim` (`MCHallClaim`) | Four claims and releases of one hall, statement by statement with PostgreSQL's locks: not even uncommitted claims overlap, a booked range is whole, the statements implement the atomic calendar and every transaction ends. | ClaimsSound, SlotPromiseHolds, EveryTransactionEnds |
| `booking_request` (`MCBookingRequest`) | A request and its concurrent retry, a stranger under the same idempotency key and two keyless requests, any of which may die anywhere: retries get the original booking, nobody else does, it is announced once, and nobody waits for ever behind a key. | RetriesSafe, NotTakenByItself, EveryCallAnswered |
| `payment` (`MCPayment`) | Three orders of a booking and three webhook events of any outcome, delivered any number of times in any order while the booking is decided, cancelled or expired and payments refunded: money adds up, never revives a booking, and what the gateway captured is settled. | MoneySound, PaidMatchesOrders, LifecycleHolds, CapturedSettles |
| `outbox` (`MCOutbox`) | The owner's request and the customer's answer, sent by two workers from stale claims while the booking is answered, decided and ended and its events arrive late or twice: only PENDING rows are scheduled, a chase goes on until there is a reason to stop and then stays silent, nobody is chased about a dead booking, and every notice settles. | ScheduleSound, SilenceKept, RowsProgress |
| `outbox_told` (`MCOutboxTold`) | Expected violation: Ops is told again and again about an event it cannot acknowledge. | EventsToldOnce |
| `quote` (`MCQuote`) | Customer, owner and an admin negotiate through requests that write what they loaded earlier, with counters back to the same amount, offers that expire, racing and retried conversions and a crash between the booking and the quote's update. | OneBooking, SettledFairly, PromiseHolds |
| `coupons` (`MCCoupons`) | An owner and an admin create, edit and delete a venue's and a platform coupon while the venue is hidden or deleted and two checkouts price both codes, redeem and release them row lock by row lock: prices are sound, every screen shows what checkout accepts, the counts are the bookings that hold the coupon, and every transaction ends, deadlocks included. | PricingSound, ScreensAgree, HoldsMatch, EveryTransactionEnds |
| `accounts` (`MCAccounts`) | Registration, codes, sign-in, refresh, sign-out and closing the account interleave statement by statement: the sign-out in force ends the tokens of before it read the clock and harms none that waited for it, also when two sign-outs' writes cross, a refresh token has one heir, a code is spent once, wrong passwords do not move a lock, and every request is answered. | CutoffExact, OneHeir, GuessingBounded, EveryRequestAnswered |
| `uploads` (`MCUploads`) | Two owner requests at a time on a gallery (images and videos added by file or url, with and without brokers, covers, reordering, deletes) against the upload worker, under two faults: a READY row always shows a stored file, accepted bytes are never lost while their row is there, and a PENDING row is finished, deleted or dead-lettered unless its request died. | ReadyIsStored, BytesKept, PendingSettles |
| `catalogue` (`MCCatalogue`) | Two routes of owners, admins and customers in any order on two halls and a hotel, asked by sixteen searches: facets tell what picking them leaves, a date search shows what can be booked, a hall is charged its card's price and the hall price of its preview and takes the slot of its hours, a coupon on a card takes off what it says or is refused for its minimum, type-ahead leads to at least the results it counts (exactly as many where a city has one spelling), and no screen shows a venue that is not live. | FacetsTell, FoundIsBookable, CheckoutKept, SuggestionsLead, OnlyLiveShown |
| `reviews` (`MCReviews`) | Two users and an admin post, moderate, correct and delete reviews of one venue, two transactions at a time statement by statement, while its rating is pinned and handed back: the stored rating is the pin while it is pinned, and the average and number of the reviews its page lists whenever a review's transaction wrote it last. | RatingTells |

Several properties are conjunctions of named parts, each stated with its own
comment in its module: `InventoryAccounted` (slots, rooms and uses are those of the
live bookings), `ClaimsSound`, `RetriesSafe`, `MoneySound`, `ScheduleSound`,
`SilenceKept`, `RowsProgress`, `SettledFairly`, `HoldsMatch`, `CutoffExact`,
`GuessingBounded`, `CheckoutKept`, `RatingTells`. The type invariants are proved for every instance
and are in no run.

Why the bounds are enough. Conflicts in this system are pairwise (two claims of a
half-day, two orders of a booking, a claim and an outcome of a row, two requests with
one refresh token, two transactions on one venue's rating), so two of each actor show
them; a third or fourth (transactions of `MCHallClaim`, guesses of a code, the events of
`MCPayment`) lets a pair conflict while another holds or releases what they want. Two
dates make a range partly taken and lock order matter; three dates give overlapping
stays of two nights, so that a stay can fail on its second night. Two rooms distinguish
"a room is left" from "enough rooms are left". A total of three leaves something after
two different partial refunds. A chased role and a notice, with two workers and
`MaxAttempts = 1`, reach giving up from claims of different ages. Payments, the outbox,
quotes, accounts and galleries never relate two bookings, quotes, accounts or
facilities, so their runs have one. Three versions allow a counter and a reply back to
the first amount, with two requests of which one is slow. `MCCoupons` has a flat coupon
larger than a small booking and a capped percentage with a minimum, so that order, cap,
minimum and limit all decide. In `MCBooking` a coupon's limit is 0, 1 or 2, so it can be
lowered under the uses it has and raised again. The plans of `MCAccounts` name each way
two or three requests of one account can meet, two sign-outs between two sign-ins among
them. Two faults let an upload fail once and its recovery fail too. In `MCCatalogue` two
edits are any pair of routes, from two catalogues that between them have a venue on and
off every screen; edits bring a second spelling of a city, an old name, a missing one,
and a hall without a capacity; the sixteen searches hold every filter and the pairs that
meet in a facet; the eleven forms of a hall have every kind of slot, hours on both sides
of noon and past midnight, packages, and none, one and two coupons; the four of a hotel
have several lines, one type twice, and a stay too long. `MaxHallDays`, `MaxNights` and
`MaxLines` are 2 there for 14, 30 and 20. Four review requests on one venue let two
commit and two more meet over the result.

No run uses symmetry except `quote`, over its requests, which nothing
distinguishes and no liveness is asked of. `CHECK_DEADLOCK FALSE` stands in every
run whose instance can finish: when every booking has ended, every call is
answered, every event is recorded, the quote is settled, the edits, requests or
faults are used up, there is nothing left to do; real processes would wait for the
next request. Waiting for each other, which would be a deadlock of the program, is
excluded by the liveness properties instead.

Fairness. `Booking`: a worker's sweeper starts again every minute whatever
happened to the last pass (weak fairness of `SweepRead` for each worker), and an
error on one id is not for ever (strong fairness of the sweep of each booking);
that a payment window elapses, or a customer pays, is not assumed. The second is an
assumption and not what the code guarantees: a pass ends at its first error
(repository.go:898-905), so an id that always fails would keep those after it from
being expired, and `HoldsEnd` does not show the contrary. `HallClaim`: PostgreSQL runs
each statement that is not waiting for a lock, and serves those that wait for a row in
turn, however often others lock it again (strong fairness of `Insert`). `BookingRequest`:
the server goes on as long as some call can (weak fairness of all calls' steps together:
each has finitely many); nothing obliges a call to arrive, to die or to be refused.
`Payment`: the gateway redelivers until the event is acknowledged. `Outbox`: the
tickers run, time passes, an ended booking's event is consumed (Kafka redelivers
until the offset is committed), `ClaimDue` takes the oldest rows so that none is
passed over for ever, and not every outcome of a row's deliveries is lost to
crashes. `Coupons`: statements run when their rows are free, row locks are granted
in the order they were asked for (strong fairness, since locks come and go), and
PostgreSQL resolves a cycle. `Accounts`: handlers run on and time passes. `Uploads`:
handlers run to their end and the worker keeps consuming; nothing obliges a fault
to happen. `Venues` and `Reviews` claim safety only.

## 4. Theorems

For any value of the constants that their named assumptions allow (finite or
not; an idempotent retry, a lock-key hash, totals, limits and rows are
arbitrary):

| Module | Theorems |
|---|---|
| `BookingProofs` | TypeCorrect, SlotsMatch, DoubleBookingFree, CapacityRespected, InventoryIsAccounted, LimitIsRespected, ImplementsLifecycle, ImplementsSlotPromise |
| `CreateBookingProofs` | TypeCorrect, ClaimsAreExclusive, AllOrNothing, ClaimsAreSound, ImplementsSlotPromise (`HallClaim`); RetriesAreSafe, RetryKeepsItsSlot (`BookingRequest`) |
| `PurchaseProofs` | VenuesInvariance, OnlyLiveIsShown, SuggestionsDoLead, FacetsDoTell, FoundCanBeBooked, CheckoutIsKept (`Catalogue` and `Checkout`); TypeCorrect, OrdersExclusive, ChargesBounded, RefundsCorrect, PendingMeansUnpaid, PaidIsBalanced, MoneyIsSound, ImplementsLifecycle (`Payment`) |
| `OutboxProofs` | TypeCorrect, ScheduleCorrect, ChaseUnbroken, ScheduleIsSound, SilenceLasts, DeadIsNotChased, SilenceIsKept |
| `PricingProofs` | CouponsInvariance, CouponsTyped, PricesAreSound, ScreensTellTheSame, HoldsDoMatch (`Coupons`); QuoteTyped, BookedOnce, AcceptanceFair, BookingInTime, SettlementFinal, SettlementsFair, ImplementsPromise (`Quote`) |
| `AccountsProofs` | AccountsInvariant, CutoffIsExact, OneHeirOnly, GuessingIsBounded |
| `ListingProofs` | RatingIsTold, CountsAreCurrent (`Reviews`); ReadyMeansStored, NoBytesLost (`Uploads`) |

The assumptions say what the constants are (a clock of integers, amounts that are
natural numbers, an absent field that is not a value, finitely many venues and
columns that hold what their CHECK or the handler's validation allows). Two say a
little more:
`Coupons` lets a customer ask a price for an amount as large as any coupon's
minimum, without which an offer could be shown that no amount is accepted for; and
`Uploads` has no file whose url is the absent one.

The arguments.

* Booking. Slot rows agree with live bookings *and* no two overlapping rows of
  a date are owned (`SlotsExclusive`); the second alone is not inductive, because
  giving slots back by booking id is right only if the id owns exactly the rows of
  its request. The lifecycle needs `SweepWasOverdue`: an id on a sweeper's stale
  list is not one that may not be expired any more (its hold elapsed, and
  SetStatus looks at the status again). No row's request changes while it lives
  (`RequestKept`). The refinement of `SlotPromise` maps each half-day to the
  booking whose slot row covers it.
* Booking, the counts. `booked_rooms` is the sum of the live bookings' rooms and a
  coupon's count the number of live bookings that redeemed it (`Accounted`). The
  live bookings are finitely many at any moment (`LiveFinite`), though the ids need
  not be, so a booking that begins or ends adds or takes away one term
  (`SumLemmas`). `LimitRespected` follows at the one step that redeems: the
  conditional UPDATE compared the count with the limit in force.
* HallClaim. A transaction holds the row locks of what it wrote and the advisory
  locks of the dates it has passed (`WrittenSoFar`, `LocksHeld`); what `Check`
  saw free is still free of committed and uncommitted rivals when `Insert` comes
  (`CheckStillHolds`), because a rival that would write there needs the same
  advisory lock, and releases only free rows; hence `WrittenAreFree` and
  exclusiveness, even when lock keys collide.
* BookingRequest. At most one row is open or committed under a key
  (`KeyIsUnique`, which is the index), a call that has not inserted has no row and
  one that announces has committed it (`RowsFollowCalls`), whoever was answered with
  a booking was given a committed row of his own key and user (`AnswersHaveRows`),
  and whoever has the slot is live (`OwnersLive`). A call that finds the slot taken
  has an open row, so the live holder has another key: it is not the call itself.
* Payment. `PendingOwesAll` (a booking not yet accepted has paid nothing and its
  orders ask for the whole total) makes `PendingIsUnpaid` inductive; it goes
  through because a partial payment of a PENDING booking is impossible, its only
  order asking for everything. `OneOpenOrder` and `NeverOvercharged` carry each
  other: the balance is read while no other order is open. What a booking has paid is
  the sum over its orders of what was captured less what was refunded, and each
  step changes one order (`PaidIsBalanced`).
* Outbox. A worker's claim is older than the row's count (`ClaimedBefore`), so
  that a failure counted as the last one from a stale claim really comes after
  MaxAttempts others; with `ScheduledIsPending` this gives `ChasedUntilAnswered`.
  Every step that records an outcome keeps or clears the schedule and none sets it,
  which is `SilentForGood`. A batch grows only by a claim, and a claim takes rows of
  living bookings (`ClaimedIsClaimable`), which with it is `SilenceKept`.
* Coupons. A row's scope never changes and its code is unique among the rows not
  deleted; a deleted venue stays deleted; a checkout keeps the venue and the coupons
  it was priced for. So what applied when it was priced applies when the booking ends
  (`HeldStillApply`), whatever was edited meanwhile. A row counts the bookings that
  hold it (`UsesAreHeld`): a commit adds one to the row and one booking to the set, a
  release the opposite, and the `used_count > 0` of the release is never what stops
  it. The checkouts under way are finitely many (`BusyFinite`). Prices need no
  history: with unique codes, a list of codes that is accepted comes to no coupon, to
  one, or to one of each scope (`PricedShape`), and a discount is between zero and
  what it is a discount on (`DiscountBounded`). That the screens agree follows from
  the scopes that rows have (`RowsOK`).
* Quote. What a request loaded may be stale, so the invariant says what of it
  still counts when it writes: an acceptance was allowed for the status its UPDATE
  asks for again, and the status on the table says whose offer it is
  (`OfferOnTable`); what a conversion loaded is still true, since nothing moves an
  ACCEPTED quote except its conversion (`LoadedAllowed`); a booking exists only
  for an agreed quote and has its price (`BookingAgrees`).
* Accounts. The cutoff in force is what one sign-out read, landed last
  (`SignOutsTyped`). Stamps separate tokens from sign-outs (`Separated`): a request that
  waited for the one in force stamps its token after the cutoff, and a token minted
  before some sign-out read the clock is stamped at or before what that one read, landed
  or still on its way; so whichever write lands next, both stay true (`MovesSeparate`).
  A refresh token is live, or held by the one request whose UPDATE revoked it, or
  exchanged, and never goes back; a code accepted is a code used; a wrong password
  reaches the count only while no lock is in force.
* Reviews. One transaction at a time is past a venue's lock (`OneLocker`), so what
  it counted is still what it would count when it commits, and the rating it found
  pinned is still pinned (`CountsStand`): every other writer of that venue's reviews
  or rating waits. A commit changes the reviews of one venue, and the figures of
  another depend on its own reviews only (`OwnReviewsCount`). The sum itself stays
  folded except for a venue without reviews (`NoReviews`).
* Uploads. A file is that of a request which has not committed its row
  (`Uncommitted`), or it is `Announced`. What the worker does, what events say and
  what deletes remove concerns announced files only, so it cannot touch what a
  request is still writing; a deleted row does not come back; a row lock
  is held by one transaction and on a committed row. The bytes stay in the spool until
  the object is there, and a row turns READY only after its object was put.

* Catalogue. That the lists show live rows only, and that the listing agrees with the
  search, follows from the queries in any state. The venues the type-ahead counts under
  one spelling of a city are among those a search for it finds, and are all of them just
  when no live venue has another spelling (`OneSpelling`). The facets
  need prices that are numbers: the least and the greatest of finitely many. For the
  date search and the claims the invariant is `VenuesInv`: the rows are typed, an id
  is free for every booking that may still come (`IdsLeft`), and `NeverOverbooked`: no
  night has more rooms of a type taken than the type has. The search sums over the
  types what each has left on its fullest night, so one type taken past its stock
  would hide the rooms another has left; with the invariant no summand is negative,
  and any number up to the sum can be divided among the types (`SumDivides`). A
  withdrawn type keeps its bookings and its stock, and one that was never created has
  none, which makes it inductive: a booking reads the stock it checks.
* Checkout. A rounded share of an amount is between zero and the amount and grows
  with it (`RateBounds`), so the cheapest room of a hotel is the cheapest after the
  discount too, and a coupon takes at most the amount off (`CouponBounds`). The
  preview's hall price and discounts are those of the service, factor by factor, and what
  it adds to them is positive unless the price is nothing. What a booking of rooms
  is charged and spared adds up line by line (`LinesAddUp`).

`SumLemmas` replaces the induction theorems of the proof library: they take a
predicate as a parameter, so the induction over finite subsets is stated here with a
set of subsets instead and proved from the well-foundedness of strict inclusion.

Only model-checked: all liveness (`HoldsEnd`, `EveryTransactionEnds`,
`EveryCallAnswered`, `CapturedSettles`, `RowsProgress`, `EveryRequestAnswered`,
`PendingSettles`), since fairness and ENABLED are beyond the prover, and the run that
expects a violation. Every invariant, every action property and every refinement that
a run checks is a theorem.

## 5. Findings

The run `outbox_told` shows one disagreement between a comment and the code, quoted
in `PROJECT.json`: ops alerts have role ADMIN, so a delivery does not finish them,
and have no booking, so no acknowledgement reaches them: they are resent for ever,
where service.go says they are told once.

Other disagreements met while modelling. Each has been confirmed in the model or by
reading; none has a run, and the properties of the runs are stated so as not to
depend on them:

* Claims lock days in ascending order (repository.go:422), but the lock key is a
  32-bit hash: crosswise collisions of two halls deadlock two claims, although the
  comment says multi-day bookings cannot. `MCHallClaim` gives every day its own key.
* After a refund made while an order is open, that order asks for less than the
  balance, although the comment (payment/service/service.go:102) says it stays the
  right amount.
* A `booking.created` consumed after the owner confirmed enqueues rows that chase him
  with nothing left to stop them. (After a cancellation or a rejection `ClaimDue`
  excludes them.)
* Two admins may each activate a platform coupon, both having looked for
  another active one first (coupon/handler/handler.go:602).
* Asking for a new code makes the older ones invalid in a statement before the new one
  is inserted: two requests at once leave two codes that are both accepted, each once
  (auth/service/otp.go).
* Two requests that add amenities to a venue at once lose one of them from its
  `search_vector`, until the next change (migrations/062_search_index.sql:42). Search
  by that amenity's word then misses the venue; the filter by amenity does not.
* Two lists of events written at once merge (facility/repository/repository.go:1155).
* Two reviews posted for one venue at once each hold its foreign-key lock when they
  ask for the row lock (review/handler/handler.go:153): PostgreSQL aborts one, and its
  author is answered with an error.
* Handing a pinned rating back counts every live review, where every other writer
  counts the approved ones (admin/handler/facility.go:366-374), until the next review
  of the venue is written. `CardMatches` speaks of ratings last written by a review.
* "Any token issued earlier is refused" after a sign-out (middleware/revoke.go:22-23), but
  the clock is read before the SET is sent (line 49) and the SET overwrites: when those of
  two sign-outs cross, the cutoff moves back and a token minted between the two readings
  is accepted again. `SignedOutIsOut` speaks of the sign-out whose SET landed last.
* A pass of the sweeper ends at the first id whose expiry fails (repository.go:898-905):
  an id that always fails keeps those read after it from being expired.
* The type-ahead groups and counts cities as they are stored (suggest.go:67-72, 169, 182)
  where the search folds their case (search/handler/handler.go:277): "Mysuru" and
  "mysuru" are two suggestions, each counting a part of what the search for it finds.
* "A venue a date search shows is one that can be booked then" (availability.go:60-64).
  A hall with its morning free on one day and its evening on the next is shown for both
  when no slot is asked for, and no one slot can be claimed on both. A search spans up to
  30 days and a booking of a hall 14. `FoundIsBookable` states what holds. An "owner's
  BLOCKED" row that the search would count as taken, and the claim (repository.go:431)
  would not, is in no model: no statement of the program writes that status.
* A card tests a coupon's minimum against the full price and checkout against the
  discounted one, which may refuse the coupon; `CardIsCharged` says exactly when.
* The preview "returns exactly what the booking will charge" (booking/handler/quote.go:22),
  but its total adds a 2 % fee and 18 % tax that neither the service nor payment
  charges. `PreviewIsCharged` says that the hall price and the discounts are what is
  charged and that the total is more, unless nothing is charged.
* The preview looks for taken rows of the requested slot only (quote.go:256): it calls a
  whole day available when a half of it is taken, and a half when the whole day is, and
  the booking is then refused. `PreviewIsCharged` says a claim succeeds exactly when the
  preview says so *and* no slot that overlaps the form's is taken.
* "Anything touching both halves of the day takes the whole day" (handler.go:124), but
  `slotFor` compares hours: an event that ends at 12:45 is a MORNING, and one that starts
  at 12:00 an EVENING of the same hall and day. `HoursApart` says when such two are on
  together: in the hour after noon, and exactly when the one ends after the other began.

## 6. Plan

Done: bookings, claims, requests, payments, outbox, quotes, coupons, accounts, the
gallery, the catalogue and reviews, and the proofs of section 4. Next, in this order:

1. Steps that today follow from an invariant only, as action properties: a coupon's
   scope, a booking's key, a rotated token.
2. The safety half of the liveness properties: from every reachable state of a claim
   or a checkout, the step that unblocks it exists (no cycle of waits).
3. The remaining producers of notices (reminders, receipts, announcements) and device
   tokens, which insert into `Outbox` rows of kinds it has.
4. The cancellation rules as a function with a reference definition.

## 7. Not modelled

Handlers' decoding and validation, display queries that nothing is promised about
(dashboards, ranking, paging), content pages, vendors' KYC and profile CRUD write at
most one row and read nothing another step could invalidate; providers, storage and
cryptography are input and output; the offline tools run alone. Inside the modelled
components: guest details, cursors and the feed, device tokens and locations, the
words of a text in order, distances, and the signature of a webhook, which is checked
before any state is touched. `PROJECT.json` says it component by component.
