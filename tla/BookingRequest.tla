---------------------------- MODULE BookingRequest -----------------------------
(***************************************************************************)
(* One create-booking request and its retries: the idempotency-key lookup, *)
(* the transaction that inserts the row and claims the venue, the second   *)
(* lookup of the loser, and the announcement of the new booking.           *)
(*                                                                         *)
(* A call is one HTTP request being handled.  The client may time out and  *)
(* send the same request again while the first call is still running, and  *)
(* a call may die anywhere.  A call inserts at most one row, so a row is   *)
(* named by the call that inserted it.  The insert of the row and the      *)
(* claim of the dates are separate statements of one transaction; the      *)
(* claim and the commit are one step, which HallClaim justifies.  The      *)
(* names differ from HallClaim's, so that one module can extend both.      *)
(***************************************************************************)
EXTENDS Integers, FiniteSets

CONSTANTS
  Calls,
  UserOf,       \* [Calls -> user]
  IdemKey,      \* [Calls -> idempotency key, or NoKey]
  SlotOf,       \* [Calls -> Slots], what the call wants to book
  Slots,
  NoKey,        \* the empty key, stored as NULL
  Nothing       \* no answer yet, no owner

VARIABLES
  stage,        \* [Calls -> CallStep]
  row,          \* [Calls -> RowState], the row the call inserted
  slotHolder,   \* [Slots -> Calls], whose row has the slot
  answer,       \* [Calls -> Answer], what the client is told
  announced     \* [Calls -> Nat], calls of OnBookingCreated for the row

requestVars == <<stage, row, slotHolder, answer, announced>>

CallStep == {"idle", "lookup", "inserting", "claiming", "announcing", "answering",
             "relookup", "done", "lost"}

\* A row of an open transaction, then of a live and of an ended booking.
RowState == {"none", "open", "live", "ended"}

Refusals == {"invalid", "keyConflict", "slotTaken", "duplicate"}
Answer   == Calls \cup Refusals \cup {Nothing}

ASSUME CallsAssumption ==
  /\ SlotOf \in [Calls -> Slots]
  /\ DOMAIN UserOf = Calls /\ DOMAIN IdemKey = Calls
  /\ Nothing \notin Calls \cup Refusals
  /\ Calls \cap Refusals = {}

\* What the variables hold; a row is open exactly while its call is at the claim.
CallsTypeOK ==
  /\ stage \in [Calls -> CallStep]
  /\ row \in [Calls -> RowState]
  /\ slotHolder \in [Slots -> Calls \cup {Nothing}]
  /\ answer \in [Calls -> Answer]
  /\ announced \in [Calls -> Nat]
  /\ \A c \in Calls : row[c] = "open" <=> stage[c] = "claiming"

RequestInit ==
  /\ stage = [c \in Calls |-> "idle"]
  /\ row = [c \in Calls |-> "none"]
  /\ slotHolder = [s \in Slots |-> Nothing]
  /\ answer = [c \in Calls |-> Nothing]
  /\ announced = [c \in Calls |-> 0]

--------------------------------------------------------------------------------
StageTo(c, from, to) ==
  /\ stage[c] = from
  /\ stage' = [stage EXCEPT ![c] = to]

Reply(c, a) == answer' = [answer EXCEPT ![c] = a]

Committed == {c \in Calls : row[c] \in {"live", "ended"}}

Arrive(c) ==
  /\ StageTo(c, "idle", IF IdemKey[c] = NoKey THEN "inserting" ELSE "lookup")
  /\ UNCHANGED <<row, slotHolder, answer, announced>>

\* FindByIdempotencyKey sees committed rows, ended ones included; the empty key
\* matches nothing.
StoredUnder(c) == {b \in Committed : IdemKey[c] # NoKey /\ IdemKey[b] = IdemKey[c]}

\* The original booking to the user who made it, whatever has become of it.
OriginalToAnyone(c, b) == b   \* mutant: the owner of the key is not checked

Original(c, b) == IF UserOf[b] = UserOf[c] THEN b ELSE "keyConflict"

Lookup(c) ==
  /\ IF StoredUnder(c) = {}
     THEN StageTo(c, "lookup", "inserting") /\ UNCHANGED answer
     ELSE StageTo(c, "lookup", "done") /\ \E b \in StoredUnder(c) : Reply(c, Original(c, b))
  /\ UNCHANGED <<row, slotHolder, announced>>

\* Validation and pricing may refuse between the lookup and the transaction.
Refuse(c) ==
  /\ StageTo(c, "inserting", "done")
  /\ Reply(c, "invalid")
  /\ UNCHANGED <<row, slotHolder, announced>>

--------------------------------------------------------------------------------
(* The transaction *)

OpenUnder(c) == {b \in Calls : row[b] = "open" /\ IdemKey[c] # NoKey /\ IdemKey[b] = IdemKey[c]}

\* INSERT INTO bookings: the unique index makes it wait for an open transaction
\* with the same key, and fail once one has committed.
InsertRowUnchecked(c) ==   \* mutant: no unique index on the key
  /\ StageTo(c, "inserting", "claiming")
  /\ row' = [row EXCEPT ![c] = "open"]
  /\ UNCHANGED <<slotHolder, answer, announced>>

InsertRow(c) ==
  /\ OpenUnder(c) = {}
  /\ IF StoredUnder(c) = {}
     THEN StageTo(c, "inserting", "claiming") /\ row' = [row EXCEPT ![c] = "open"]
     ELSE StageTo(c, "inserting", "relookup") /\ UNCHANGED row
  /\ UNCHANGED <<slotHolder, answer, announced>>

\* The claim and the commit, or the rollback when somebody has the slot.
Claim(c) ==
  /\ slotHolder[SlotOf[c]] = Nothing
  /\ StageTo(c, "claiming", "announcing")
  /\ row' = [row EXCEPT ![c] = "live"]
  /\ slotHolder' = [slotHolder EXCEPT ![SlotOf[c]] = c]
  /\ UNCHANGED <<answer, announced>>

SlotTaken(c) ==
  /\ slotHolder[SlotOf[c]] # Nothing
  /\ StageTo(c, "claiming", "done")
  /\ Reply(c, "slotTaken")
  /\ row' = [row EXCEPT ![c] = "none"]
  /\ UNCHANGED <<slotHolder, announced>>

\* OnBookingCreated: only the call that made the booking.
Announce(c) ==
  /\ StageTo(c, "announcing", "answering")
  /\ announced' = [announced EXCEPT ![c] = @ + 1]
  /\ UNCHANGED <<row, slotHolder, answer>>

\* The booking is the answer.
AnswerCreated(c) ==
  /\ StageTo(c, "answering", "done")
  /\ Reply(c, c)
  /\ UNCHANGED <<row, slotHolder, announced>>

\* "Lost the race on the idempotency key: the winner's booking is the answer."
Relookup(c) ==
  /\ StageTo(c, "relookup", "done")
  /\ IF StoredUnder(c) = {}
     THEN Reply(c, "duplicate")
     ELSE \E b \in StoredUnder(c) : Reply(c, Original(c, b))
  /\ UNCHANGED <<row, slotHolder, announced>>

--------------------------------------------------------------------------------
\* The process or the connection dies; an open transaction rolls back.
LoseKept(c) ==   \* mutant: the row of the open transaction outlives it
  /\ stage[c] \in {"lookup", "inserting", "claiming", "announcing", "answering", "relookup"}
  /\ stage' = [stage EXCEPT ![c] = "lost"]
  /\ UNCHANGED <<row, slotHolder, answer, announced>>

Lose(c) ==
  /\ stage[c] \in {"lookup", "inserting", "claiming", "announcing", "answering", "relookup"}
  /\ stage' = [stage EXCEPT ![c] = "lost"]
  /\ row' = [row EXCEPT ![c] = IF @ = "open" THEN "none" ELSE @]
  /\ UNCHANGED <<slotHolder, answer, announced>>

\* A booking is cancelled, rejected or expired and gives its slot back.
End(c) ==
  /\ row[c] = "live"
  /\ row' = [row EXCEPT ![c] = "ended"]
  /\ slotHolder' = [s \in Slots |-> IF slotHolder[s] = c THEN Nothing ELSE slotHolder[s]]
  /\ UNCHANGED <<stage, answer, announced>>

Proceed(c) ==
  \/ Lookup(c) \/ InsertRow(c) \/ Claim(c) \/ SlotTaken(c)
  \/ Announce(c) \/ AnswerCreated(c) \/ Relookup(c)

RequestNext == \E c \in Calls : Arrive(c) \/ Refuse(c) \/ Lose(c) \/ End(c) \/ Proceed(c)

RequestSpec == RequestInit /\ [][RequestNext]_requestVars

\* The server goes on as long as some call can: a call has finitely many steps,
\* so nothing is asked of the order in which calls that can go on do.
RequestFairSpec == RequestSpec /\ WF_requestVars(\E c \in Calls : Proceed(c))

--------------------------------------------------------------------------------
(* Properties *)

SameRequest(c, d) == IdemKey[c] # NoKey /\ IdemKey[c] = IdemKey[d] /\ UserOf[c] = UserOf[d]

\* "An idempotent retry must return the original booking, not a second one":
\* two calls of one request that are answered with a booking are answered with
\* the same one, and nobody is ever answered with somebody else's.
AnswersAgree ==
  \A c \in Calls : answer[c] \in Calls =>
    /\ UserOf[answer[c]] = UserOf[c]
    /\ \A d \in Calls : SameRequest(c, d) /\ answer[d] \in Calls => answer[c] = answer[d]

\* A request without a key always makes a booking of its own: the next caller
\* who omits the key is not handed it.
KeylessIsFresh ==
  \A c \in Calls : IdemKey[c] = NoKey /\ answer[c] \in Calls => answer[c] = c

\* A retry is never told that the slot is gone because of the booking its own
\* first attempt made: the row with the key is inserted before the dates are
\* claimed.
NotTakenByItself ==
  [][\A c \in Calls :
       answer'[c] = "slotTaken" /\ answer[c] # "slotTaken" =>
         \A d \in Calls : slotHolder[SlotOf[c]] = d => ~SameRequest(c, d)]_requestVars

\* The answer "Duplicate booking request" is a fallback nobody reaches: a key
\* that was refused as a duplicate can be looked up.
NeverDuplicate == \A c \in Calls : answer[c] # "duplicate"

\* A booking is announced at most once however often its request is retried, and
\* before its maker is told of it.
AnnouncedOnce ==
  \A c \in Calls :
    /\ announced[c] <= 1
    /\ announced[c] = 1 => c \in Committed
    /\ answer[c] = c => announced[c] = 1

\* However often and however close together a request is repeated, whichever of
\* its calls dies: it has one booking, which is announced once and is nobody
\* else's answer (CreateVenueBooking).
RetriesSafe == CallsTypeOK /\ AnswersAgree /\ KeylessIsFresh /\ NeverDuplicate /\ AnnouncedOnce

\* No call waits for ever, not even behind another one with the same key.
\* A call arrives once, so it is enough that in the end none is on its way.
EveryCallAnswered == <>[](\A c \in Calls : stage[c] \in {"idle", "done", "lost"})
================================================================================
