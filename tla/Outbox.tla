------------------------------- MODULE Outbox -------------------------------
(***************************************************************************)
(* The notification outbox: one row of the table notifications per thing   *)
(* that happened, recipient role and channel                               *)
(* (internal/notification).  Consumers and hooks enqueue rows, a ticker in *)
(* every worker claims the due ones and sends them, and people stop the    *)
(* reminders by answering.  Each action is one statement or transaction.   *)
(*                                                                         *)
(* A row is a record of booking, event, role and channel; the rows of      *)
(* "booking.created" carry the booking's id, the others are about a        *)
(* booking but have booking_id NULL.  Rows is the set of rows whose        *)
(* recipient has an address for the channel.                               *)
(***************************************************************************)
EXTENDS Integers, FiniteSets, FiniteSetsExt

CONSTANTS Bookings, Rows, Workers, MaxAttempts, BatchSize

Events == {"booking.created", "booking.declined", "booking.decided"}
Roles == {"OWNER", "ADMIN", "CUSTOMER", "USER"}

ASSUME RowsAssumption ==
  \A r \in Rows : r.booking \in Bookings /\ r.event \in Events /\ r.role \in Roles
ASSUME LimitsAssumption == MaxAttempts \in Nat \ {0} /\ BatchSize \in Nat \ {0}

VARIABLES
  state,     \* notifications.status, NONE before the row exists
  due,       \* next_attempt_at: NULL, in the future, or past
  attempts,  \* notifications.attempts, counted up to MaxAttempts + 1
  told,      \* rows with sent_at set
  batch,     \* what each worker claimed and has yet to send
  booking,   \* bookings.status, as far as the outbox looks at it
  todo,      \* steps a request still has to run after its own commit
  answered   \* history: the <<booking, role>> whose chase was answered

rows == <<state, due, attempts, told>>
vars == <<state, due, attempts, told, batch, booking, todo, answered>>

States == {"NONE", "PENDING", "SENT", "ACKED", "DECLINED", "FAILED", "CANCELLED"}
Dues == {"never", "later", "now"}
Counts == 0..(MaxAttempts + 1)
Steps == {"ack", "notify", "alert"} \X Bookings

Linked(r) == r.event = "booking.created"
Chased(r) == r.role \in {"OWNER", "ADMIN"}
Dead(b) == booking[b] \in {"REJECTED", "ENDED"}

Init ==
  /\ state = [r \in Rows |-> "NONE"]
  /\ due = [r \in Rows |-> "never"]
  /\ attempts = [r \in Rows |-> 0]
  /\ told = {}
  /\ batch = [w \in Workers |-> {}]
  /\ booking = [b \in Bookings |-> "PENDING"]
  /\ todo = {}
  /\ answered = {}

-----------------------------------------------------------------------------
(* Enqueueing.  A row that exists already absorbs the insert.              *)

\* Mutant: ON CONFLICT DO UPDATE, so that a redelivered event revives its rows.
FreshAlways(S) == S

Fresh(S) == {r \in S : state[r] = "NONE"}

Enqueue(S) ==
  /\ state' = [r \in Rows |-> IF r \in Fresh(S) THEN "PENDING" ELSE state[r]]
  /\ due' = [r \in Rows |-> IF r \in Fresh(S) THEN "now" ELSE due[r]]
  /\ UNCHANGED <<attempts, told>>

\* booking.created is consumed, or delivered again: row by row, since an
\* insert may fail and leave the rest to the redelivery.
EnqueueBookingCreated(r) ==
  /\ Linked(r)
  /\ Enqueue({r})
  /\ UNCHANGED <<batch, booking, todo, answered>>

RowsOf(b, event) == {r \in Rows : r.booking = b /\ r.event = event}

-----------------------------------------------------------------------------
(* Dispatching.                                                            *)

\* The retry interval of a row passes.
Tick(r) ==
  /\ due[r] = "later"
  /\ due' = [due EXCEPT ![r] = "now"]
  /\ UNCHANGED <<state, attempts, told, batch, booking, todo, answered>>

Claimable == {r \in Rows : /\ state[r] = "PENDING"
                           /\ due[r] = "now"
                           /\ ~(Linked(r) /\ Dead(r.booking))}

\* The oldest due rows, as many as fit: the claim reads their attempts, then
\* raises them and moves the rows one retry interval on.
ClaimDue(w) ==
  /\ batch[w] = {} /\ Claimable # {}
  /\ \E S \in kSubset(Min({BatchSize, Cardinality(Claimable)}), Claimable) :
       /\ batch' = [batch EXCEPT ![w] = {[row |-> r, attempts |-> attempts[r]] : r \in S}]
       /\ attempts' = [r \in Rows |-> IF r \in S /\ attempts[r] <= MaxAttempts
                                      THEN attempts[r] + 1 ELSE attempts[r]]
       /\ due' = [r \in Rows |-> IF r \in S THEN "later" ELSE due[r]]
  /\ UNCHANGED <<state, told, booking, todo, answered>>

MarkSent(r) ==
  /\ told' = told \cup {r}
  /\ IF Chased(r) THEN UNCHANGED <<state, due>>
     ELSE state' = [state EXCEPT ![r] = "SENT"] /\ due' = [due EXCEPT ![r] = "never"]
  /\ UNCHANGED attempts

\* Mutant: gives up one failure early.
ExhaustedEarly(n) == n >= MaxAttempts - 1
\* Mutant: never gives up.
ExhaustedNever(n) == n > MaxAttempts + 1

Exhausted(n) == n >= MaxAttempts

\* n is the count the claim read; the row may have changed since.
MarkFailed(r, n) ==
  /\ state' = [state EXCEPT ![r] = IF Exhausted(n) THEN "FAILED" ELSE "PENDING"]
  /\ due' = [due EXCEPT ![r] = IF Exhausted(n) THEN "never" ELSE @]
  /\ UNCHANGED <<attempts, told>>

Done(w, c) ==
  /\ c \in batch[w]
  /\ batch' = [batch EXCEPT ![w] = @ \ {c}]
  /\ UNCHANGED <<booking, todo, answered>>

Dispatch(w, c) == Done(w, c) /\ (MarkSent(c.row) \/ MarkFailed(c.row, c.attempts))

\* The worker dies before it records the outcome, or the update fails.
Unrecorded(w, c) == Done(w, c) /\ UNCHANGED rows

-----------------------------------------------------------------------------
(* Answering.                                                              *)

Open(S) == {r \in S : state[r] \in {"PENDING", "SENT"}}

Stop(S, answer) ==
  /\ state' = [r \in Rows |-> IF r \in Open(S) THEN answer ELSE state[r]]
  /\ due' = [r \in Rows |-> IF r \in Open(S) THEN "never" ELSE due[r]]
  /\ UNCHANGED <<attempts, told>>

Chase(b, roles) == {r \in RowsOf(b, "booking.created") : r.role \in roles}

\* Ack, AckAdmin or AckByToken: somebody confirms having seen the request.
Ack(b, role) ==
  /\ Open(Chase(b, {role})) # {}
  /\ Stop(Chase(b, {role}), "ACKED")
  /\ answered' = answered \cup {<<b, role>>}
  /\ UNCHANGED <<batch, booking, todo>>

\* The decline link in a message; ops is told next.
Decline(b, role) ==
  /\ Open(Chase(b, {role})) # {}
  /\ Stop(Chase(b, {role}), "DECLINED")
  /\ answered' = answered \cup {<<b, role>>}
  /\ todo' = todo \cup {<<"alert", b>>}
  /\ UNCHANGED <<batch, booking>>

\* The booking is decided: its hook will stop the chase, then tell the customer.
Decide(b, verdict) ==
  /\ booking[b] = "PENDING"
  /\ booking' = [booking EXCEPT ![b] = verdict]
  /\ todo' = todo \cup {<<"ack", b>>}
  /\ UNCHANGED <<state, due, attempts, told, batch, answered>>

\* The update may fail: the hook logs that and goes on.
AckDecided(b) ==
  /\ <<"ack", b>> \in todo
  /\ \/ /\ Stop(Chase(b, {"OWNER", "ADMIN"}), "ACKED")
        /\ answered' = answered \cup {<<b, "OWNER">>, <<b, "ADMIN">>}
     \/ UNCHANGED <<rows, answered>>
  /\ todo' = (todo \ {<<"ack", b>>}) \cup {<<"notify", b>>}
  /\ UNCHANGED <<batch, booking>>

NotifyUser(b) ==
  /\ <<"notify", b>> \in todo
  /\ Enqueue(RowsOf(b, "booking.decided"))
  /\ todo' = todo \ {<<"notify", b>>}
  /\ UNCHANGED <<batch, booking, answered>>

NotifyAdmins(b) ==
  /\ <<"alert", b>> \in todo
  /\ Enqueue(RowsOf(b, "booking.declined"))
  /\ todo' = todo \ {<<"alert", b>>}
  /\ UNCHANGED <<batch, booking, answered>>

\* The process dies, or its insert fails: nobody runs the rest of the request.
HookLost(t) ==
  /\ t \in todo
  /\ todo' = todo \ {t}
  /\ UNCHANGED <<state, due, attempts, told, batch, booking, answered>>

\* The customer cancels or the sweeper expires the booking.
BookingEnds(b) ==
  /\ booking[b] \in {"PENDING", "CONFIRMED"}
  /\ booking' = [booking EXCEPT ![b] = "ENDED"]
  /\ UNCHANGED <<state, due, attempts, told, batch, todo, answered>>

Pending(b) == {r \in RowsOf(b, "booking.created") : state[r] = "PENDING"}

\* booking.cancelled or booking.expired is consumed, or delivered again.
CancelForBooking(b) ==
  /\ booking[b] = "ENDED"
  /\ state' = [r \in Rows |-> IF r \in Pending(b) THEN "CANCELLED" ELSE state[r]]
  /\ due' = [r \in Rows |-> IF r \in Pending(b) THEN "never" ELSE due[r]]
  /\ UNCHANGED <<attempts, told, batch, booking, todo, answered>>

-----------------------------------------------------------------------------
Send(r) == \E w \in Workers : \E c \in batch[w] : c.row = r /\ Dispatch(w, c)

Answer(b) ==
  \/ \E role \in {"OWNER", "ADMIN"} : Ack(b, role) \/ Decline(b, role)
  \/ \E verdict \in {"CONFIRMED", "REJECTED"} : Decide(b, verdict)
  \/ AckDecided(b) \/ NotifyUser(b) \/ NotifyAdmins(b)
  \/ BookingEnds(b) \/ CancelForBooking(b)

Next ==
  \/ \E r \in Rows : EnqueueBookingCreated(r) \/ Tick(r) \/ Send(r)
  \/ \E w \in Workers : ClaimDue(w) \/ \E c \in batch[w] : Unrecorded(w, c)
  \/ \E b \in Bookings : Answer(b)
  \/ \E t \in todo : HookLost(t)

Spec == Init /\ [][Next]_vars

(***************************************************************************)
(* The tickers run, time passes, ended bookings' events are consumed, and  *)
(* of the outcomes of one row's deliveries not all are lost.  ClaimDue     *)
(* takes the oldest rows first, so no due row is passed over for ever.     *)
(***************************************************************************)
ClaimsRow(r) == \E w \in Workers : ClaimDue(w) /\ \E c \in batch'[w] : c.row = r

FairSpec ==
  /\ Spec
  /\ \A r \in Rows : /\ WF_vars(Tick(r))
                     /\ SF_vars(ClaimsRow(r))
                     /\ SF_vars(Send(r))
  /\ \A b \in Bookings : WF_vars(CancelForBooking(b))

-----------------------------------------------------------------------------
(* What must hold.                                                         *)

\* Every column holds one of its values, and a worker holds rows it claimed.
TypeOK ==
  /\ state \in [Rows -> States]
  /\ due \in [Rows -> Dues]
  /\ attempts \in [Rows -> Counts]
  /\ told \subseteq Rows
  /\ batch \in [Workers -> SUBSET [row : Rows, attempts : Counts]]
  /\ booking \in [Bookings -> {"PENDING", "CONFIRMED", "REJECTED", "ENDED"}]
  /\ todo \subseteq Steps
  /\ answered \subseteq Bookings \X Roles

\* A row that has a next attempt is PENDING: nothing that was acknowledged,
\* declined, cancelled, sent for good or given up is on the schedule, even
\* after a worker wrote an outcome over a row that changed since its claim.
ScheduledIsPending == \A r \in Rows : due[r] # "never" => state[r] = "PENDING"

\* The chase of an owner or of ops goes silent only because its role answered,
\* the booking ended, or the row failed MaxAttempts times over: a delivery is
\* not an answer.
ChasedUntilAnswered ==
  \A r \in Rows : Linked(r) /\ Chased(r) /\ state[r] # "NONE" /\ due[r] = "never"
    => \/ <<r.booking, r.role>> \in answered
       \/ booking[r.booking] = "ENDED"
       \/ attempts[r] > MaxAttempts

\* A row that went silent stays silent: no redelivered event, no late outcome
\* of another worker puts it back on the schedule.
SilentForGood ==
  \A r \in Rows : state[r] # "NONE" /\ due[r] = "never" => due'[r] = "never"

Claimed(r) == \E w \in Workers : batch[w] = {} /\ \E c \in batch'[w] : c.row = r

\* In no order of booking.created, booking.cancelled and the decision does a
\* worker pick up a row about a booking that is already dead.
DeadNotChased ==
  \A r \in Rows : Linked(r) /\ Dead(r.booking) => ~Claimed(r)

\* A customer's notice is not resent for ever: it is delivered or given up,
\* unless its booking dies first.
NoticesSettle ==
  \A r \in Rows : ~Chased(r) =>
    ((state[r] # "NONE") ~> (due[r] = "never" \/ (Linked(r) /\ Dead(r.booking))))

\* Whoever has not answered is reminded again, while the booking lives.
KeepsChasing ==
  \A r \in Rows : Chased(r) =>
    ((due[r] # "never")
       ~> \/ \E w \in Workers : \E c \in batch[w] : c.row = r
          \/ due[r] = "never"
          \/ Linked(r) /\ Dead(r.booking))

\* The schedule of every row is sound: only a PENDING row has one, and a chase
\* loses it only for a reason (MarkSent, MarkFailed, AckByToken, AckDecided).
ScheduleSound == ScheduledIsPending /\ ChasedUntilAnswered

\* Silence is kept, about rows that went silent and about bookings that died.
SilenceKept == [][SilentForGood /\ DeadNotChased]_vars

\* Every row makes its way: a notice to its end, a chase to its next reminder.
RowsProgress == NoticesSettle /\ KeepsChasing

-----------------------------------------------------------------------------
(* What the comments say and the code does not do.                         *)

\* service.go:162-164: an event that is not a booking request is told once.
EventsToldOnce == [][\A r \in Rows : ~Linked(r) /\ r \in told => ~Claimed(r)]_vars
=============================================================================
