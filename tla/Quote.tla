--------------------------------- MODULE Quote ---------------------------------
(***************************************************************************)
(* The negotiation of one quote by its customer, the venue's owner and     *)
(* admins, up to the booking it becomes.                                   *)
(*                                                                         *)
(* A request first loads the quote without a lock and checks what it read; *)
(* what it then writes is one statement or one transaction.  A conversion  *)
(* writes twice: the booking service creates the booking (external here:   *)
(* one booking per key, as BookingRequest shows), then the quote follows.  *)
(* A request may end after any step: refused, failed or dead.              *)
(***************************************************************************)
EXTENDS Integers, Sequences, SequencesExt, FiniteSets

CONSTANTS
  Calls, NoCall,    \* slots for requests under way, used over and over
  People, customer, owner, admins,
  Totals, NoAmount,
  Days, NoDate,     \* dates an offer may be valid until
  Keys, QuoteKey,   \* idempotency keys; QuoteKey is "quote-" + id
  MaxVersions       \* bound on the length of a negotiation

VARIABLES
  status,           \* quotes.status
  quoted,           \* quotes.quoted_amount
  validUntil,       \* quotes.valid_until
  versions,         \* quote_versions: who offered how much, by version_no
  booked,           \* [Keys -> Totals \cup {NoAmount}], bookings by key
  today,
  pc, call          \* the requests under way and what they loaded

quote     == <<status, quoted, validUntil, versions>>
quoteVars == <<quote, booked, today, pc, call>>

ASSUME ConstantsAssumption ==
  /\ {customer, owner} \cup admins \subseteq People
  /\ NoAmount \notin Totals
  /\ Days \subseteq Int /\ NoDate \notin Days
  /\ QuoteKey \in Keys
  /\ MaxVersions \in Nat

Negotiable == {"REQUESTED", "REPLIED", "COUNTERED"}
Settled    == {"ACCEPTED", "REJECTED", "CANCELLED", "CONVERTED"}
Ops        == {"reply", "counter", "accept", "reject", "cancel", "convert"}

Offers == [role : {"OWNER", "CUSTOMER"}, total : Totals]
\* What a request carries from its load to its writes.
Loaded == [op : Ops, by : People, status : Negotiable \cup Settled,
           quoted : Totals \cup {NoAmount}, day : Days, key : Keys]

TypeOK ==
  /\ status \in Negotiable \cup Settled
  /\ quoted \in Totals \cup {NoAmount}
  /\ validUntil \in Days \cup {NoDate}
  /\ versions \in Seq(Offers)
  /\ booked \in [Keys -> Totals \cup {NoAmount}]
  /\ today \in Days
  /\ pc \in [Calls -> {"idle", "loaded", "booked"}]
  /\ call \in [Calls -> Loaded \cup {NoCall}]
  /\ \A c \in Calls : pc[c] # "idle" => call[c] \in Loaded

\* The customer has asked for a quote.
QuoteInit ==
  /\ status = "REQUESTED" /\ quoted = NoAmount /\ validUntil = NoDate
  /\ versions = <<>>
  /\ booked = [k \in Keys |-> NoAmount]
  /\ today \in Days
  /\ pc = [c \in Calls |-> "idle"]
  /\ call = [c \in Calls |-> NoCall]

--------------------------------------------------------------------------------
Expired == validUntil # NoDate /\ validUntil < today

\* The side that did not make the offer on the table accepts it.
CanAccept(p) ==
  \/ status = "REPLIED" /\ p \in {customer} \cup admins
  \/ status = "COUNTERED" /\ p \in {owner} \cup admins

\* Who may ask for what, of the quote as loaded.
Allowed(p, op) ==
  CASE op = "reply"   -> p = owner /\ status \in Negotiable
    [] op = "counter" -> p = customer /\ status \in Negotiable
    [] op = "accept"  -> CanAccept(p) /\ ~Expired
    [] op \in {"reject", "cancel"} ->
         p \in {customer, owner} \cup admins /\ status \in Negotiable
    [] op = "convert" ->
         /\ p \in {customer} \cup admins
         /\ status = "ACCEPTED" /\ ~Expired /\ quoted # NoAmount

LoadQuote(c, p, op, key) ==
  /\ pc[c] = "idle"
  /\ Allowed(p, op)
  /\ pc' = [pc EXCEPT ![c] = "loaded"]
  /\ call' = [call EXCEPT ![c] = [op |-> op, by |-> p, status |-> status,
                                  quoted |-> quoted, day |-> today, key |-> key]]
  /\ UNCHANGED <<quote, booked, today>>

Reaches(c, ops) == pc[c] = "loaded" /\ call[c].op \in ops

\* The request is over; its slot is free for another.
Finish(c) ==
  /\ pc' = [pc EXCEPT ![c] = "idle"]
  /\ call' = [call EXCEPT ![c] = NoCall]

UnlockedCheck(c) == call[c].status \in Negotiable   \* mutant
\* Looked at again under the row lock.
StillNegotiable(c) == status \in Negotiable

AddVersion(c, total, until) ==
  /\ Reaches(c, {"reply", "counter"})
  /\ StillNegotiable(c)
  /\ Len(versions) < MaxVersions
  /\ LET owners == call[c].op = "reply" IN
     /\ status' = IF owners THEN "REPLIED" ELSE "COUNTERED"
     /\ versions' = Append(versions,
          [role |-> IF owners THEN "OWNER" ELSE "CUSTOMER", total |-> total])
  /\ quoted' = total
  /\ validUntil' = IF until = NoDate THEN validUntil ELSE until
  /\ Finish(c)
  /\ UNCHANGED <<booked, today>>

SameAmount(c) == quoted = call[c].quoted           \* mutant
\* The quote is as it was loaded, as far as the UPDATE looks.
Unchanged(c) == status = call[c].status /\ quoted = call[c].quoted

Accept(c) ==
  /\ Reaches(c, {"accept"})
  /\ Unchanged(c)
  /\ status' = "ACCEPTED"
  /\ Finish(c)
  /\ UNCHANGED <<quoted, validUntil, versions, booked, today>>

SameStatus(c) == status = call[c].status

SettledAs(c) == IF call[c].op = "reject" THEN "REJECTED" ELSE "CANCELLED"

Settle(c) ==
  /\ Reaches(c, {"reject", "cancel"})
  /\ SameStatus(c)
  /\ status' = SettledAs(c)
  /\ Finish(c)
  /\ UNCHANGED <<quoted, validUntil, versions, booked, today>>

ClientKey(c) == call[c].key                        \* mutant
\* The key the booking is created under, whatever the client sent.
Key(c) == QuoteKey
--------------------------------------------------------------------------------
\* The booking service creates the booking, or returns the one the key has.
Book(c) ==
  /\ Reaches(c, {"convert"})
  /\ booked' = [booked EXCEPT ![Key(c)] = IF @ = NoAmount THEN call[c].quoted ELSE @]
  /\ pc' = [pc EXCEPT ![c] = "booked"]
  /\ UNCHANGED <<quote, today, call>>

MarkConverted(c) ==
  /\ pc[c] = "booked"
  /\ status' = IF status = "ACCEPTED" THEN "CONVERTED" ELSE status
  /\ Finish(c)
  /\ UNCHANGED <<quoted, validUntil, versions, booked, today>>

\* Refused, failed, or the process died.
Abandon(c) == pc[c] # "idle" /\ Finish(c) /\ UNCHANGED <<quote, booked, today>>

NextDay ==
  /\ today + 1 \in Days
  /\ today' = today + 1
  /\ UNCHANGED <<quote, booked, pc, call>>

QuoteNext ==
  \/ \E c \in Calls :
       \/ \E p \in People, op \in Ops \ {"convert"} : LoadQuote(c, p, op, QuoteKey)
       \/ \E p \in People, k \in Keys : LoadQuote(c, p, "convert", k)
       \/ \E total \in Totals, until \in Days \cup {NoDate} : AddVersion(c, total, until)
       \/ Accept(c) \/ Settle(c) \/ Book(c) \/ MarkConverted(c) \/ Abandon(c)
  \/ NextDay

QuoteSpec == QuoteInit /\ [][QuoteNext]_quoteVars

--------------------------------------------------------------------------------
\* c's request is answered by this step.
Answered(c) == pc[c] # "idle" /\ pc'[c] = "idle"

\* Who may take the offer on the table, by who made it.
Takers == admins \cup {IF Last(versions).role = "OWNER" THEN customer ELSE owner}

\* An acceptance takes the offer on the table at the amount its author was
\* shown, and only the other side (or an admin) takes it, whatever landed
\* between the load and the conditional UPDATE of accept().
AcceptedAsSeen ==
  status # "ACCEPTED" /\ status' = "ACCEPTED" =>
    \E c \in Calls :
      /\ Answered(c)
      /\ call[c].quoted = Last(versions).total
      /\ call[c].by \in Takers

\* One quote, one booking: conversions racing with keys of their own, retried
\* or cut off between the booking and the quote's update, never book twice.
OneBooking == Cardinality({k \in Keys : booked[k] # NoAmount}) <= 1

\* A booking is made only of an offer that had not expired on the day the
\* conversion was asked for, although accept() looked at an earlier expiry.
BookedInTime ==
  booked' # booked =>
    \E c \in Calls :
      /\ pc'[c] = "booked" /\ pc[c] # "booked"
      /\ validUntil = NoDate \/ validUntil >= call[c].day

\* A quote rejected, cancelled or converted stays so: of requests that loaded
\* it open at the same time only one settles it.
SettledIsFinal == UNCHANGED status \/ status \notin Settled \ {"ACCEPTED"}

\* Every end of a negotiation is fair: it is agreed as it was shown, booked while
\* the offer stood, and never settled twice.
SettledFairly == [][AcceptedAsSeen /\ BookedInTime /\ SettledIsFinal]_quoteVars

Phase ==
  IF booked[QuoteKey] # NoAmount \/ status = "CONVERTED" THEN "booked"
  ELSE IF status = "ACCEPTED" THEN "agreed"
  ELSE IF status \in Negotiable THEN "open" ELSE "closed"

QP == INSTANCE QuotePromise
        WITH phase <- Phase, Amounts <- Totals, price <- quoted,
             deal <- booked[QuoteKey]

\* The quote keeps the promise of a negotiation: its price moves only while it
\* is open, and it is booked once, after agreement, at the agreed price.
PromiseHolds == QP!Spec
================================================================================
