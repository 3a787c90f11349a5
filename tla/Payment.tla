-------------------------------- MODULE Payment --------------------------------
(***************************************************************************)
(* Payment orders, gateway webhooks and refunds, and what they do to the   *)
(* paid_amount and the status of a booking, while the customer, the owner  *)
(* and the sweeper move the same booking (actions of BookingLifecycle).    *)
(*                                                                         *)
(* Every action is one transaction: each locks FOR UPDATE the rows it      *)
(* decides on.  The gateway is external: it may send any outcome for any   *)
(* order, in any order, and deliver every event as often as it likes.      *)
(***************************************************************************)
EXTENDS Integers, FiniteSetsExt

CONSTANTS
  Bookings,
  Total,        \* [Bookings -> Nat], bookings.total_amount
  Orders,       \* ids of payment rows (one gateway order each)
  Events,       \* webhook event ids
  NoBooking,
  NoEvent

VARIABLES
  status, hold, \* the booking rows, as in BookingLifecycle
  paid,         \* [Bookings -> Nat], bookings.paid_amount
  orderOf,      \* [Orders -> Bookings], payments.booking_id
  amount,       \* [Orders -> Nat], payments.amount
  orderStatus,  \* [Orders -> OrderStatus], payments.status
  refunded,     \* [Orders -> Nat], sum of the order's rows in refunds
  sent,         \* [Events -> Message], what the gateway sent under an event id
  recorded      \* SUBSET Events, payment_webhook_events

bookingVars == <<status, hold>>
orderVars   == <<orderOf, amount, orderStatus, refunded>>
eventVars   == <<sent, recorded>>
vars        == <<bookingVars, paid, orderVars, eventVars>>

L == INSTANCE BookingLifecycle

ASSUME ConstantsAssumption ==
  /\ Total \in [Bookings -> Nat]
  /\ NoBooking \notin Bookings

--------------------------------------------------------------------------------
Refundable  == {"SUCCESS", "PARTIALLY_REFUNDED"}
Paid        == Refundable \cup {"REFUNDED"}
OrderStatus == {"NONE", "PENDING", "FAILED"} \cup Paid

Outcome == {"SUCCESS", "FAILED", "OTHER"}
Message == [order : Orders, outcome : Outcome]

TypeOK ==
  /\ L!TypeOK
  /\ paid \in [Bookings -> Nat]
  /\ orderOf \in [Orders -> Bookings \cup {NoBooking}]
  /\ amount \in [Orders -> Nat]
  /\ orderStatus \in [Orders -> OrderStatus]
  /\ refunded \in [Orders -> Nat]
  /\ sent \in [Events -> Message \cup {NoEvent}]
  /\ recorded \in SUBSET Events

Init ==
  /\ L!Init
  /\ paid = [b \in Bookings |-> 0]
  /\ orderOf = [o \in Orders |-> NoBooking]
  /\ amount = [o \in Orders |-> 0]
  /\ orderStatus = [o \in Orders |-> "NONE"]
  /\ refunded = [o \in Orders |-> 0]
  /\ sent = [e \in Events |-> NoEvent]
  /\ recorded = {}

--------------------------------------------------------------------------------
\* The booking moves for a reason other than money.
BookingMoves(b) ==
  /\ \/ \E h \in {"none", "running"} : L!Open(b, h)
     \/ L!Elapse(b) \/ L!Accept(b) \/ L!Reject(b) \/ L!Cancel(b) \/ L!Expire(b)
  /\ UNCHANGED <<paid, orderVars, eventVars>>

OpenOrders(b) == {o \in Orders : orderOf[o] = b /\ orderStatus[o] = "PENDING"}

\* The charge is the outstanding balance.
WholeTotal(b) == IF paid[b] < Total[b] THEN Total[b] ELSE 0   \* mutant

Due(b) == Total[b] - paid[b]

MayOpen(b) == OpenOrders(b) = {}

\* The customer asks to pay.  While an order is open the same one is returned
\* again and nothing changes.
Create(b, o) ==
  /\ status[b] \in L!Live
  /\ Due(b) > 0
  /\ MayOpen(b)
  /\ orderStatus[o] = "NONE"
  /\ orderOf' = [orderOf EXCEPT ![o] = b]
  /\ amount' = [amount EXCEPT ![o] = Due(b)]
  /\ orderStatus' = [orderStatus EXCEPT ![o] = "PENDING"]
  /\ UNCHANGED <<bookingVars, paid, refunded, eventVars>>

\* The gateway reports on an order, under a fresh event id.
GatewaySends(e, o, outcome) ==
  /\ sent[e] = NoEvent
  /\ orderStatus[o] # "NONE"
  /\ sent' = [sent EXCEPT ![e] = [order |-> o, outcome |-> outcome]]
  /\ UNCHANGED <<bookingVars, paid, orderVars, recorded>>

--------------------------------------------------------------------------------
(* HandleWebhook.  A delivery changes nothing when its event is recorded, when *)
(* its order is no longer PENDING, or when its status is neither SUCCESS nor   *)
(* FAILED: the transaction returns early and rolls back, the event id included.*)

DeliveredToAny(e, outcome) ==   \* mutant: only the event id is remembered
  /\ sent[e] # NoEvent
  /\ sent[e].outcome = outcome
  /\ e \notin recorded
  /\ recorded' = recorded \cup {e}

DeliveredToLive(e, outcome) ==   \* mutant: refused once the booking has ended
  /\ sent[e] # NoEvent
  /\ sent[e].outcome = outcome
  /\ e \notin recorded
  /\ orderStatus[sent[e].order] = "PENDING"
  /\ status[orderOf[sent[e].order]] \in L!Live
  /\ recorded' = recorded \cup {e}

Delivered(e, outcome) ==
  /\ sent[e] # NoEvent
  /\ sent[e].outcome = outcome
  /\ e \notin recorded
  /\ orderStatus[sent[e].order] = "PENDING"
  /\ recorded' = recorded \cup {e}

\* Only a live booking is confirmed, and only when the total is reached.
SettlesEnded(b, x) == paid[b] + x >= Total[b]   \* mutant: revives an ended booking

Settles(b, x) == status[b] \in L!Live /\ paid[b] + x >= Total[b]

\* The booking is credited whatever its status.
WebhookSuccess(e) ==
  LET o == sent[e].order
      b == orderOf[o]
  IN /\ Delivered(e, "SUCCESS")
     /\ orderStatus' = [orderStatus EXCEPT ![o] = "SUCCESS"]
     /\ paid' = [paid EXCEPT ![b] = @ + amount[o]]
     /\ status' = IF Settles(b, amount[o]) THEN [status EXCEPT ![b] = "CONFIRMED"] ELSE status
     /\ hold' = IF Settles(b, amount[o]) THEN [hold EXCEPT ![b] = "none"] ELSE hold
     /\ UNCHANGED <<orderOf, amount, refunded, sent>>

WebhookFailed(e) ==
  /\ Delivered(e, "FAILED")
  /\ orderStatus' = [orderStatus EXCEPT ![sent[e].order] = "FAILED"]
  /\ UNCHANGED <<bookingVars, paid, orderOf, amount, refunded, sent>>

--------------------------------------------------------------------------------
\* A successful payment, and no more than is left of it.
MayRefund(o, x) == orderStatus[o] \in Refundable /\ refunded[o] + x <= amount[o]

\* The venue's owner or an admin refunds x of a payment.
Refund(o, x) ==
  LET b == orderOf[o]
  IN /\ MayRefund(o, x)
     /\ refunded' = [refunded EXCEPT ![o] = @ + x]
     /\ orderStatus' = [orderStatus EXCEPT
          ![o] = IF refunded[o] + x >= amount[o] THEN "REFUNDED" ELSE "PARTIALLY_REFUNDED"]
     /\ paid' = [paid EXCEPT ![b] = IF @ - x > 0 THEN @ - x ELSE 0]
     /\ UNCHANGED <<bookingVars, orderOf, amount, eventVars>>

--------------------------------------------------------------------------------
Next ==
  \/ \E b \in Bookings : BookingMoves(b)
  \/ \E b \in Bookings, o \in Orders : Create(b, o)
  \/ \E e \in Events, o \in Orders, outcome \in Outcome : GatewaySends(e, o, outcome)
  \/ \E e \in Events : WebhookSuccess(e) \/ WebhookFailed(e)
  \/ \E o \in Orders : \E x \in 1 .. amount[o] : Refund(o, x)

Spec == Init /\ [][Next]_vars

\* The gateway redelivers an event until it is acknowledged.
FairSpec == Spec /\ \A e \in Events : WF_vars(WebhookSuccess(e) \/ WebhookFailed(e))

--------------------------------------------------------------------------------
(* Properties *)

\* "One open order per booking": two orders for the same balance could both be
\* paid (Service.Create).
OneOpenOrder == \A b \in Bookings : \A o, p \in OpenOrders(b) : o = p

\* A booking is never charged beyond its total: what it has paid and what it
\* may still be asked to pay under an order already handed out stay within it,
\* whatever is refunded, ended or delivered late.
NeverOvercharged ==
  \A b \in Bookings :
    /\ paid[b] <= Total[b]
    /\ \A o \in OpenOrders(b) : paid[b] + amount[o] <= Total[b]

\* No order gives back more than it took, and its status says how much it did.
RefundsBounded ==
  \A o \in Orders :
    /\ refunded[o] <= amount[o]
    /\ orderStatus[o] = "REFUNDED" <=> refunded[o] > 0 /\ refunded[o] = amount[o]
    /\ orderStatus[o] = "PARTIALLY_REFUNDED" <=> 0 < refunded[o] /\ refunded[o] < amount[o]

PaidOrders(b) == {o \in Orders : orderOf[o] = b /\ orderStatus[o] \in Paid}

\* paid_amount is the money of the booking's successful orders less its refunds:
\* an event delivered twice, or two events for one order, credit it once, and
\* GREATEST(paid_amount - x, 0) never hides a difference.
PaidMatchesOrders ==
  \A b \in Bookings :
    paid[b] = SumFunction([o \in PaidOrders(b) |-> amount[o] - refunded[o]])

\* A booking still waiting for the owner has never been paid for: full payment
\* confirms it in the same transaction that credits it.
PendingIsUnpaid == \A b \in Bookings : status[b] = "PENDING" => paid[b] = 0

\* What may be asked for, what was taken and what was given back stay within
\* the total, however taps, webhooks, refunds and the end of the booking follow
\* each other (Create, HandleWebhook, Refund).
MoneySound == OneOpenOrder /\ NeverOvercharged /\ RefundsBounded /\ PendingIsUnpaid

\* Every transition of a booking row is one the lifecycle allows: a webhook that
\* arrives after a cancel or an expiry credits the booking but never revives it,
\* and never stops its clock short of full payment.
LifecycleHolds == L!Spec

\* Money the gateway took is not forgotten: an order with a SUCCESS event is
\* eventually no longer PENDING (a FAILED event may have closed it instead).
CapturedSettles ==
  \A e \in Events :
    (sent[e] # NoEvent /\ sent[e].outcome = "SUCCESS") ~>
      (sent[e] # NoEvent /\ orderStatus[sent[e].order] # "PENDING")
================================================================================
