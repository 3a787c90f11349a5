--------------------------- MODULE BookingLifecycle ---------------------------
(***************************************************************************)
(* What the rest of the system may rely on about the life of a booking row *)
(* (table bookings: status, expires_at), whoever moves it: the customer,   *)
(* the venue owner, the sweeper or the payment webhook.                    *)
(*                                                                         *)
(* This is the abstract specification.  Booking (rows together with the    *)
(* inventory they hold) and Payment (rows together with the money paid for *)
(* them) are both shown to implement it.                                   *)
(***************************************************************************)

CONSTANT Bookings   \* ids of booking rows

VARIABLES
  status,           \* [Bookings -> Status]; "NONE" before the row is inserted
  hold              \* [Bookings -> Hold], expires_at against the clock

lifecycleVars == <<status, hold>>

\* COMPLETED is in the schema's CHECK but no code path writes it.
Live   == {"PENDING", "CONFIRMED"}
Ended  == {"CANCELLED", "EXPIRED", "REJECTED"}
Status == {"NONE"} \cup Live \cup Ended

\* expires_at IS NULL, expires_at in the future, expires_at in the past.
Hold == {"none", "running", "elapsed"}

TypeOK ==
  /\ status \in [Bookings -> Status]
  /\ hold \in [Bookings -> Hold]

Init ==
  /\ status = [b \in Bookings |-> "NONE"]
  /\ hold = [b \in Bookings |-> "none"]

Move(b, from, to) ==
  /\ status[b] \in from
  /\ status' = [status EXCEPT ![b] = to]

\* A row is inserted, with a payment window (hotel rooms) or without (halls).
Open(b, h) ==
  /\ Move(b, {"NONE"}, "PENDING")
  /\ hold' = [hold EXCEPT ![b] = h]

\* The payment window passes; nothing has noticed yet.
Elapse(b) ==
  /\ hold[b] = "running"
  /\ hold' = [hold EXCEPT ![b] = "elapsed"]
  /\ UNCHANGED status

Accept(b) == Move(b, {"PENDING"}, "CONFIRMED") /\ UNCHANGED hold
Reject(b) == Move(b, {"PENDING"}, "REJECTED")  /\ UNCHANGED hold
Cancel(b) == Move(b, Live, "CANCELLED")        /\ UNCHANGED hold

\* Only a window that has really passed may expire a booking, and only while
\* nobody has accepted or paid for it.
Expire(b) ==
  /\ hold[b] = "elapsed"
  /\ Move(b, {"PENDING"}, "EXPIRED")
  /\ UNCHANGED hold

\* Full payment confirms a live booking and stops its clock.
Pay(b) ==
  /\ Move(b, Live, "CONFIRMED")
  /\ hold' = [hold EXCEPT ![b] = "none"]

Next == \E b \in Bookings :
  \/ \E h \in {"none", "running"} : Open(b, h)
  \/ Elapse(b) \/ Accept(b) \/ Reject(b) \/ Cancel(b) \/ Expire(b) \/ Pay(b)

Spec == Init /\ [][Next]_lifecycleVars
===============================================================================
