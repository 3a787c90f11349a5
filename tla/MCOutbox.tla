----------------------------- MODULE MCOutbox -----------------------------
(* Small instances of Outbox: who has an address for which message.        *)
EXTENDS Outbox, TLC

Row(b, event, role) == [booking |-> b, event |-> event, role |-> role, channel |-> "EMAIL"]

\* Ops has an address: its copy of the request, and the alert of a decline.
OpsRows == UNION {{Row(b, "booking.created", "ADMIN"),
                   Row(b, "booking.declined", "ADMIN")} : b \in Bookings}

\* The owner's request, and the answer the customer gets.
DecisionRows == UNION {{Row(b, "booking.created", "OWNER"),
                        Row(b, "booking.decided", "USER")} : b \in Bookings}

Symmetry == Permutations(Workers)
===========================================================================
