----------------------------- MODULE QuotePromise -----------------------------
(***************************************************************************)
(* What a negotiation promises, stated without versions, requests or       *)
(* transactions: prices are proposed while it is open, the one on the      *)
(* table when it is agreed stays, and that is the price of its booking.    *)
(***************************************************************************)

CONSTANTS Amounts, NoAmount

VARIABLES
  phase,        \* where the negotiation is
  price,        \* the price on the table
  deal          \* the price it was booked at

vars == <<phase, price, deal>>

Init == phase = "open" /\ price = NoAmount /\ deal = NoAmount

Offer == phase = "open" /\ price' \in Amounts /\ UNCHANGED <<phase, deal>>

Agree ==
  /\ phase = "open" /\ price # NoAmount
  /\ phase' = "agreed"
  /\ UNCHANGED <<price, deal>>

Close == phase = "open" /\ phase' = "closed" /\ UNCHANGED <<price, deal>>

Book == phase = "agreed" /\ phase' = "booked" /\ deal' = price /\ UNCHANGED price

Next == Offer \/ Agree \/ Close \/ Book

Spec == Init /\ [][Next]_vars
===============================================================================
