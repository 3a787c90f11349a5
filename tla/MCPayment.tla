------------------------------ MODULE MCPayment -------------------------------
(* Instances of Payment for TLC. *)
EXTENDS Payment, TLC

\* A total of three is enough for two partial refunds that leave something.
MCTotal == [b \in Bookings |-> 3]

Symmetry == Permutations(Bookings) \cup Permutations(Orders) \cup Permutations(Events)
================================================================================
