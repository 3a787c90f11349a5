-------------------------------- MODULE MCQuote --------------------------------
(* One negotiation with two requests under way at any time.                *)
EXTENDS Quote, TLC

Symmetry == Permutations(Calls)
================================================================================
