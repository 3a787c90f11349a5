------------------------------- MODULE MCReviews -------------------------------
(* Two users review a venue while its rating is pinned and handed back. *)
EXTENDS Reviews

MCPins == {[sum |-> 12, count |-> 3]}
================================================================================
