--------------------------- MODULE MCBookingRequest ----------------------------
(* An instance of BookingRequest for TLC: a request and its retry, another      *)
(* user's request under the same key, and two requests without a key.           *)
EXTENDS BookingRequest

CONSTANTS alice, bob, key, s1, s2, first, retry, other, keyless1, keyless2

MCCalls  == {first, retry, other, keyless1, keyless2}
MCUserOf == [c \in Calls |-> IF c = other THEN bob ELSE alice]
MCIdemKey  == [c \in Calls |-> IF c \in {keyless1, keyless2} THEN NoKey ELSE key]

\* The request and its retry want the first slot, and so does one without a key.
MCSlots  == {s1, s2}
MCSlotOf == [c \in Calls |-> IF c \in {first, retry, keyless1} THEN s1 ELSE s2]
================================================================================
