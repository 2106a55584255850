---------------------------- MODULE MCConnection ----------------------------
(***************************************************************************)
(* Instances of Connection for TLC: three callers are enough for a writer, *)
(* a waiter it wakes and one that takes the room before the waiter runs.   *)
(***************************************************************************)
EXTENDS Connection

CONSTANTS r1, r2, r3, r4, s1

(* Payload sizes in units: with a budget of 3 a request of 1 and a message *)
(* of 2 fit together, two messages do not.                                 *)
MCBytes == [c \in Callers |-> IF c \in Senders THEN 2 ELSE 1]

(* The same with an empty request, which never waits for bytes, and one    *)
(* that is larger than MaxPayload and gives its slot back unsent.          *)
MCBytesMixed == [MCBytes EXCEPT ![r1] = 0, ![r4] = MaxPayload + 1]
=============================================================================
