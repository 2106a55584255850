--------------------------- MODULE BoundedChannel ---------------------------
(***************************************************************************)
(* What a bounded hand-off between one producer and one consumer promises: *)
(* the contract of the kotlinx Channel that ReactorQueue replaces.  The    *)
(* k-th item accepted is the k-th item delivered, at most Capacity items   *)
(* wait (one more may be on its way to a receiver that was already         *)
(* parked), nothing is accepted after close, and what was accepted before  *)
(* close can still be delivered.                                           *)
(***************************************************************************)
EXTENDS Naturals

CONSTANT Capacity

VARIABLES sent,      \* how many items were accepted; the k-th item is k
          received,  \* how many items were delivered
          last,      \* the item delivered last (0: none)
          closed

chanVars == <<sent, received, last, closed>>

Init == sent = 0 /\ received = 0 /\ last = 0 /\ closed = FALSE

Put == /\ ~closed
       /\ sent - received <= Capacity
       /\ sent' = sent + 1
       /\ UNCHANGED <<received, last, closed>>

(* A delivery may find that the reactor is stopping and close the channel. *)
Get == /\ received < sent
       /\ received' = received + 1
       /\ last' = received + 1
       /\ closed' \in {closed, TRUE}
       /\ UNCHANGED sent

Close == closed' = TRUE /\ UNCHANGED <<sent, received, last>>

Next == Put \/ Get \/ Close

Spec == Init /\ [][Next]_chanVars
=============================================================================
