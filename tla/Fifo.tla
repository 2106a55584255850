-------------------------------- MODULE Fifo --------------------------------
(***************************************************************************)
(* What Ring promises: an unbounded first-in first-out queue.              *)
(***************************************************************************)
EXTENDS Sequences

CONSTANTS Items, None

VARIABLES queue, taken     \* the items, oldest first; the last removal's result
vars == <<queue, taken>>

Init == queue = <<>> /\ taken = None

Add == \E x \in Items : queue' = Append(queue, x) /\ UNCHANGED taken

Take == queue # <<>> /\ taken' = Head(queue) /\ queue' = Tail(queue)

TakeNothing == queue = <<>> /\ taken' = None /\ UNCHANGED queue

Empty == queue' = <<>> /\ UNCHANGED taken

Spec == Init /\ [][Add \/ Take \/ TakeNothing \/ Empty]_vars
=============================================================================
