---------------------------- MODULE ReactorQueue ----------------------------
(***************************************************************************)
(* ReactorQueue.kt: the bounded queue between the read loop (producer) and *)
(* the handler loop (consumer) of one connection.  Both run on the owning  *)
(* reactor thread and are atomic between suspension points; a Job can be   *)
(* cancelled from any other thread, at any moment, also in the middle of   *)
(* watch().  Items are numbered in the order they are offered.             *)
(***************************************************************************)
EXTENDS Naturals, Sequences

CONSTANTS Capacity,  \* ConnectionConfig.inboundCapacity
          MaxItems,  \* bound on the items the producer offers
          MayStop    \* may the reactor stop under the queue (SPEC 15.1)?

ASSUME CapacityAssumption == Capacity \in Nat \ {0}
ASSUME MaxItemsAssumption == MaxItems \in Nat
ASSUME MayStopAssumption == MayStop \in BOOLEAN

Jobs == {"producer", "consumer"}

(* null: what receive() returns once the queue is closed and drained. *)
Null == 0

VARIABLES
  items,       \* the ring
  takeWaiter,  \* is the consumer's continuation in its slot?
  putWaiter,   \* is the producer's continuation in its slot?
  closed,
  watched,     \* jobs with a cancellation handler (watchedA, watchedB)
  cancelled,   \* jobs that are no longer active
  hops,        \* jobs whose onCancelled is dispatched to the owner, not run
  stopped,     \* the reactor refuses resumes
  pc,          \* where each coroutine is
  handed,      \* what resumeTake handed to the consumer
  sent, received, last   \* history: accepted, delivered, last delivered

queueVars == <<items, takeWaiter, putWaiter, closed, watched>>
historyVars == <<sent, received, last>>
vars == <<queueVars, cancelled, hops, stopped, pc, handed, historyVars>>

(* run: between two calls; woken: resumed out of its slot, not run yet;    *)
(* park, register, recheck: inside parkTake/parkPut and watch; parked:     *)
(* suspended; ended: the loop is over (an exception, or null received).    *)
Steps == {"run", "park", "register", "recheck", "parked", "woken", "ended"}

TypeOK ==
  /\ items \in Seq(1 .. MaxItems)
  /\ takeWaiter \in BOOLEAN
  /\ putWaiter \in BOOLEAN
  /\ closed \in BOOLEAN
  /\ watched \subseteq Jobs
  /\ cancelled \subseteq Jobs
  /\ hops \subseteq Jobs
  /\ stopped \in BOOLEAN
  /\ pc \in [Jobs -> Steps]
  /\ handed \in 0 .. MaxItems
  /\ sent \in 0 .. MaxItems
  /\ received \in 0 .. MaxItems
  /\ last \in 0 .. MaxItems

Init ==
  /\ items = <<>>
  /\ takeWaiter = FALSE
  /\ putWaiter = FALSE
  /\ closed = FALSE
  /\ watched = {}
  /\ cancelled = {}
  /\ hops = {}
  /\ stopped = FALSE
  /\ pc = [j \in Jobs |-> "run"]
  /\ handed = Null
  /\ sent = 0
  /\ received = 0
  /\ last = 0

(* The reactor thread is not inside a parkTake/parkPut call. *)
ReactorFree == \A j \in Jobs : pc[j] \notin {"park", "register", "recheck"}

-----------------------------------------------------------------------------
(* send() *)

(* send() on a closed queue throws ClosedException: the read loop ends. *)
SendClosed ==
  /\ ReactorFree
  /\ pc["producer"] \in {"run", "woken"}
  /\ closed
  /\ pc' = [pc EXCEPT !["producer"] = "ended"]
  /\ UNCHANGED <<queueVars, cancelled, hops, stopped, handed, historyVars>>

(* What offer() finds when it runs: the first call, or again after parkPut. *)
Offering ==
  /\ ReactorFree
  /\ pc["producer"] \in {"run", "woken"}
  /\ ~closed
  /\ sent < MaxItems

(* offer() with a parked receiver: take it out of its slot and hand over   *)
(* the item; a reactor that refuses the resume closes the queue.           *)
OfferToWaiter ==
  /\ Offering
  /\ takeWaiter
  /\ takeWaiter' = FALSE
  /\ sent' = sent + 1
  /\ IF stopped
       THEN /\ closed' = TRUE
            /\ pc' = [pc EXCEPT !["producer"] = "run"]
            /\ UNCHANGED handed
       ELSE /\ handed' = sent + 1
            /\ pc' = [pc EXCEPT !["producer"] = "run", !["consumer"] = "woken"]
            /\ UNCHANGED closed
  /\ UNCHANGED <<items, putWaiter, watched, cancelled, hops, stopped, received, last>>

(* offer() without the room check: a full ring still accepts the item. *)
OfferUnbounded ==
  /\ Offering
  /\ ~takeWaiter
  /\ items' = Append(items, sent + 1)
  /\ sent' = sent + 1
  /\ pc' = [pc EXCEPT !["producer"] = "run"]
  /\ UNCHANGED <<takeWaiter, putWaiter, closed, watched, cancelled, hops,
                 stopped, handed, received, last>>

(* offer() with room in the ring. *)
OfferToRing ==
  /\ Offering
  /\ ~takeWaiter
  /\ Len(items) < Capacity
  /\ items' = Append(items, sent + 1)
  /\ sent' = sent + 1
  /\ pc' = [pc EXCEPT !["producer"] = "run"]
  /\ UNCHANGED <<takeWaiter, putWaiter, closed, watched, cancelled, hops,
                 stopped, handed, received, last>>

(* offer() on a full ring returns false: sendSlow() parks the producer. *)
OfferFull ==
  /\ Offering
  /\ ~takeWaiter
  /\ Len(items) >= Capacity
  /\ pc' = [pc EXCEPT !["producer"] = "park"]
  /\ UNCHANGED <<queueVars, cancelled, hops, stopped, handed, historyVars>>

-----------------------------------------------------------------------------
(* receive() *)

Receiving == ReactorFree /\ pc["consumer"] = "run"

(* receive() that forgets to wake the parked sender. *)
ReceiveNoWake ==
  /\ Receiving
  /\ items # <<>>
  /\ items' = Tail(items)
  /\ received' = received + 1
  /\ last' = Head(items)
  /\ UNCHANGED <<takeWaiter, putWaiter, closed, watched, cancelled, hops,
                 stopped, pc, handed, sent>>

(* receive() with an item in the ring: it makes room, so a parked sender   *)
(* is taken out of its slot and resumed (or refused, closing the queue).   *)
ReceiveItem ==
  /\ Receiving
  /\ items # <<>>
  /\ items' = Tail(items)
  /\ received' = received + 1
  /\ last' = Head(items)
  /\ putWaiter' = FALSE
  /\ closed' = (closed \/ (putWaiter /\ stopped))
  /\ pc' = IF putWaiter /\ ~stopped THEN [pc EXCEPT !["producer"] = "woken"] ELSE pc
  /\ UNCHANGED <<takeWaiter, watched, cancelled, hops, stopped, handed, sent>>

(* receive() on a closed, drained queue returns null: the loop ends. *)
ReceiveNull ==
  /\ Receiving
  /\ items = <<>>
  /\ closed
  /\ pc' = [pc EXCEPT !["consumer"] = "ended"]
  /\ UNCHANGED <<queueVars, cancelled, hops, stopped, handed, historyVars>>

(* receive() on an empty queue parks the consumer. *)
ReceiveEmpty ==
  /\ Receiving
  /\ items = <<>>
  /\ ~closed
  /\ pc' = [pc EXCEPT !["consumer"] = "park"]
  /\ UNCHANGED <<queueVars, cancelled, hops, stopped, handed, historyVars>>

(* The resumed receiver runs: it has the item it was handed, or null. *)
TakeResumed ==
  /\ ReactorFree
  /\ pc["consumer"] = "woken"
  /\ handed' = Null
  /\ IF handed = Null
       THEN /\ pc' = [pc EXCEPT !["consumer"] = "ended"]
            /\ UNCHANGED <<received, last>>
       ELSE /\ pc' = [pc EXCEPT !["consumer"] = "run"]
            /\ received' = received + 1
            /\ last' = handed
  /\ UNCHANGED <<queueVars, cancelled, hops, stopped, sent>>

-----------------------------------------------------------------------------
(* parkTake / parkPut: watch() and then the slot *)

(* Put j's continuation in its slot and suspend. *)
EnterSlot(j) ==
  /\ pc' = [pc EXCEPT ![j] = "parked"]
  /\ takeWaiter' = (takeWaiter \/ j = "consumer")
  /\ putWaiter' = (putWaiter \/ j = "producer")
  /\ UNCHANGED <<items, closed, cancelled, hops, stopped, handed, historyVars>>

(* watch(): a job that is not active throws instead of parking; a watched  *)
(* one parks; another one first registers its handler.                     *)
Watch(j) ==
  /\ pc[j] = "park"
  /\ UNCHANGED watched
  /\ IF j \in watched /\ j \notin cancelled
       THEN EnterSlot(j)
       ELSE /\ pc' = [pc EXCEPT ![j] = IF j \in cancelled THEN "ended" ELSE "register"]
            /\ UNCHANGED <<items, takeWaiter, putWaiter, closed, cancelled, hops,
                           stopped, handed, historyVars>>

(* watch() calls invokeOnCompletion.  A job cancelled since the isActive   *)
(* check calls no handler (invokeImmediately = false).                     *)
Register(j) ==
  /\ pc[j] = "register"
  /\ watched' = watched \cup {j}
  /\ pc' = [pc EXCEPT ![j] = "recheck"]
  /\ UNCHANGED <<items, takeWaiter, putWaiter, closed, cancelled, hops, stopped,
                 handed, historyVars>>

(* watch() without the second isActive check. *)
RecheckSkipped(j) ==
  /\ pc[j] = "recheck"
  /\ EnterSlot(j)
  /\ UNCHANGED watched

(* watch() checks isActive again after the registration: a job cancelled   *)
(* in between throws (its handle is disposed, never stored).               *)
Recheck(j) ==
  /\ pc[j] = "recheck"
  /\ IF j \in cancelled
       THEN /\ pc' = [pc EXCEPT ![j] = "ended"]
            /\ watched' = watched \ {j}
            /\ UNCHANGED <<items, takeWaiter, putWaiter, closed, cancelled, hops,
                           stopped, handed, historyVars>>
       ELSE EnterSlot(j) /\ UNCHANGED watched

-----------------------------------------------------------------------------
(* cancellation, close, and the reactor stopping *)

(* Any thread cancels j's Job; a registered handler dispatches onCancelled *)
(* to the owner.                                                           *)
Cancel(j) ==
  /\ j \notin cancelled
  /\ pc[j] # "ended"
  /\ cancelled' = cancelled \cup {j}
  /\ hops' = IF j \in watched THEN hops \cup {j} ELSE hops
  /\ UNCHANGED <<queueVars, stopped, pc, handed, historyVars>>

(* onCancelled(job) runs on the owner: a waiter of that job leaves its     *)
(* slot and resumes with the CancellationException.                        *)
OnCancelled(j) ==
  /\ ReactorFree
  /\ j \in hops
  /\ hops' = hops \ {j}
  /\ takeWaiter' = (takeWaiter /\ j # "consumer")
  /\ putWaiter' = (putWaiter /\ j # "producer")
  /\ pc' = IF (j = "consumer" /\ takeWaiter) \/ (j = "producer" /\ putWaiter)
             THEN [pc EXCEPT ![j] = "ended"]
             ELSE pc
  /\ UNCHANGED <<items, closed, watched, cancelled, stopped, handed, historyVars>>

(* close() that throws away what is still in the ring. *)
CloseDropsItems ==
  /\ ReactorFree
  /\ ~closed
  /\ closed' = TRUE
  /\ items' = <<>>
  /\ takeWaiter' = FALSE
  /\ putWaiter' = FALSE
  /\ pc' = [pc EXCEPT
              !["consumer"] = IF takeWaiter /\ ~stopped THEN "woken" ELSE @,
              !["producer"] = IF putWaiter THEN "ended" ELSE @]
  /\ watched' = {}
  /\ UNCHANGED <<cancelled, hops, stopped, handed, historyVars>>

(* close(): a receiver parked on a drained queue gets null, a parked       *)
(* sender gets ClosedException, and both handles are disposed.             *)
Close ==
  /\ ReactorFree
  /\ ~closed
  /\ closed' = TRUE
  /\ takeWaiter' = (takeWaiter /\ items # <<>>)
  /\ putWaiter' = FALSE
  /\ pc' = [pc EXCEPT
              !["consumer"] = IF takeWaiter /\ items = <<>> /\ ~stopped THEN "woken" ELSE @,
              !["producer"] = IF putWaiter THEN "ended" ELSE @]
  /\ watched' = {}
  /\ UNCHANGED <<items, cancelled, hops, stopped, handed, historyVars>>

(* The loop that runs j ends outside the queue: the peer's EOF, a handler  *)
(* that throws, or its cancellation at another suspension point.           *)
Leave(j) ==
  /\ ReactorFree
  /\ pc[j] = "run"
  /\ pc' = [pc EXCEPT ![j] = "ended"]
  /\ UNCHANGED <<queueVars, cancelled, hops, stopped, handed, historyVars>>

(* External: the reactor is CLOSING or STOPPED and refuses the resumes of  *)
(* its resumer (SPEC 15.1).  Dispatched resumes (exceptions) still run.    *)
ReactorStops ==
  /\ MayStop
  /\ ~stopped
  /\ stopped' = TRUE
  /\ UNCHANGED <<queueVars, cancelled, hops, pc, handed, historyVars>>

-----------------------------------------------------------------------------
Next ==
  \/ SendClosed \/ OfferToWaiter \/ OfferToRing \/ OfferFull
  \/ ReceiveItem \/ ReceiveNull \/ ReceiveEmpty \/ TakeResumed
  \/ \E j \in Jobs : Watch(j) \/ Register(j) \/ Recheck(j)
  \/ \E j \in Jobs : Cancel(j) \/ OnCancelled(j) \/ Leave(j)
  \/ Close \/ ReactorStops

Spec == Init /\ [][Next]_vars

(* The reactor runs what was dispatched to it, and a coroutine it runs     *)
(* reaches its next suspension point.  The consumer need not receive, the  *)
(* producer need not send, and nobody has to cancel or close.              *)
Fairness ==
  /\ \A j \in Jobs : WF_vars(Watch(j)) /\ WF_vars(Register(j)) /\ WF_vars(Recheck(j))
  /\ \A j \in Jobs : WF_vars(OnCancelled(j))
  /\ WF_vars(TakeResumed)

FairSpec == Spec /\ Fairness

-----------------------------------------------------------------------------
(* Properties *)

(* How many items resumeTake has handed over that the consumer has not     *)
(* seen yet (the receiver is resumed, but has not run).                    *)
InHand == IF handed = Null THEN 0 ELSE 1

(* send()/receive() keep the order and lose nothing: the n-th item         *)
(* delivered is item n, what is in the ring continues from there without a *)
(* gap, and everything accepted is delivered, in hand or in the ring.  The *)
(* one exception is the item of a hand-off the reactor refused: onRefused  *)
(* drops it and closes the queue.                                          *)
FifoNoLoss ==
  /\ last = received
  /\ handed # Null => handed = received + 1 /\ pc["consumer"] = "woken"
  /\ \A i \in 1 .. Len(items) : items[i] = received + InHand + i
  /\ \/ sent = received + InHand + Len(items)
     \/ stopped /\ closed /\ sent = received + InHand + Len(items) + 1

(* offer() never lets more than Capacity items wait, and parks the         *)
(* producer only while the ring is full; receive() parks the consumer only *)
(* while it is empty: the two loops never wait for each other, and a       *)
(* closed queue has no waiter.  Every path that fills or drains the ring   *)
(* or closes the queue has to take the other side out of its slot.         *)
NoLostWakeup ==
  /\ Len(items) <= Capacity
  /\ takeWaiter => items = <<>> /\ ~closed
  /\ putWaiter => Len(items) = Capacity /\ ~closed

(* A suspended loop is one whose continuation is in its slot: nobody is    *)
(* suspended with nothing left that could resume it, and no slot holds a   *)
(* continuation that was already resumed ("a waiter is never resumed       *)
(* twice").  A reactor that refuses resumes may strand a loop.             *)
SlotsMatch ==
  /\ takeWaiter => pc["consumer"] = "parked"
  /\ putWaiter => pc["producer"] = "parked"
  /\ ~stopped => /\ pc["consumer"] = "parked" => takeWaiter
                 /\ pc["producer"] = "parked" => putWaiter

(* While a loop is on its way into its slot nothing has changed under it   *)
(* since it found the ring empty (full): the part of the inductive         *)
(* invariant that says parkTake and parkPut are not interrupted.           *)
ParkingUndisturbed ==
  /\ pc["consumer"] \in {"park", "register", "recheck"} => items = <<>> /\ ~closed
  /\ pc["producer"] \in {"park", "register", "recheck"} =>
       Len(items) = Capacity /\ ~closed

(* The inductive invariant. *)
QueueInv == TypeOK /\ FifoNoLoss /\ NoLostWakeup /\ SlotsMatch /\ ParkingUndisturbed

(* "both wake with CancellationException when their coroutine is           *)
(* cancelled": a loop cancelled from any thread, at any point of watch(),  *)
(* does not stay parked, unless the reactor stops.                         *)
CancelledWakes ==
  \A j \in Jobs : (j \in cancelled) ~> (pc[j] # "parked" \/ stopped)

(* close() wakes whoever is parked, and a receiver or sender that comes    *)
(* later does not park: a closed queue ends up with nobody suspended,      *)
(* unless the reactor stops.                                               *)
ClosedWakes ==
  \A j \in Jobs : closed ~> (pc[j] # "parked" \/ stopped)

(* A cancelled or closed loop is woken wherever the event falls. *)
LoopsWoken == CancelledWakes /\ ClosedWakes

(* What the queue has accepted: an item whose hand-off the reactor refused *)
(* is not.                                                                 *)
Accepted == received + InHand + Len(items)

(* The queue keeps the contract of the Channel it replaces. *)
Contract == INSTANCE BoundedChannel WITH sent <- Accepted

ChannelContract == Contract!Spec
=============================================================================
