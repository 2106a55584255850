------------------------- MODULE ReactorQueueProofs -------------------------
(***************************************************************************)
(* ReactorQueue for every capacity and every number of items: its          *)
(* inductive invariant, and that it implements BoundedChannel.             *)
(***************************************************************************)
EXTENDS ReactorQueue, TLAPS

(* What Head and Tail of a nonempty sequence are (Ring.removeFirstOrNull). *)
LEMMA TailFacts ==
  ASSUME NEW S, NEW s \in Seq(S), s # <<>>
  PROVE  /\ Len(s) >= 1
         /\ Head(s) = s[1] /\ s[1] \in S
         /\ Tail(s) \in Seq(S)
         /\ Len(Tail(s)) = Len(s) - 1
         /\ \A i \in 1 .. Len(Tail(s)) : Tail(s)[i] = s[i + 1]
  OBVIOUS

(* What Append does (Ring.addLast). *)
LEMMA AppendFacts ==
  ASSUME NEW S, NEW s \in Seq(S), NEW e \in S
  PROVE  /\ Append(s, e) \in Seq(S)
         /\ Len(Append(s, e)) = Len(s) + 1
         /\ \A i \in 1 .. Len(s) : Append(s, e)[i] = s[i]
         /\ Append(s, e)[Len(s) + 1] = e
  OBVIOUS

(* The steps of offer() and receive() that move an item. *)
LEMMA ItemSteps ==
  ASSUME QueueInv,
         OfferToWaiter \/ OfferToRing \/ ReceiveItem \/ TakeResumed
  PROVE  QueueInv'
<1> USE CapacityAssumption, MaxItemsAssumption
<1> USE DEF Null, Jobs, Steps, queueVars, historyVars
<1>1. CASE OfferToWaiter
  <2> USE <1>1 DEF OfferToWaiter, Offering, ReactorFree, QueueInv
  <2>1. TypeOK'
    <3>1. handed' \in 0 .. MaxItems /\ sent' \in 0 .. MaxItems
      BY DEF TypeOK
    <3>2. pc' \in [Jobs -> Steps]
      BY DEF TypeOK
    <3>3. closed' \in BOOLEAN
      BY Zenon DEF TypeOK
    <3> QED BY <3>1, <3>2, <3>3 DEF TypeOK
  <2>2. FifoNoLoss'
    BY DEF TypeOK, FifoNoLoss, InHand, NoLostWakeup, SlotsMatch
  <2>3. NoLostWakeup'
    BY DEF TypeOK, NoLostWakeup, SlotsMatch
  <2>4. SlotsMatch'
    BY DEF TypeOK, SlotsMatch
  <2>5. ParkingUndisturbed'
    BY DEF TypeOK, ParkingUndisturbed
  <2> QED BY <2>1, <2>2, <2>3, <2>4, <2>5
<1>2. CASE OfferToRing
  <2> USE <1>2 DEF OfferToRing, Offering, ReactorFree, QueueInv
  <2>1. TypeOK'
    BY DEF TypeOK, FifoNoLoss, InHand, NoLostWakeup
  <2>2. FifoNoLoss'
    <3>1. /\ Len(items') = Len(items) + 1
          /\ \A i \in 1 .. Len(items) : items'[i] = items[i]
          /\ items'[Len(items) + 1] = sent + 1
      <4>1. items \in Seq(1 .. MaxItems) /\ sent + 1 \in 1 .. MaxItems
        BY DEF TypeOK
      <4> QED BY <4>1, AppendFacts
    <3>2. sent = received + InHand + Len(items) /\ InHand' = InHand /\ InHand \in 0 .. 1
      BY DEF FifoNoLoss, InHand
    <3>3. \A i \in 1 .. Len(items') : items'[i] = received' + InHand' + i
      <4> TAKE i \in 1 .. Len(items')
      <4>1. CASE i = Len(items) + 1
        BY <4>1, <3>1, <3>2 DEF TypeOK
      <4>2. CASE i \in 1 .. Len(items)
        BY <4>2, <3>1, <3>2 DEF TypeOK, FifoNoLoss
      <4> QED BY <4>1, <4>2, <3>1 DEF TypeOK
    <3>4. sent' = received' + InHand' + Len(items')
      BY <3>1, <3>2 DEF TypeOK
    <3>5. last' = received' /\ (handed' # Null => handed' = received' + 1 /\ pc'["consumer"] = "woken")
      BY DEF FifoNoLoss, TypeOK
    <3> QED BY <3>3, <3>4, <3>5 DEF FifoNoLoss
  <2>3. NoLostWakeup'
    BY DEF TypeOK, NoLostWakeup, SlotsMatch
  <2>4. SlotsMatch'
    BY DEF TypeOK, SlotsMatch
  <2>5. ParkingUndisturbed'
    BY DEF TypeOK, ParkingUndisturbed
  <2> QED BY <2>1, <2>2, <2>3, <2>4, <2>5
<1>3. CASE ReceiveItem
  <2> USE <1>3 DEF ReceiveItem, Receiving, ReactorFree, QueueInv
  <2>0. /\ Len(items) >= 1
        /\ Head(items) = received + 1 /\ Head(items) \in 1 .. MaxItems
        /\ items' \in Seq(1 .. MaxItems)
        /\ Len(items') = Len(items) - 1
        /\ \A i \in 1 .. Len(items') : items'[i] = items[i + 1]
        /\ handed = Null /\ handed' = Null
    <3>1. items \in Seq(1 .. MaxItems) /\ items # <<>>
      BY DEF TypeOK
    <3>2. handed = Null
      BY DEF FifoNoLoss
    <3>3. items[1] = received + 1
      BY <3>1, <3>2, TailFacts DEF FifoNoLoss, InHand, TypeOK
    <3> QED BY <3>1, <3>2, <3>3, TailFacts
  <2>1. TypeOK'
    <3>1. received' \in 0 .. MaxItems /\ last' \in 0 .. MaxItems
      BY <2>0 DEF TypeOK
    <3>2. pc' \in [Jobs -> Steps] /\ closed' \in BOOLEAN /\ putWaiter' \in BOOLEAN
      BY DEF TypeOK
    <3> QED BY <2>0, <3>1, <3>2 DEF TypeOK
  <2>2. FifoNoLoss'
    <3>1. InHand = 0 /\ InHand' = 0
      BY <2>0 DEF InHand
    <3>2. \A i \in 1 .. Len(items') : items'[i] = received' + InHand' + i
      BY <2>0, <3>1 DEF TypeOK, FifoNoLoss
    <3>3. \/ sent' = received' + InHand' + Len(items')
          \/ stopped' /\ closed' /\ sent' = received' + InHand' + Len(items') + 1
      <4>1. received' + InHand' + Len(items') = received + InHand + Len(items)
        BY <2>0, <3>1 DEF TypeOK
      <4>2. stopped /\ closed => stopped' /\ closed'
        BY Zenon
      <4> QED BY <4>1, <4>2 DEF FifoNoLoss
    <3> QED BY <2>0, <3>2, <3>3 DEF FifoNoLoss
  <2>3. NoLostWakeup'
    BY DEF TypeOK, NoLostWakeup, SlotsMatch
  <2>4. SlotsMatch'
    BY DEF TypeOK, SlotsMatch
  <2>5. ParkingUndisturbed'
    BY DEF TypeOK, ParkingUndisturbed
  <2> QED BY <2>1, <2>2, <2>3, <2>4, <2>5
<1>4. CASE TakeResumed
  <2> USE <1>4 DEF TakeResumed, ReactorFree, QueueInv
  <2>1. TypeOK'
    BY DEF TypeOK, FifoNoLoss, InHand, NoLostWakeup
  <2>2. FifoNoLoss'
    <3>1. CASE handed = Null
      BY <3>1 DEF TypeOK, FifoNoLoss, InHand
    <3>2. CASE handed # Null
      <4>1. InHand = 1 /\ InHand' = 0 /\ received' = received + 1 /\ last' = received'
        BY <3>2 DEF FifoNoLoss, InHand
      <4>2. items' = items /\ sent' = sent /\ closed' = closed /\ stopped' = stopped
        OBVIOUS
      <4> QED BY <4>1, <4>2 DEF TypeOK, FifoNoLoss
    <3> QED BY <3>1, <3>2
  <2>3. NoLostWakeup'
    BY DEF TypeOK, NoLostWakeup, SlotsMatch
  <2>4. SlotsMatch'
    BY DEF TypeOK, SlotsMatch
  <2>5. ParkingUndisturbed'
    BY DEF TypeOK, ParkingUndisturbed
  <2> QED BY <2>1, <2>2, <2>3, <2>4, <2>5
<1> QED BY <1>1, <1>2, <1>3, <1>4

(* parkTake and parkPut put a continuation into an empty slot. *)
LEMMA EnterSlotStep ==
  ASSUME QueueInv, NEW j \in Jobs, pc[j] \in {"park", "recheck"},
         EnterSlot(j), watched' \subseteq Jobs
  PROVE  QueueInv'
<1> USE CapacityAssumption, MaxItemsAssumption
<1> USE DEF QueueInv, Jobs, Steps, queueVars, historyVars, EnterSlot
<1>1. TypeOK'
  <2>1. takeWaiter' \in BOOLEAN /\ putWaiter' \in BOOLEAN
    BY Zenon
  <2>2. pc' \in [Jobs -> Steps]
    BY DEF TypeOK
  <2> QED BY <2>1, <2>2 DEF TypeOK
<1>2. FifoNoLoss'
  BY DEF FifoNoLoss, InHand, TypeOK
<1>3. NoLostWakeup'
  BY DEF NoLostWakeup, ParkingUndisturbed, TypeOK
<1>4. SlotsMatch'
  BY DEF SlotsMatch, TypeOK
<1>5. ParkingUndisturbed'
  BY DEF ParkingUndisturbed, TypeOK
<1> QED BY <1>1, <1>2, <1>3, <1>4, <1>5

(* The steps that move no item: an end of a loop, the way into a slot. *)
LEMMA ControlSteps ==
  ASSUME QueueInv, NEW j \in Jobs,
         \/ SendClosed \/ OfferFull \/ ReceiveNull \/ ReceiveEmpty
         \/ Leave(j) \/ Watch(j) \/ Register(j) \/ Recheck(j)
  PROVE  QueueInv'
<1> USE CapacityAssumption, MaxItemsAssumption
<1> USE DEF Null, Jobs, Steps, queueVars, historyVars
<1>1. CASE SendClosed
  BY <1>1 DEF QueueInv, TypeOK, FifoNoLoss, InHand, NoLostWakeup, SlotsMatch,
     ParkingUndisturbed, SendClosed, ReactorFree
<1>2. CASE OfferFull
  BY <1>2 DEF QueueInv, TypeOK, FifoNoLoss, InHand, NoLostWakeup, SlotsMatch,
     ParkingUndisturbed, OfferFull, Offering, ReactorFree
<1>3. CASE ReceiveNull
  BY <1>3 DEF QueueInv, TypeOK, FifoNoLoss, InHand, NoLostWakeup, SlotsMatch,
     ParkingUndisturbed, ReceiveNull, Receiving, ReactorFree
<1>4. CASE ReceiveEmpty
  BY <1>4 DEF QueueInv, TypeOK, FifoNoLoss, InHand, NoLostWakeup, SlotsMatch,
     ParkingUndisturbed, ReceiveEmpty, Receiving, ReactorFree
<1>5. CASE Leave(j)
  BY <1>5 DEF QueueInv, TypeOK, FifoNoLoss, InHand, NoLostWakeup, SlotsMatch,
     ParkingUndisturbed, Leave, ReactorFree
<1>6. CASE Watch(j)
  <2>1. CASE j \in watched /\ j \notin cancelled
    <3>1. pc[j] \in {"park", "recheck"} /\ EnterSlot(j) /\ watched' = watched
      BY <1>6, <2>1 DEF Watch
    <3>2. watched' \subseteq Jobs
      BY <3>1 DEF QueueInv, TypeOK
    <3> QED BY <3>1, <3>2, EnterSlotStep
  <2>2. CASE ~(j \in watched /\ j \notin cancelled)
    <3>1. \/ pc' = [pc EXCEPT ![j] = "ended"] /\ watched' \subseteq Jobs
          \/ pc' = [pc EXCEPT ![j] = "register"] /\ watched' \subseteq Jobs /\ pc[j] = "park"
      BY <1>6, <2>2 DEF Watch, QueueInv, TypeOK
    <3>2. /\ pc[j] \in {"park", "recheck"}
          /\ UNCHANGED <<items, takeWaiter, putWaiter, closed, cancelled, hops, stopped,
                         handed, sent, received, last>>
      BY <1>6, <2>2 DEF Watch
    <3> QED BY <3>1, <3>2 DEF QueueInv, TypeOK, FifoNoLoss, InHand, NoLostWakeup,
               SlotsMatch, ParkingUndisturbed
  <2> QED BY <2>1, <2>2
<1>7. CASE Register(j)
  BY <1>7 DEF QueueInv, TypeOK, FifoNoLoss, InHand, NoLostWakeup, SlotsMatch,
     ParkingUndisturbed, Register
<1>8. CASE Recheck(j)
  <2>1. CASE j \notin cancelled
    <3>1. pc[j] \in {"park", "recheck"} /\ EnterSlot(j) /\ watched' = watched
      BY <1>8, <2>1 DEF Recheck
    <3>2. watched' \subseteq Jobs
      BY <3>1 DEF QueueInv, TypeOK
    <3> QED BY <3>1, <3>2, EnterSlotStep
  <2>2. CASE ~(j \notin cancelled)
    <3>1. \/ pc' = [pc EXCEPT ![j] = "ended"] /\ watched' \subseteq Jobs
          \/ pc' = [pc EXCEPT ![j] = "register"] /\ watched' \subseteq Jobs /\ pc[j] = "park"
      BY <1>8, <2>2 DEF Recheck, QueueInv, TypeOK
    <3>2. /\ pc[j] \in {"park", "recheck"}
          /\ UNCHANGED <<items, takeWaiter, putWaiter, closed, cancelled, hops, stopped,
                         handed, sent, received, last>>
      BY <1>8, <2>2 DEF Recheck
    <3> QED BY <3>1, <3>2 DEF QueueInv, TypeOK, FifoNoLoss, InHand, NoLostWakeup,
               SlotsMatch, ParkingUndisturbed
  <2> QED BY <2>1, <2>2
<1> QED BY <1>1, <1>2, <1>3, <1>4, <1>5, <1>6, <1>7, <1>8

(* Cancellation, close() and the reactor stopping. *)
LEMMA WakeSteps ==
  ASSUME QueueInv, NEW j \in Jobs,
         Cancel(j) \/ OnCancelled(j) \/ Close \/ ReactorStops
  PROVE  QueueInv'
<1> USE CapacityAssumption, MaxItemsAssumption
<1> USE DEF Null, Jobs, Steps, queueVars, historyVars
<1>1. CASE Cancel(j)
  BY <1>1 DEF QueueInv, TypeOK, FifoNoLoss, InHand, NoLostWakeup, SlotsMatch,
     ParkingUndisturbed, Cancel
<1>2. CASE OnCancelled(j)
  <2> USE <1>2 DEF OnCancelled, ReactorFree, QueueInv
  <2>1. TypeOK'
    <3>1. takeWaiter' \in BOOLEAN /\ putWaiter' \in BOOLEAN
      BY Zenon
    <3>2. pc' \in [Jobs -> Steps]
      BY DEF TypeOK
    <3> QED BY <3>1, <3>2 DEF TypeOK
  <2>2. FifoNoLoss'
    BY DEF FifoNoLoss, InHand, TypeOK, SlotsMatch
  <2>3. NoLostWakeup'
    BY DEF NoLostWakeup
  <2>4. SlotsMatch'
    BY DEF SlotsMatch, TypeOK
  <2>5. ParkingUndisturbed'
    BY DEF ParkingUndisturbed, TypeOK
  <2> QED BY <2>1, <2>2, <2>3, <2>4, <2>5
<1>3. CASE Close
  BY <1>3 DEF QueueInv, TypeOK, FifoNoLoss, InHand, NoLostWakeup, SlotsMatch,
     ParkingUndisturbed, Close, ReactorFree
<1>4. CASE ReactorStops
  BY <1>4 DEF QueueInv, TypeOK, FifoNoLoss, InHand, NoLostWakeup, SlotsMatch,
     ParkingUndisturbed, ReactorStops
<1> QED BY <1>1, <1>2, <1>3, <1>4

LEMMA QueueInvInit == Init => QueueInv
<1> SUFFICES ASSUME Init PROVE QueueInv
  OBVIOUS
<1> USE CapacityAssumption, MaxItemsAssumption DEF Init, Null, Jobs, Steps
<1>1. TypeOK
  <2>1. items \in Seq(1 .. MaxItems) /\ 0 \in 0 .. MaxItems
    OBVIOUS
  <2>2. pc \in [Jobs -> Steps]
    OBVIOUS
  <2> QED BY <2>1, <2>2 DEF TypeOK
<1>2. FifoNoLoss
  BY DEF FifoNoLoss, InHand
<1>3. NoLostWakeup /\ SlotsMatch /\ ParkingUndisturbed
  BY DEF NoLostWakeup, SlotsMatch, ParkingUndisturbed
<1> QED BY <1>1, <1>2, <1>3 DEF QueueInv

LEMMA QueueInvStep == QueueInv /\ [Next]_vars => QueueInv'
<1> SUFFICES ASSUME QueueInv, [Next]_vars PROVE QueueInv'
  OBVIOUS
<1>1. CASE UNCHANGED vars
  BY <1>1 DEF QueueInv, TypeOK, FifoNoLoss, InHand, NoLostWakeup, SlotsMatch,
     ParkingUndisturbed, vars, queueVars, historyVars
<1>2. CASE OfferToWaiter \/ OfferToRing \/ ReceiveItem \/ TakeResumed
  BY <1>2, ItemSteps
<1>3. CASE SendClosed \/ OfferFull \/ ReceiveNull \/ ReceiveEmpty
  <2> "producer" \in Jobs BY DEF Jobs
  <2> QED BY <1>3, ControlSteps
<1>4. CASE Close \/ ReactorStops
  <2> "producer" \in Jobs BY DEF Jobs
  <2> QED BY <1>4, WakeSteps
<1>5. ASSUME NEW j \in Jobs, Watch(j) \/ Register(j) \/ Recheck(j) \/ Leave(j)
      PROVE  QueueInv'
  BY <1>5, ControlSteps
<1>6. ASSUME NEW j \in Jobs, Cancel(j) \/ OnCancelled(j)
      PROVE  QueueInv'
  BY <1>6, WakeSteps
<1> QED BY <1>1, <1>2, <1>3, <1>4, <1>5, <1>6 DEF Next

(* For every capacity and number of items, also when the reactor refuses   *)
(* resumes: the invariant is inductive.                                    *)
THEOREM QueueInvariant == Spec => []QueueInv
  BY QueueInvInit, QueueInvStep, PTL DEF Spec

(* ReactorQueue.kt never delivers out of order, duplicates or loses an     *)
(* item, whatever its capacity.                                            *)
THEOREM QueueFifoNoLoss == Spec => []FifoNoLoss
<1>1. QueueInv => FifoNoLoss
  BY DEF QueueInv
<1> QED BY <1>1, QueueInvariant, PTL

(* The ring never exceeds its capacity, and neither loop is parked while   *)
(* it could proceed: no wake-up of send(), receive() or close() is lost.   *)
THEOREM QueueNoLostWakeup == Spec => [](NoLostWakeup /\ SlotsMatch)
<1>1. QueueInv => NoLostWakeup /\ SlotsMatch
  BY DEF QueueInv
<1> QED BY <1>1, QueueInvariant, PTL

(* The queue implements the bounded channel: every step is a Put, a Get, a *)
(* Close or a stutter of the contract, and a hand-off that the reactor     *)
(* refuses closes it.                                                      *)
THEOREM QueueImplementsChannel == Spec => ChannelContract
<1>1. Init => Contract!Init
  BY DEF Init, Contract!Init, Accepted, InHand, Null
<1>2. QueueInv /\ [Next]_vars => [Contract!Next]_(Contract!chanVars)
  <2> SUFFICES ASSUME QueueInv, [Next]_vars
               PROVE  [Contract!Next]_(Contract!chanVars)
    OBVIOUS
  <2> USE DEF Contract!chanVars, queueVars, historyVars, Accepted, InHand
  <2>1. CASE OfferToWaiter
    <3>1. handed = Null /\ items = <<>> /\ ~closed
      BY <2>1 DEF QueueInv, FifoNoLoss, NoLostWakeup, SlotsMatch, OfferToWaiter, Offering
    <3>2. CASE stopped
      <4>1. Contract!Close
        BY <2>1, <3>1, <3>2 DEF OfferToWaiter, Contract!Close
      <4> QED BY <4>1 DEF Contract!Next
    <3>3. CASE ~stopped
      <4>1. Accepted' = Accepted + 1 /\ Accepted - received <= Capacity
        BY <2>1, <3>1, <3>3, CapacityAssumption DEF OfferToWaiter, QueueInv, TypeOK, Null
      <4>2. Contract!Put
        BY <2>1, <3>1, <3>3, <4>1 DEF OfferToWaiter, Contract!Put
      <4> QED BY <4>2 DEF Contract!Next
    <3> QED BY <3>2, <3>3
  <2>2. CASE OfferToRing
    <3>1. items \in Seq(1 .. MaxItems) /\ Len(items') = Len(items) + 1
      BY <2>2, AppendFacts, MaxItemsAssumption DEF OfferToRing, Offering, QueueInv, TypeOK
    <3>2. Accepted' = Accepted + 1 /\ Accepted - received <= Capacity
      <4>1. Len(items) \in Nat /\ Len(items) < Capacity /\ Len(items') = Len(items) + 1
        BY <2>2, <3>1 DEF OfferToRing
      <4>2. received \in Nat /\ received' = received /\ handed' = handed
        BY <2>2 DEF OfferToRing, QueueInv, TypeOK
      <4> QED BY <4>1, <4>2, CapacityAssumption
    <3>3. Contract!Put
      BY <2>2, <3>2 DEF OfferToRing, Offering, Contract!Put
    <3> QED BY <3>3 DEF Contract!Next
  <2>3. CASE ReceiveItem
    <3>1. items \in Seq(1 .. MaxItems) /\ items # <<>> /\ handed = Null
      BY <2>3 DEF ReceiveItem, Receiving, QueueInv, TypeOK, FifoNoLoss
    <3>2. Len(items) >= 1 /\ Len(Tail(items)) = Len(items) - 1 /\ Head(items) = items[1]
      BY <3>1, TailFacts
    <3>3. received < Accepted /\ Accepted' = Accepted
      BY <2>3, <3>1, <3>2 DEF ReceiveItem, QueueInv, TypeOK
    <3>4. last' = received + 1
      BY <2>3, <3>1, <3>2 DEF ReceiveItem, QueueInv, TypeOK, FifoNoLoss
    <3>5. closed' \in {closed, TRUE}
      BY <2>3, Zenon DEF ReceiveItem, QueueInv, TypeOK
    <3>6. Contract!Get
      BY <2>3, <3>3, <3>4, <3>5 DEF ReceiveItem, Contract!Get
    <3> QED BY <3>6 DEF Contract!Next
  <2>4. CASE TakeResumed
    <3>1. CASE handed # Null
      <4>1. received < Accepted /\ handed = received + 1
        BY <3>1 DEF QueueInv, TypeOK, FifoNoLoss
      <4>2. Accepted' = Accepted
        BY <2>4, <3>1 DEF TakeResumed, QueueInv, TypeOK
      <4>3. Contract!Get
        BY <2>4, <3>1, <4>1, <4>2 DEF TakeResumed, Contract!Get
      <4> QED BY <4>3 DEF Contract!Next
    <3>2. CASE handed = Null
      BY <2>4, <3>2 DEF TakeResumed
    <3> QED BY <3>1, <3>2
  <2>5. CASE Close
    <3>1. Contract!Close
      BY <2>5 DEF Close, Contract!Close
    <3> QED BY <3>1 DEF Contract!Next
  <2>6. CASE SendClosed \/ OfferFull \/ ReceiveNull \/ ReceiveEmpty \/ ReactorStops
    BY <2>6 DEF SendClosed, OfferFull, ReceiveNull, ReceiveEmpty, ReactorStops
  <2>7. ASSUME NEW j \in Jobs,
               \/ Watch(j) \/ Register(j) \/ Recheck(j)
               \/ Cancel(j) \/ OnCancelled(j) \/ Leave(j)
        PROVE  UNCHANGED Contract!chanVars
    BY <2>7 DEF Watch, EnterSlot, Register, Recheck, Cancel, OnCancelled, Leave
  <2>8. CASE UNCHANGED vars
    BY <2>8 DEF vars
  <2> QED BY <2>1, <2>2, <2>3, <2>4, <2>5, <2>6, <2>7, <2>8 DEF Next
<1> QED BY <1>1, <1>2, QueueInvariant, PTL DEF Spec, ChannelContract, Contract!Spec
=============================================================================
