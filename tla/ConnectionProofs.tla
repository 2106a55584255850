-------------------------- MODULE ConnectionProofs --------------------------
(***************************************************************************)
(* Proofs about Connection, for every set of callers and every             *)
(* configuration, in both write modes: first the type invariant and the    *)
(* limits on in-flight requests and on the outbound path, then where a     *)
(* caller may be while a table, a queue or the reactor still holds it, and *)
(* how it moves on from there, which ConnectionContractProofs builds on.   *)
(***************************************************************************)
EXTENDS Connection, FiniteSetTheorems, TLAPS

-----------------------------------------------------------------------------
(* Sequences *)

LEMMA TailFacts ==
  ASSUME NEW S, NEW s \in Seq(S), s # <<>>
  PROVE  /\ Head(s) \in S
         /\ Tail(s) \in Seq(S)
         /\ Len(s) \in Nat \ {0}
         /\ Len(Tail(s)) = Len(s) - 1
  OBVIOUS

LEMMA AppendFacts ==
  ASSUME NEW S, NEW s \in Seq(S), NEW e \in S
  PROVE  /\ Append(s, e) \in Seq(S)
         /\ Len(Append(s, e)) = Len(s) + 1
  OBVIOUS

LEMMA ToSetType ==
  ASSUME NEW S, NEW s \in Seq(S)
  PROVE  ToSet(s) \subseteq S
  BY DEF ToSet

(* ArrayDeque.remove leaves a queue of the same kind. *)
LEMMA WithoutType ==
  ASSUME NEW S, NEW s \in Seq(S), NEW e
  PROVE  Without(s, e) \in Seq(S)
<1>1. CASE \E i \in 1 .. Len(s) : s[i] = e
  <2> DEFINE k == CHOOSE i \in 1 .. Len(s) : s[i] = e
  <2>1. k \in 1 .. Len(s)
    BY <1>1
  <2>2. Without(s, e) = RemoveAt(s, k)
    BY <1>1 DEF Without
  <2> HIDE DEF k
  <2>3. SubSeq(s, 1, k - 1) \in Seq(S) /\ SubSeq(s, k + 1, Len(s)) \in Seq(S)
    BY <2>1
  <2> QED BY <2>2, <2>3 DEF RemoveAt
<1>2. CASE ~ \E i \in 1 .. Len(s) : s[i] = e
  BY <1>2 DEF Without
<1> QED BY <1>1, <1>2

(* The orders in which shutdown() may resume a finite set of callers. *)
LEMMA OrderType ==
  ASSUME NEW S, NEW T, IsFiniteSet(T), T \subseteq S, NEW s \in SetToSeqs(T)
  PROVE  s \in Seq(S)
<1>1. Cardinality(T) \in Nat
  BY FS_CardinalityType
<1>2. s \in [1 .. Cardinality(T) -> T]
  BY DEF SetToSeqs
<1>3. s \in [1 .. Cardinality(T) -> S]
  BY <1>2
<1> QED BY <1>1, <1>3

-----------------------------------------------------------------------------
(* The helpers of ConnectionState *)

(* wakeOneInFlightWaiter() keeps its queue a queue of requests. *)
LEMMA WakeType ==
  ASSUME NEW waiters \in Seq(Requests), NEW conts, conts \subseteq Requests,
         NEW queue \in Seq(Coroutines),
         WakeOneInFlightWaiter(waiters, conts, queue)
  PROVE  /\ inFlightWaiters' \in Seq(Requests)
         /\ slotCont' \subseteq Requests
         /\ ready' \in Seq(Coroutines)
<1>1. CASE waiters = <<>>
  BY <1>1 DEF WakeOneInFlightWaiter
<1>2. CASE waiters # <<>>
  <2>1. Head(waiters) \in Requests /\ Tail(waiters) \in Seq(Requests)
    BY <1>2, TailFacts
  <2>2. Append(queue, Head(waiters)) \in Seq(Coroutines)
    BY <2>1, AppendFacts DEF Coroutines, Callers
  <2> QED BY <1>2, <2>1, <2>2 DEF WakeOneInFlightWaiter
<1> QED BY <1>1, <1>2

(* releaseOutboundBytes() never raises the count and never goes below 0. *)
LEMMA ReleaseType ==
  ASSUME queuedBytes \in Nat, roomWaiters \in Seq(Callers),
         NEW bytes \in Nat, NEW queue \in Seq(Coroutines),
         ReleaseOutboundBytes(bytes, queue)
  PROVE  /\ queuedBytes' \in Nat /\ queuedBytes' <= queuedBytes
         /\ roomWaiters' \in Seq(Callers)
         /\ ready' \in Seq(Coroutines)
<1>1. queuedBytes' \in Nat /\ queuedBytes' <= queuedBytes
  BY DEF ReleaseOutboundBytes
<1>2. CASE roomWaiters = <<>>
  BY <1>1, <1>2 DEF ReleaseOutboundBytes
<1>3. CASE roomWaiters # <<>>
  <2>1. Head(roomWaiters) \in Callers /\ Tail(roomWaiters) \in Seq(Callers)
    BY <1>3, TailFacts
  <2>2. Append(queue, Head(roomWaiters)) \in Seq(Coroutines)
    BY <2>1, AppendFacts DEF Coroutines
  <2> QED BY <1>1, <1>3, <2>1, <2>2 DEF ReleaseOutboundBytes
<1> QED BY <1>2, <1>3

(* Moving a coroutine to another point, with or without a result. *)
LEMMA GoToType ==
  ASSUME ReactorType, NEW c \in Coroutines, NEW p \in Points, GoTo(c, p)
  PROVE  pc' \in [Coroutines -> Points] /\ outcome' \in [Callers -> Outcomes]
  BY DEF ReactorType, GoTo

LEMMA FinishType ==
  ASSUME ReactorType, NEW c \in Coroutines, NEW o \in Outcomes, Finish(c, o)
  PROVE  pc' \in [Coroutines -> Points] /\ outcome' \in [Callers -> Outcomes]
<1>1. "finally" \in Points
  BY DEF Points
<1>2. pc' \in [Coroutines -> Points]
  BY <1>1 DEF ReactorType, Finish
<1>3. outcome' \in [Callers -> Outcomes]
  BY DEF ReactorType, Finish
<1> QED BY <1>2, <1>3

LEMMA AfterEnqueueType ==
  ASSUME ReactorType, NEW c \in Coroutines, AfterEnqueue(c)
  PROVE  pc' \in [Coroutines -> Points] /\ outcome' \in [Callers -> Outcomes]
<1>1. "sent" \in Outcomes /\ "idle" \in Points /\ "await" \in Points
  BY DEF Outcomes, Points
<1>2. CASE c \in Senders
  BY <1>1, <1>2, FinishType DEF AfterEnqueue
<1>3. CASE c \notin Senders
  BY <1>1, <1>3, GoToType DEF AfterEnqueue
<1> QED BY <1>2, <1>3

-----------------------------------------------------------------------------
(* The conjuncts of ConnInv that most steps leave alone *)

(* The registry never exceeds its limit while it only shrinks. *)
LEMMA PendingShrinks ==
  ASSUME pending \subseteq Requests, InFlightBounded, pending' \subseteq pending
  PROVE  InFlightBounded'
<1>1. IsFiniteSet(pending)
  BY CallersAssumption, FS_Subset
<1>2. Cardinality(pending') <= Cardinality(pending) /\ IsFiniteSet(pending')
  BY <1>1, FS_Subset
<1>3. Cardinality(pending) \in Nat /\ Cardinality(pending') \in Nat
  BY <1>1, <1>2, FS_CardinalityType
<1> QED BY <1>2, <1>3, LimitsAssumption DEF InFlightBounded

(* A coroutine that moves to a point other than a writer's. *)
LEMMA LoopKept ==
  ASSUME ReactorType, WriteLoopAlone, NEW c \in Coroutines,
         NEW p, p \notin {"start", "drain", "write"},
         pc' = [pc EXCEPT ![c] = p], loopPacket' = loopPacket
  PROVE  WriteLoopAlone'
  BY DEF WriteLoopAlone, ReactorType, Coroutines

LEMMA PathKept ==
  ASSUME OutboundBounded, UNCHANGED pathVars
  PROVE  OutboundBounded'
  BY DEF OutboundBounded, pathVars

-----------------------------------------------------------------------------
(* One lemma per group of actions *)

(* A call that is refused or begins. *)
LEMMA CallSteps ==
  ASSUME ConnInv, NEW c \in Callers,
         \/ CallClosed(c)
         \/ Send(c)
         \/ c \in Requests /\ Request(c)
  PROVE  ConnInv'
<1> USE DEF reactorVars, registryVars, roomVars, pathVars, ioVars, OnlyCaller
<1>0. ConnInv /\ c \in Coroutines
  BY DEF Coroutines
<1>1. /\ RoomType' /\ PathType' /\ IoType' /\ FlagType'
      /\ UNCHANGED <<loopPacket, pathVars, pending>>
      /\ UNCHANGED <<ready, cancelled, inFlightWaiters, slotCont, settled, answer>>
  BY <1>0 DEF ConnInv, TypeOK, RoomType, PathType, IoType, FlagType, CallClosed, Send, Request
<1>2. ASSUME NEW p \in {"done", "enqueue", "slot"}, pc' = [pc EXCEPT ![c] = p]
      PROVE  pc' \in [Coroutines -> Points] /\ WriteLoopAlone'
  <2>1. p \in Points
    BY DEF Points
  <2> QED BY <1>0, <1>1, <1>2, <2>1, LoopKept DEF ConnInv, TypeOK, ReactorType
<1>3. pc' \in [Coroutines -> Points] /\ WriteLoopAlone'
  BY <1>2 DEF CallClosed, Send, Request, GoTo
<1>4. outcome' \in [Callers -> Outcomes]
  <2>1. "closed" \in Outcomes /\ "exhausted" \in Outcomes
    BY DEF Outcomes, Settlements
  <2> QED BY <1>0, <2>1 DEF ConnInv, TypeOK, ReactorType, CallClosed, Send, Request, GoTo
<1>5. running' \in Coroutines \cup {Nobody}
  BY <1>0 DEF ConnInv, TypeOK, ReactorType, CallClosed, Send, Request
<1>6. requestId' \in 0 .. IdMax /\ id' \in [Requests -> 0 .. IdMax]
  <2>1. CASE UNCHANGED <<requestId, id>>
    BY <1>0, <2>1 DEF ConnInv, TypeOK, RegistryType
  <2>2. CASE /\ requestId # IdMax /\ requestId' = requestId + 1
             /\ id' = [id EXCEPT ![c] = requestId + 1]
    <3>1. requestId + 1 \in 0 .. IdMax
      BY <1>0, <2>2, LimitsAssumption DEF ConnInv, TypeOK, RegistryType
    <3> QED BY <1>0, <2>2, <3>1 DEF ConnInv, TypeOK, RegistryType
  <2> QED BY <2>1, <2>2 DEF CallClosed, Send, Request
<1>7. TypeOK'
  BY <1>0, <1>1, <1>3, <1>4, <1>5, <1>6 DEF ConnInv, TypeOK, ReactorType, RegistryType
<1>8. InFlightBounded' /\ OutboundBounded'
  BY <1>0, <1>1, PathKept DEF ConnInv, InFlightBounded
<1> QED BY <1>3, <1>7, <1>8 DEF ConnInv

(* The loop for an in-flight slot: here the registry grows. *)
LEMMA SlotSteps ==
  ASSUME ConnInv, NEW c \in Requests, SlotTaken(c) \/ SlotRefused(c) \/ SlotWait(c)
  PROVE  ConnInv'
<1> USE DEF reactorVars, registryVars, roomVars, pathVars, ioVars, OnlyCaller
<1>0. ConnInv /\ c \in Coroutines
  BY DEF Coroutines, Callers
<1>1. /\ RoomType' /\ PathType' /\ IoType' /\ FlagType'
      /\ UNCHANGED <<loopPacket, pathVars>>
      /\ UNCHANGED <<ready, cancelled, requestId, id, settled, answer>>
  BY <1>0 DEF ConnInv, TypeOK, RoomType, PathType, IoType, FlagType,
     SlotTaken, SlotRefused, SlotWait
<1>2. ASSUME NEW p \in {"enqueue", "slotParked"}, GoTo(c, p)
      PROVE  /\ pc' \in [Coroutines -> Points] /\ outcome' \in [Callers -> Outcomes]
             /\ WriteLoopAlone'
  <2>1. p \in Points
    BY DEF Points
  <2>2. WriteLoopAlone'
    BY <1>0, <1>1, <1>2, LoopKept DEF ConnInv, TypeOK, GoTo
  <2> QED BY <1>0, <1>2, <2>1, <2>2, GoToType DEF ConnInv, TypeOK
<1>3. ASSUME NEW o \in Outcomes, Finish(c, o)
      PROVE  /\ pc' \in [Coroutines -> Points] /\ outcome' \in [Callers -> Outcomes]
             /\ WriteLoopAlone'
  <2>1. WriteLoopAlone'
    BY <1>0, <1>1, <1>3, LoopKept DEF ConnInv, TypeOK, Finish
  <2> QED BY <1>0, <1>3, <2>1, FinishType DEF ConnInv, TypeOK
<1>4. CASE SlotTaken(c)
  <2>1. /\ pending' \subseteq pending \cup {c}
        /\ UNCHANGED <<running, inFlightWaiters, slotCont>>
        /\ GoTo(c, "enqueue") /\ Cardinality(pending) < MaxInFlight
    <3>1. Cardinality(pending) \in Nat
      BY <1>0, CallersAssumption, FS_Subset, FS_CardinalityType DEF ConnInv, TypeOK, RegistryType
    <3>2. Cardinality(pending) < MaxInFlight
      BY <1>4, <3>1, LimitsAssumption DEF SlotTaken, SlotsFull
    <3> QED BY <1>4, <3>2 DEF SlotTaken
  <2>2. TypeOK'
    BY <1>0, <1>1, <1>2, <2>1 DEF ConnInv, TypeOK, ReactorType, RegistryType
  <2>3. InFlightBounded'
    <3>1. IsFiniteSet(pending)
      BY <1>0, CallersAssumption, FS_Subset DEF ConnInv, TypeOK, RegistryType
    <3>2. /\ IsFiniteSet(pending \cup {c})
          /\ Cardinality(pending \cup {c}) =
               IF c \in pending THEN Cardinality(pending) ELSE Cardinality(pending) + 1
      BY <3>1, FS_AddElement
    <3>3. IsFiniteSet(pending') /\ Cardinality(pending') <= Cardinality(pending \cup {c})
      BY <2>1, <3>2, FS_Subset
    <3>4. /\ Cardinality(pending) \in Nat /\ Cardinality(pending') \in Nat
          /\ Cardinality(pending \cup {c}) \in Nat
      BY <3>1, <3>2, <3>3, FS_CardinalityType
    <3> QED BY <2>1, <3>2, <3>3, <3>4, LimitsAssumption DEF InFlightBounded
  <2> QED BY <1>0, <1>1, <1>2, <2>1, <2>2, <2>3, PathKept DEF ConnInv
<1>5. CASE SlotRefused(c)
  <2>1. PICK o \in Outcomes : Finish(c, o)
    <3>1. settled[c] \in Outcomes /\ "closed" \in Outcomes
      BY <1>0 DEF ConnInv, TypeOK, RegistryType, Outcomes, Settlements
    <3> QED BY <1>5, <3>1 DEF SlotRefused
  <2>2. TypeOK'
    BY <1>0, <1>1, <1>3, <1>5, <2>1 DEF SlotRefused, ConnInv, TypeOK, ReactorType, RegistryType
  <2>3. InFlightBounded'
    BY <1>0, <1>5 DEF SlotRefused, ConnInv, InFlightBounded
  <2> QED BY <1>0, <1>1, <1>3, <2>1, <2>2, <2>3, PathKept DEF ConnInv
<1>6. CASE SlotWait(c)
  <2>1. "cancelled" \in Outcomes
    BY DEF Outcomes
  <2>2. /\ pc' \in [Coroutines -> Points] /\ outcome' \in [Callers -> Outcomes]
        /\ WriteLoopAlone'
    BY <1>2, <1>3, <1>6, <2>1 DEF SlotWait
  <2>3. running' \in Coroutines \cup {Nobody} /\ slotCont' \subseteq Requests
    BY <1>0, <1>6 DEF SlotWait, ConnInv, TypeOK, ReactorType, RegistryType
  <2>4. inFlightWaiters' \in Seq(Requests)
    <3>1. inFlightWaiters \in Seq(Requests)
      BY <1>0 DEF ConnInv, TypeOK, RegistryType
    <3>2. Append(inFlightWaiters, c) \in Seq(Requests)
      BY <3>1, AppendFacts
    <3> QED BY <1>6, <3>1, <3>2 DEF SlotWait
  <2>5. TypeOK'
    BY <1>0, <1>1, <1>6, <2>2, <2>3, <2>4 DEF SlotWait, ConnInv, TypeOK, ReactorType, RegistryType
  <2>6. InFlightBounded'
    BY <1>0, <1>6 DEF SlotWait, ConnInv, InFlightBounded
  <2> QED BY <1>0, <1>1, <2>2, <2>5, <2>6, PathKept DEF ConnInv
<1> QED BY <1>4, <1>5, <1>6

(* await(), the finally block and the return of send(). *)
LEMMA ReturnSteps ==
  ASSUME ConnInv, NEW c \in Callers,
         \/ c \in Requests /\ (AwaitSettled(c) \/ AwaitParks(c) \/ Finally(c))
         \/ SendReturns(c)
  PROVE  ConnInv'
<1> USE DEF reactorVars, registryVars, roomVars, pathVars, ioVars, OnlyCaller
<1>0. ConnInv /\ c \in Coroutines
  BY DEF Coroutines
<1>1. /\ RoomType' /\ PathType' /\ IoType' /\ FlagType'
      /\ UNCHANGED <<loopPacket, pathVars>>
      /\ UNCHANGED <<cancelled, requestId, id, settled, answer>>
  BY <1>0 DEF ConnInv, TypeOK, RoomType, PathType, IoType, FlagType,
     AwaitSettled, AwaitParks, Finally, SendReturns
<1>2. PICK p \in {"finally", "awaitParked", "done"} : pc' = [pc EXCEPT ![c] = p]
  BY DEF AwaitSettled, AwaitParks, Finally, SendReturns, Return, GoTo, Finish
<1>3. pc' \in [Coroutines -> Points] /\ WriteLoopAlone'
  <2>1. p \in Points
    BY DEF Points
  <2> QED BY <1>0, <1>1, <1>2, <2>1, LoopKept DEF ConnInv, TypeOK, ReactorType
<1>4. outcome' \in [Callers -> Outcomes]
  <2>1. "cancelled" \in Outcomes /\ Settlements \subseteq Outcomes
    BY DEF Outcomes
  <2>2. CASE c \in Requests /\ AwaitSettled(c)
    BY <1>0, <2>1, <2>2 DEF ConnInv, TypeOK, ReactorType, RegistryType, AwaitSettled, Finish
  <2>3. CASE AwaitParks(c)
    BY <1>0, <2>1, <2>3 DEF ConnInv, TypeOK, ReactorType, AwaitParks, Finish, GoTo
  <2>4. CASE Finally(c) \/ SendReturns(c)
    BY <1>0, <2>4 DEF ConnInv, TypeOK, ReactorType, Finally, SendReturns
  <2> QED BY <2>2, <2>3, <2>4
<1>5. running' \in Coroutines \cup {Nobody}
  BY <1>0 DEF ConnInv, TypeOK, ReactorType, AwaitSettled, AwaitParks, Finally, SendReturns, Return
<1>6. pending' \subseteq pending
  BY DEF AwaitSettled, AwaitParks, Finally, SendReturns
<1>7. /\ inFlightWaiters' \in Seq(Requests) /\ slotCont' \subseteq Requests
      /\ ready' \in Seq(Coroutines)
  <2>1. CASE Finally(c)
    <3>1. Without(inFlightWaiters, c) \in Seq(Requests)
      BY <1>0, WithoutType DEF ConnInv, TypeOK, RegistryType
    <3> QED BY <1>0, <2>1, <3>1, WakeType DEF Finally, ConnInv, TypeOK, ReactorType, RegistryType
  <2>2. CASE AwaitSettled(c) \/ AwaitParks(c) \/ SendReturns(c)
    BY <1>0, <2>2 DEF ConnInv, TypeOK, ReactorType, RegistryType, AwaitSettled, AwaitParks, SendReturns
  <2> QED BY <2>1, <2>2
<1>8. TypeOK'
  BY <1>0, <1>1, <1>3, <1>4, <1>5, <1>6, <1>7 DEF ConnInv, TypeOK, ReactorType, RegistryType
<1>9. InFlightBounded' /\ OutboundBounded'
  BY <1>0, <1>1, <1>6, PendingShrinks, PathKept DEF ConnInv, TypeOK, RegistryType
<1> QED BY <1>3, <1>8, <1>9 DEF ConnInv

(* The reactor resumes a coroutine. *)
LEMMA RunSteps ==
  ASSUME ConnInv, NEW c \in Coroutines, Run(c) \/ RunDead(c)
  PROVE  ConnInv'
<1> USE DEF reactorVars, registryVars, roomVars, pathVars, ioVars
<1>1. /\ RegistryType' /\ PathType' /\ IoType' /\ FlagType' /\ RoomType'
      /\ UNCHANGED <<loopPacket, pathVars, pending, cancelled>>
  BY DEF ConnInv, TypeOK, RegistryType, RoomType, PathType, IoType, FlagType, Run, RunDead
<1>2. ready' \in Seq(Coroutines) /\ running' \in Coroutines \cup {Nobody}
  <2>1. ready \in Seq(Coroutines) /\ ready # <<>>
    BY DEF ConnInv, TypeOK, ReactorType, Run, RunDead, Resumed
  <2>2. Tail(ready) \in Seq(Coroutines)
    BY <2>1, TailFacts
  <2> QED BY <2>2 DEF ConnInv, TypeOK, ReactorType, Run, RunDead
<1>3. InFlightBounded' /\ OutboundBounded'
  BY <1>1, PathKept DEF ConnInv, InFlightBounded
<1>4. CASE RunDead(c)
  <2>1. TypeOK'
    BY <1>1, <1>2, <1>4 DEF ConnInv, TypeOK, ReactorType, RunDead
  <2>2. WriteLoopAlone'
    BY <1>4 DEF ConnInv, WriteLoopAlone, RunDead
  <2> QED BY <1>3, <2>1, <2>2 DEF ConnInv
<1>5. CASE Run(c)
  <2>1. CASE RunWriter(c)
    <3>1. PICK p \in {"drain", "receive"} :
             /\ GoTo(c, p)
             /\ p = "drain" => pc[Writer] = "start"
      BY <2>1 DEF RunWriter
    <3>2. p \in Points
      BY DEF Points
    <3>3. TypeOK'
      BY <1>1, <1>2, <3>1, <3>2, GoToType DEF ConnInv, TypeOK, ReactorType
    <3>4. WriteLoopAlone'
      BY <1>1, <2>1, <3>1, CallersAssumption
         DEF ConnInv, TypeOK, ReactorType, WriteLoopAlone, GoTo, RunWriter, Coroutines
    <3> QED BY <1>3, <3>3, <3>4 DEF ConnInv
  <2>2. CASE RunSlotWaiter(c) \/ RunRoomWaiter(c) \/ RunAwaiter(c)
    <3>1. {"cancelled", "closed", "timeout", "response"} \subseteq Outcomes
      BY DEF Outcomes, Settlements
    <3>2. \/ \E o \in Outcomes : Finish(c, o)
          \/ \E p \in {"slot", "enqueue"} : GoTo(c, p)
      <4>1. CASE RunSlotWaiter(c)
        BY <3>1, <4>1 DEF RunSlotWaiter
      <4>2. CASE RunRoomWaiter(c)
        BY <3>1, <4>2 DEF RunRoomWaiter
      <4>3. CASE RunAwaiter(c)
        BY <3>1, <4>3 DEF RunAwaiter
      <4> QED BY <2>2, <4>1, <4>2, <4>3
    <3>3. CASE \E o \in Outcomes : Finish(c, o)
      <4>1. PICK o \in Outcomes : Finish(c, o)
        BY <3>3
      <4>2. TypeOK'
        BY <1>1, <1>2, <4>1, FinishType DEF ConnInv, TypeOK, ReactorType
      <4>3. WriteLoopAlone'
        BY <1>1, <4>1, LoopKept DEF ConnInv, TypeOK, Finish
      <4> QED BY <1>3, <4>2, <4>3 DEF ConnInv
    <3>4. CASE \E p \in {"slot", "enqueue"} : GoTo(c, p)
      <4>1. PICK p \in {"slot", "enqueue"} : GoTo(c, p)
        BY <3>4
      <4>2. p \in Points
        BY DEF Points
      <4>3. TypeOK'
        BY <1>1, <1>2, <4>1, <4>2, GoToType DEF ConnInv, TypeOK, ReactorType
      <4>4. WriteLoopAlone'
        BY <1>1, <4>1, LoopKept DEF ConnInv, TypeOK, GoTo
      <4> QED BY <1>3, <4>3, <4>4 DEF ConnInv
    <3> QED BY <3>2, <3>3, <3>4
  <2> QED BY <1>5, <2>1, <2>2 DEF Run
<1> QED BY <1>4, <1>5

(* A caller leaves the outbound Channel, with or without its bytes. *)
LEMMA ChanWaiterStep ==
  ASSUME ConnInv, NEW c \in Callers, RunChanWaiter(c)
  PROVE  ConnInv'
<1> USE DEF reactorVars, registryVars, roomVars, pathVars, ioVars
<1>0. ConnInv /\ c \in Coroutines /\ Bytes[c] \in Nat
  BY LimitsAssumption DEF Coroutines
<1>1. /\ RegistryType' /\ IoType' /\ FlagType'
      /\ UNCHANGED <<loopPacket, sendQueue, buffer, pending, cancelled>>
  BY <1>0 DEF ConnInv, TypeOK, RegistryType, IoType, FlagType, RunChanWaiter
<1>2. pc' \in [Coroutines -> Points] /\ outcome' \in [Callers -> Outcomes]
  <2>1. "cancelled" \in Outcomes
    BY DEF Outcomes
  <2> QED BY <1>0, <2>1, FinishType, AfterEnqueueType DEF ConnInv, TypeOK, RunChanWaiter
<1>3. WriteLoopAlone'
  <2>1. PICK p \in {"finally", "idle", "await"} : pc' = [pc EXCEPT ![c] = p]
    BY DEF RunChanWaiter, AfterEnqueue, GoTo, Finish
  <2> QED BY <1>0, <1>1, <2>1, LoopKept DEF ConnInv, TypeOK
<1>4. /\ queuedBytes' \in Nat /\ queuedBytes' <= queuedBytes
      /\ roomWaiters' \in Seq(Callers) /\ ready' \in Seq(Coroutines)
  <2>1. /\ ready \in Seq(Coroutines) /\ ready # <<>>
        /\ queuedBytes \in Nat /\ roomWaiters \in Seq(Callers)
    BY <1>0 DEF ConnInv, TypeOK, ReactorType, RoomType, PathType, RunChanWaiter, Resumed
  <2>2. Tail(ready) \in Seq(Coroutines)
    BY <2>1, TailFacts
  <2>3. CASE ReleaseOutboundBytes(Bytes[c], Tail(ready))
    BY <1>0, <2>1, <2>2, <2>3, ReleaseType
  <2>4. CASE ready' = Tail(ready) /\ UNCHANGED <<queuedBytes, roomWaiters>>
    BY <2>1, <2>2, <2>4
  <2> QED BY <2>3, <2>4 DEF RunChanWaiter
<1>5. TypeOK'
  BY <1>0, <1>1, <1>2, <1>4
     DEF ConnInv, TypeOK, ReactorType, RoomType, PathType, RunChanWaiter
<1>6. InFlightBounded' /\ OutboundBounded'
  BY <1>0, <1>1, <1>4, LimitsAssumption
     DEF ConnInv, TypeOK, PathType, InFlightBounded, OutboundBounded
<1> QED BY <1>3, <1>5, <1>6 DEF ConnInv

(* The deadline, a response, a cancellation. *)
LEMMA EventSteps ==
  ASSUME ConnInv, NEW c \in Callers,
         \/ c \in Requests /\ Deadline(c)
         \/ \E r \in Requests : c \in Requests /\ RecvResponse(r, c)
         \/ Cancel(c)
  PROVE  ConnInv'
<1> USE DEF reactorVars, registryVars, roomVars, pathVars, ioVars
<1>0. /\ ConnInv /\ c \in Coroutines
      /\ ready \in Seq(Coroutines) /\ Append(ready, c) \in Seq(Coroutines)
      /\ inFlightWaiters \in Seq(Requests) /\ roomWaiters \in Seq(Callers)
      /\ chanSenders \in Seq(Callers) /\ slotCont \subseteq Requests
  <2>1. c \in Coroutines
    BY DEF Coroutines
  <2>2. ready \in Seq(Coroutines)
    BY DEF ConnInv, TypeOK, ReactorType
  <2>3. Append(ready, c) \in Seq(Coroutines)
    BY <2>1, <2>2, AppendFacts
  <2> QED BY <2>1, <2>2, <2>3 DEF ConnInv, TypeOK, RegistryType, RoomType, PathType
<1>1. /\ IoType'
      /\ UNCHANGED <<closed, running, outcome, requestId, id, queuedBytes, sendQueue,
                     writerActive, buffer, loopPacket>>
  BY <1>0 DEF ConnInv, TypeOK, IoType, Deadline, RecvResponse, Cancel
<1>2. cancelled' \subseteq Callers /\ pending' \subseteq pending
  BY <1>0 DEF ConnInv, TypeOK, ReactorType, Deadline, RecvResponse, Cancel
<1>3. pc' \in [Coroutines -> Points] /\ WriteLoopAlone'
  <2>1. pc' = pc \/ pc' = [pc EXCEPT ![c] = "chanGate"]
    BY DEF Deadline, RecvResponse, Cancel
  <2>2. "chanGate" \in Points
    BY DEF Points
  <2>3. CASE pc' = pc
    BY <1>0, <1>1, <2>3 DEF ConnInv, TypeOK, ReactorType, WriteLoopAlone
  <2>4. CASE pc' = [pc EXCEPT ![c] = "chanGate"]
    BY <1>0, <1>1, <2>2, <2>4, LoopKept DEF ConnInv, TypeOK, ReactorType
  <2> QED BY <2>1, <2>3, <2>4
<1>4. chanSenders' \in Seq(Callers)
  <2>1. Without(chanSenders, c) \in Seq(Callers)
    BY <1>0, WithoutType
  <2> QED BY <1>0, <2>1 DEF Deadline, RecvResponse, Cancel
<1>5. RoomType'
  <2>1. Without(roomWaiters, c) \in Seq(Callers)
    BY <1>0, WithoutType
  <2> QED BY <1>0, <2>1 DEF ConnInv, TypeOK, RoomType, Deadline, RecvResponse, Cancel
<1>6. doubleResume' \in BOOLEAN
  BY <1>0 DEF ConnInv, TypeOK, FlagType, Deadline, RecvResponse, Cancel
<1>7. /\ settled' \in [Requests -> Settlements]
      /\ answer' \in [Requests -> Requests \cup {Nobody}]
  <2>1. "timeout" \in Settlements /\ "response" \in Settlements
    BY DEF Settlements
  <2>2. CASE Deadline(c)
    BY <1>0, <2>1, <2>2 DEF ConnInv, TypeOK, RegistryType, Deadline
  <2>3. CASE \E r \in Requests : c \in Requests /\ RecvResponse(r, c)
    BY <1>0, <2>1, <2>3 DEF ConnInv, TypeOK, RegistryType, RecvResponse
  <2>4. CASE Cancel(c)
    BY <1>0, <2>4 DEF ConnInv, TypeOK, RegistryType, Cancel
  <2> QED BY <2>2, <2>3, <2>4
<1>8. /\ inFlightWaiters' \in Seq(Requests) /\ slotCont' \subseteq Requests
      /\ ready' \in Seq(Coroutines)
  <2>1. CASE Deadline(c)
    <3>1. PICK queue \in Seq(Coroutines) :
             \/ ready' = queue /\ UNCHANGED <<inFlightWaiters, slotCont>>
             \/ WakeOneInFlightWaiter(inFlightWaiters, slotCont \ {c}, queue)
      BY <1>0, <2>1 DEF Deadline
    <3>2. CASE ready' = queue /\ UNCHANGED <<inFlightWaiters, slotCont>>
      BY <1>0, <3>2
    <3>3. CASE WakeOneInFlightWaiter(inFlightWaiters, slotCont \ {c}, queue)
      BY <1>0, <3>3, WakeType
    <3> QED BY <3>1, <3>2, <3>3
  <2>2. CASE \E r \in Requests : c \in Requests /\ RecvResponse(r, c)
    <3>1. PICK queue \in Seq(Coroutines) :
             WakeOneInFlightWaiter(inFlightWaiters, slotCont, queue)
      BY <1>0, <2>2 DEF RecvResponse
    <3> QED BY <1>0, <3>1, WakeType
  <2>3. CASE Cancel(c)
    <3>1. Without(inFlightWaiters, c) \in Seq(Requests)
      BY <1>0, WithoutType
    <3> QED BY <1>0, <2>3, <3>1 DEF Cancel
  <2> QED BY <2>1, <2>2, <2>3
<1>9. TypeOK'
  BY <1>0, <1>1, <1>2, <1>3, <1>4, <1>5, <1>6, <1>7, <1>8
     DEF ConnInv, TypeOK, ReactorType, RegistryType, PathType, FlagType
<1>10. InFlightBounded' /\ OutboundBounded'
  BY <1>0, <1>1, <1>2, PendingShrinks DEF ConnInv, TypeOK, RegistryType, OutboundBounded
<1> QED BY <1>3, <1>9, <1>10 DEF ConnInv

(* A caller that fails or waits on its way onto the outbound path. *)
LEMMA EnqueueWaitSteps ==
  ASSUME ConnInv, NEW c \in Callers,
         EnqueueTooLarge(c) \/ EnqueueAborted(c) \/ EnqueueWait(c)
  PROVE  ConnInv'
<1> USE DEF reactorVars, registryVars, roomVars, pathVars, ioVars, OnlyCaller
<1>0. ConnInv /\ c \in Coroutines
  BY DEF Coroutines
<1>1. /\ RegistryType' /\ PathType' /\ IoType' /\ FlagType'
      /\ UNCHANGED <<loopPacket, pathVars, pending, ready, cancelled>>
  BY <1>0 DEF ConnInv, TypeOK, RegistryType, PathType, IoType, FlagType,
     EnqueueTooLarge, EnqueueAborted, EnqueueWait
<1>2. pc' \in [Coroutines -> Points] /\ outcome' \in [Callers -> Outcomes]
  <2>1. /\ {"tooLarge", "closed", "cancelled"} \subseteq Outcomes
        /\ {"await", "roomParked"} \subseteq Points
    BY DEF Outcomes, Settlements, Points
  <2>2. CASE EnqueueTooLarge(c)
    BY <1>0, <2>1, <2>2, FinishType DEF ConnInv, TypeOK, EnqueueTooLarge
  <2>3. CASE EnqueueAborted(c)
    BY <1>0, <2>1, <2>3, FinishType, GoToType DEF ConnInv, TypeOK, EnqueueAborted
  <2>4. CASE EnqueueWait(c)
    BY <1>0, <2>1, <2>4, FinishType, GoToType DEF ConnInv, TypeOK, EnqueueWait
  <2> QED BY <2>2, <2>3, <2>4
<1>3. WriteLoopAlone'
  <2>1. PICK p \in {"finally", "await", "roomParked"} : pc' = [pc EXCEPT ![c] = p]
    BY DEF EnqueueTooLarge, EnqueueAborted, EnqueueWait, GoTo, Finish
  <2> QED BY <1>0, <1>1, <2>1, LoopKept DEF ConnInv, TypeOK
<1>4. RoomType'
  <2>1. roomWaiters \in Seq(Callers) /\ roomCont \subseteq Requests
    BY <1>0 DEF ConnInv, TypeOK, RoomType
  <2>2. Append(roomWaiters, c) \in Seq(Callers)
    BY <2>1, AppendFacts
  <2> QED BY <2>1, <2>2 DEF RoomType, EnqueueTooLarge, EnqueueAborted, EnqueueWait
<1>5. running' \in Coroutines \cup {Nobody}
  BY <1>0 DEF ConnInv, TypeOK, ReactorType, EnqueueTooLarge, EnqueueAborted, EnqueueWait
<1>6. TypeOK'
  BY <1>0, <1>1, <1>2, <1>4, <1>5 DEF ConnInv, TypeOK, ReactorType
<1>7. InFlightBounded' /\ OutboundBounded'
  BY <1>0, <1>1, PathKept DEF ConnInv, InFlightBounded
<1> QED BY <1>3, <1>6, <1>7 DEF ConnInv

(* checkOutboundSize and hasOutboundRoom together keep the byte budget. *)
LEMMA RoomFits ==
  ASSUME ConnInv, NEW c \in Callers, Enqueuing(c), HasRoom(c)
  PROVE  queuedBytes + Bytes[c] \in Nat /\ queuedBytes + Bytes[c] <= MaxOutboundBytes
  BY LimitsAssumption DEF ConnInv, TypeOK, PathType, Enqueuing, TooLarge, HasRoom

(* A caller puts its packet on the outbound path: here the path fills. *)
LEMMA EnqueueSteps ==
  ASSUME ConnInv, NEW c \in Callers,
         EnqueueInline(c) \/ EnqueueChannel(c) \/ EnqueueChannelFull(c)
  PROVE  ConnInv'
<1> USE DEF reactorVars, registryVars, roomVars, pathVars, ioVars
<1>0. /\ ConnInv /\ c \in Coroutines /\ Writer \in Coroutines
      /\ sendQueue \in Seq(Callers) /\ buffer \in Seq(Callers)
      /\ chanSenders \in Seq(Callers) /\ accepted \in Seq(Callers)
      /\ ready \in Seq(Coroutines) /\ queuedBytes \in Nat
  BY DEF Coroutines, ConnInv, TypeOK, PathType, IoType, ReactorType
<1>1. /\ RegistryType' /\ RoomType' /\ FlagType'
      /\ UNCHANGED <<pending, cancelled, writeBuf, wire>>
  BY <1>0 DEF ConnInv, TypeOK, RegistryType, RoomType, FlagType,
     EnqueueInline, EnqueueChannel, EnqueueChannelFull
<1>2. queuedBytes' \in Nat /\ queuedBytes' <= MaxOutboundBytes
  <2>1. queuedBytes + Bytes[c] \in Nat /\ queuedBytes + Bytes[c] <= MaxOutboundBytes
    BY <1>0, RoomFits DEF EnqueueInline, EnqueueChannel, EnqueueChannelFull
  <2> QED BY <1>0, <2>1 DEF ConnInv, OutboundBounded, EnqueueInline, EnqueueChannel,
                          EnqueueChannelFull
<1>3. /\ Append(sendQueue, c) \in Seq(Callers) /\ Len(Append(sendQueue, c)) = Len(sendQueue) + 1
      /\ Append(buffer, c) \in Seq(Callers) /\ Len(Append(buffer, c)) = Len(buffer) + 1
      /\ Append(chanSenders, c) \in Seq(Callers) /\ Append(accepted, c) \in Seq(Callers)
      /\ Append(ready, Writer) \in Seq(Coroutines)
  BY <1>0, AppendFacts
<1>4. pc' \in [Coroutines -> Points] /\ outcome' \in [Callers -> Outcomes]
  <2>1. "cancelled" \in Outcomes /\ "drain" \in Points /\ "chanParked" \in Points
    BY DEF Outcomes, Points
  <2>2. CASE EnqueueInline(c)
    BY <1>0, <2>1, <2>2, GoToType, AfterEnqueueType DEF ConnInv, TypeOK, EnqueueInline
  <2>3. CASE EnqueueChannel(c)
    BY <1>0, <2>3, AfterEnqueueType DEF ConnInv, TypeOK, EnqueueChannel
  <2>4. CASE EnqueueChannelFull(c)
    BY <1>0, <2>1, <2>4, FinishType, GoToType DEF ConnInv, TypeOK, EnqueueChannelFull
  <2> QED BY <2>2, <2>3, <2>4
<1>5. CASE EnqueueInline(c)
  <2>1. WriteLoopAlone'
    BY <1>5 DEF EnqueueInline, WriteLoopAlone
  <2>2. TypeOK'
    BY <1>0, <1>1, <1>2, <1>3, <1>4, <1>5
       DEF ConnInv, TypeOK, ReactorType, PathType, IoType, EnqueueInline
  <2>3. Len(sendQueue') <= MailboxCapacity /\ UNCHANGED buffer
    BY <1>0, <1>3, <1>5, LimitsAssumption DEF EnqueueInline, HasRoom
  <2>4. InFlightBounded' /\ OutboundBounded'
    BY <1>0, <1>1, <1>2, <2>3 DEF ConnInv, InFlightBounded, OutboundBounded
  <2> QED BY <2>1, <2>2, <2>4 DEF ConnInv
<1>6. CASE EnqueueChannel(c)
  <2>1. WriteLoopAlone'
    <3>1. PICK p \in {"finally", "idle", "await"} : pc' = [pc EXCEPT ![c] = p]
      BY <1>6 DEF EnqueueChannel, AfterEnqueue, GoTo, Finish
    <3>2. CASE pc[Writer] = "recvParked"
      BY <1>0, <3>1, <3>2, CallersAssumption
         DEF ConnInv, TypeOK, ReactorType, WriteLoopAlone, Coroutines
    <3>3. CASE pc[Writer] # "recvParked"
      BY <1>0, <1>6, <3>1, <3>3, LoopKept DEF ConnInv, TypeOK, EnqueueChannel
    <3> QED BY <3>2, <3>3
  <2>2. /\ ready' \in Seq(Coroutines) /\ buffer' \in Seq(Callers)
        /\ loopPacket' \in Callers \cup {Nobody}
    BY <1>0, <1>3, <1>6 DEF ConnInv, TypeOK, PathType, EnqueueChannel
  <2>3. TypeOK'
    BY <1>0, <1>1, <1>2, <1>3, <1>4, <1>6, <2>2
       DEF ConnInv, TypeOK, ReactorType, PathType, IoType, EnqueueChannel
  <2>4. Len(buffer') <= MailboxCapacity /\ UNCHANGED sendQueue
    <3>1. CASE UNCHANGED buffer
      BY <1>0, <1>6, <3>1 DEF ConnInv, OutboundBounded, EnqueueChannel
    <3>2. CASE Len(buffer) < MailboxCapacity /\ buffer' = Append(buffer, c)
      BY <1>0, <1>3, <1>6, <3>2, LimitsAssumption DEF EnqueueChannel
    <3> QED BY <1>6, <3>1, <3>2 DEF EnqueueChannel
  <2>5. InFlightBounded' /\ OutboundBounded'
    BY <1>0, <1>1, <1>2, <2>4 DEF ConnInv, InFlightBounded, OutboundBounded
  <2> QED BY <2>1, <2>3, <2>5 DEF ConnInv
<1>7. CASE EnqueueChannelFull(c)
  <2>1. PICK p \in {"finally", "chanParked"} : pc' = [pc EXCEPT ![c] = p]
    BY <1>7 DEF EnqueueChannelFull, GoTo, Finish
  <2>2. WriteLoopAlone'
    BY <1>0, <1>7, <2>1, LoopKept DEF ConnInv, TypeOK, EnqueueChannelFull
  <2>3. running' \in Coroutines \cup {Nobody} /\ chanSenders' \in Seq(Callers)
    BY <1>0, <1>3, <1>7 DEF ConnInv, TypeOK, ReactorType, EnqueueChannelFull
  <2>4. TypeOK'
    BY <1>0, <1>1, <1>2, <1>4, <1>7, <2>3
       DEF ConnInv, TypeOK, ReactorType, PathType, IoType, EnqueueChannelFull
  <2>5. InFlightBounded' /\ OutboundBounded'
    BY <1>0, <1>1, <1>2, <1>7 DEF ConnInv, InFlightBounded, OutboundBounded, EnqueueChannelFull
  <2> QED BY <2>2, <2>4, <2>5 DEF ConnInv
<1> QED BY <1>5, <1>6, <1>7

(* The chunks of a packet. *)
LEMMA EncodeType ==
  ASSUME NEW c \in Callers
  PROVE  Encode(c) \in Seq(Callers \X {1, 2})
  BY DEF Encode

(* drainAsWriter between two socket writes; in CHANNEL mode nobody drains. *)
LEMMA DrainSteps ==
  ASSUME ConnInv, NEW c \in Coroutines,
         DrainLeftover(c) \/ DrainNext(c) \/ DrainDone(c)
  PROVE  ConnInv'
<1> USE DEF reactorVars, registryVars, roomVars, pathVars, ioVars
<1>0. ConnInv
  OBVIOUS
<1>1. /\ RegistryType' /\ FlagType'
      /\ UNCHANGED <<pending, cancelled, loopPacket, buffer, chanSenders, accepted, wire>>
  BY DEF ConnInv, TypeOK, RegistryType, FlagType, DrainLeftover, DrainNext, DrainDone
<1>2. pc[c] = "drain" /\ WriteMode # "CHANNEL"
  BY DEF ConnInv, WriteLoopAlone, Coroutines, DrainLeftover, DrainNext, DrainDone, Running
<1>3. WriteLoopAlone'
  BY <1>2 DEF WriteLoopAlone
<1>4. "write" \in Points
  BY DEF Points
<1>5. CASE DrainLeftover(c)
  <2>1. TypeOK'
    BY <1>1, <1>4, <1>5, GoToType
       DEF ConnInv, TypeOK, ReactorType, RoomType, PathType, IoType, DrainLeftover
  <2> QED BY <1>0, <1>1, <1>3, <1>5, <2>1, PathKept DEF ConnInv, InFlightBounded, DrainLeftover
<1>6. CASE DrainNext(c)
  <2>1. /\ sendQueue \in Seq(Callers) /\ sendQueue # <<>> /\ queuedBytes \in Nat
        /\ roomWaiters \in Seq(Callers) /\ ready \in Seq(Coroutines)
    BY <1>6 DEF ConnInv, TypeOK, ReactorType, RoomType, PathType, DrainNext
  <2>2. /\ Head(sendQueue) \in Callers /\ Tail(sendQueue) \in Seq(Callers)
        /\ Len(sendQueue) \in Nat \ {0} /\ Len(Tail(sendQueue)) = Len(sendQueue) - 1
    BY <2>1, TailFacts
  <2>3. Bytes[Head(sendQueue)] \in Nat
    BY <2>2, LimitsAssumption
  <2>4. /\ queuedBytes' \in Nat /\ queuedBytes' <= queuedBytes
        /\ roomWaiters' \in Seq(Callers) /\ ready' \in Seq(Coroutines)
    BY <1>6, <2>1, <2>3, ReleaseType DEF DrainNext
  <2>5. writeBuf' \in Seq(Callers \X {1, 2})
    BY <1>6, <2>2, EncodeType DEF DrainNext
  <2>6. TypeOK'
    BY <1>1, <1>4, <1>6, <2>2, <2>4, <2>5, GoToType
       DEF ConnInv, TypeOK, ReactorType, RoomType, PathType, IoType, DrainNext
  <2>7. OutboundBounded'
    BY <1>0, <1>1, <1>6, <2>1, <2>2, <2>4, LimitsAssumption DEF ConnInv, OutboundBounded, DrainNext
  <2> QED BY <1>0, <1>1, <1>3, <2>6, <2>7 DEF ConnInv, InFlightBounded
<1>7. CASE DrainDone(c)
  <2>1. TypeOK'
    BY <1>1, <1>7, AfterEnqueueType
       DEF ConnInv, TypeOK, ReactorType, RoomType, PathType, IoType, DrainDone
  <2> QED BY <1>0, <1>1, <1>3, <1>7, <2>1 DEF ConnInv, InFlightBounded, OutboundBounded, DrainDone
<1> QED BY <1>5, <1>6, <1>7

(* A cancelled writer hands over to the successor. *)
LEMMA HandOffStep ==
  ASSUME ConnInv, NEW c \in Callers, WriteCancelled(c)
  PROVE  ConnInv'
<1> USE DEF reactorVars, registryVars, roomVars, pathVars, ioVars
<1>0. ConnInv /\ c \in Coroutines /\ Writer \in Coroutines
  BY DEF Coroutines
<1>1. /\ RegistryType' /\ RoomType' /\ FlagType' /\ IoType'
      /\ UNCHANGED <<pending, cancelled, queuedBytes, sendQueue, buffer, chanSenders, loopPacket>>
  BY <1>0 DEF ConnInv, TypeOK, RegistryType, RoomType, FlagType, IoType, WriteCancelled, HandOff
<1>2. WriteMode # "CHANNEL"
  BY <1>0 DEF ConnInv, WriteLoopAlone, WriteCancelled, HandOff
<1>3. WriteLoopAlone'
  BY <1>2 DEF WriteLoopAlone
<1>4. /\ pc' \in [Coroutines -> Points] /\ outcome' \in [Callers -> Outcomes]
      /\ running' \in Coroutines \cup {Nobody}
  <2>1. "finally" \in Points /\ "start" \in Points /\ "cancelled" \in Outcomes
    BY DEF Points, Outcomes
  <2> QED BY <1>0, <2>1 DEF ConnInv, TypeOK, ReactorType, WriteCancelled, HandOff
<1>5. ready' \in Seq(Coroutines) /\ writerActive' \in BOOLEAN
  <2>1. ready \in Seq(Coroutines) /\ Append(ready, Writer) \in Seq(Coroutines)
    BY <1>0, AppendFacts DEF ConnInv, TypeOK, ReactorType
  <2>2. writerActive' = writerActive \/ writerActive' = FALSE
    BY DEF WriteCancelled, HandOff
  <2> QED BY <1>0, <2>1, <2>2 DEF ConnInv, TypeOK, PathType, WriteCancelled, HandOff
<1>6. TypeOK'
  BY <1>0, <1>1, <1>4, <1>5 DEF ConnInv, TypeOK, ReactorType, PathType
<1> QED BY <1>0, <1>1, <1>3, <1>6 DEF ConnInv, InFlightBounded, OutboundBounded

(* shutdown(): the tables are emptied and the parked callers resumed. *)
LEMMA ShutdownType ==
  ASSUME ConnInv, NEW points \in [Coroutines -> Points], Shutdown(points),
         running' \in Coroutines \cup {Nobody}, outcome' \in [Callers -> Outcomes],
         writerActive' \in BOOLEAN,
         WriteMode = "CHANNEL" => \A c \in Callers : points[c] \notin {"drain", "write"}
  PROVE  ConnInv'
<1> USE DEF registryVars, roomVars, pathVars, ioVars
<1> DEFINE gated == GatedIn(pending)
           parked == AwaitersIn(pending) \cup gated \cup ToSet(roomWaiters)
                       \cup (slotCont \cap ToSet(inFlightWaiters))
<1>0. ConnInv
  OBVIOUS
<1>1. parked \subseteq Coroutines
  <2>1. ToSet(roomWaiters) \subseteq Callers
    BY ToSetType DEF ConnInv, TypeOK, RoomType
  <2>2. AwaitersIn(pending) \subseteq Requests /\ gated \subseteq Requests
    BY DEF ConnInv, TypeOK, RegistryType, AwaitersIn, GatedIn
  <2> QED BY <2>1, <2>2 DEF ConnInv, TypeOK, RegistryType, Coroutines, Callers
<1>2. IsFiniteSet(parked)
  <2>1. IsFiniteSet(Callers)
    BY CallersAssumption, FS_Union DEF Callers
  <2>2. IsFiniteSet(Coroutines)
    BY <2>1, FS_AddElement DEF Coroutines
  <2> QED BY <1>1, <2>2, FS_Subset
<1>3. ready' \in Seq(Coroutines)
  <2>1. PICK order \in SetToSeqs(parked) : ready' = ready \o order
    BY DEF Shutdown
  <2>2. order \in Seq(Coroutines)
    BY <1>1, <1>2, OrderType
  <2> QED BY <2>1, <2>2 DEF ConnInv, TypeOK, ReactorType
<1>4. pc' \in [Coroutines -> Points]
  <2>1. "roomFailed" \in Points /\ "chanGate" \in Points /\ "dead" \in Points
    BY DEF Points
  <2> QED BY <2>1 DEF Shutdown
<1>5. /\ settled' \in [Requests -> Settlements] /\ slotCont' \subseteq Requests
      /\ UNCHANGED <<requestId, id, answer>>
  <2>1. "closed" \in Settlements
    BY DEF Settlements
  <2> QED BY <2>1 DEF ConnInv, TypeOK, RegistryType, Shutdown
<1>6. /\ pending' = {} /\ inFlightWaiters' = <<>> /\ roomWaiters' = <<>> /\ sendQueue' = <<>>
      /\ chanSenders' = <<>> /\ queuedBytes' = 0 /\ loopPacket' = Nobody /\ closed' = TRUE
      /\ UNCHANGED <<cancelled, roomCont, buffer, ioVars, doubleResume>>
  BY DEF Shutdown
<1>7. RegistryType' /\ RoomType' /\ PathType' /\ IoType' /\ FlagType'
  BY <1>5, <1>6 DEF ConnInv, TypeOK, RegistryType, RoomType, PathType, IoType, FlagType
<1>8. TypeOK'
  BY <1>3, <1>4, <1>6, <1>7 DEF ConnInv, TypeOK, ReactorType
<1>9. WriteLoopAlone'
  <2>1. ASSUME WriteMode = "CHANNEL", NEW c \in Callers
        PROVE  pc'[c] \notin {"drain", "write"}
    BY <2>1, CallersAssumption DEF Shutdown, Coroutines
  <2>2. ASSUME WriteMode = "CHANNEL"
        PROVE  pc'[Writer] \in {"roomFailed", "chanGate", "dead"}
    BY <2>2 DEF Shutdown, Coroutines
  <2> QED BY <2>1, <2>2 DEF WriteLoopAlone
<1>10. InFlightBounded'
  BY <1>0, <1>6, PendingShrinks DEF ConnInv, TypeOK, RegistryType
<1>11. OutboundBounded'
  BY <1>0, <1>6, LimitsAssumption DEF ConnInv, OutboundBounded
<1> QED BY <1>8, <1>9, <1>10, <1>11 DEF ConnInv

(* The socket takes a chunk, a write ends or fails, the connection closes. *)
LEMMA SocketSteps ==
  ASSUME ConnInv,
         \/ SocketWrite
         \/ Close
         \/ \E c \in Coroutines : WriteReturns(c) \/ WriteFails(c)
  PROVE  ConnInv'
<1> USE DEF reactorVars, registryVars, roomVars, pathVars, ioVars
<1>0. ConnInv
  OBVIOUS
<1>1. CASE SocketWrite
  <2>1. writeBuf \in Seq(Callers \X {1, 2}) /\ writeBuf # <<>> /\ wire \in Seq(Callers \X {1, 2})
    BY <1>1 DEF ConnInv, TypeOK, IoType, SocketWrite
  <2>2. Head(writeBuf) \in Callers \X {1, 2} /\ Tail(writeBuf) \in Seq(Callers \X {1, 2})
    BY <2>1, TailFacts
  <2>3. Append(wire, Head(writeBuf)) \in Seq(Callers \X {1, 2})
    BY <2>1, <2>2, AppendFacts
  <2>4. TypeOK'
    BY <1>0, <1>1, <2>2, <2>3
       DEF ConnInv, TypeOK, ReactorType, RegistryType, RoomType, PathType, IoType, FlagType, SocketWrite
  <2> QED BY <1>0, <1>1, <2>4
          DEF ConnInv, WriteLoopAlone, InFlightBounded, OutboundBounded, SocketWrite
<1>2. CASE Close
  <2>1. pc \in [Coroutines -> Points] /\ running' = running /\ outcome' = outcome
    BY <1>2 DEF ConnInv, TypeOK, ReactorType, Close
  <2>2. writerActive' \in BOOLEAN
    BY <1>2 DEF ConnInv, TypeOK, PathType, Close
  <2> QED BY <1>0, <1>2, <2>1, <2>2, ShutdownType
          DEF ConnInv, TypeOK, ReactorType, WriteLoopAlone, Close
<1>3. ASSUME NEW c \in Coroutines, WriteReturns(c)
      PROVE  ConnInv'
  <2>1. /\ RegistryType' /\ FlagType' /\ pc[c] = "write"
        /\ UNCHANGED <<pending, cancelled, sendQueue, writerActive, buffer, chanSenders,
                       accepted, wire>>
        /\ running' = c /\ writeBuf' = <<>>
    BY <1>3 DEF ConnInv, TypeOK, RegistryType, FlagType, WriteReturns, WriteDone
  <2>2. "drain" \in Points /\ "receive" \in Points
    BY DEF Points
  <2>3. CASE WriteMode = "INLINE"
    <3>1. TypeOK'
      BY <1>3, <2>1, <2>2, <2>3, GoToType
         DEF ConnInv, TypeOK, ReactorType, RoomType, PathType, IoType, WriteReturns
    <3>2. OutboundBounded' /\ WriteLoopAlone'
      BY <1>0, <1>3, <2>1, <2>3 DEF ConnInv, OutboundBounded, WriteLoopAlone, WriteReturns
    <3> QED BY <1>0, <2>1, <3>1, <3>2 DEF ConnInv, InFlightBounded
  <2>4. CASE WriteMode = "CHANNEL"
    <3>1. c = Writer /\ loopPacket \in Callers
      BY <2>1, <2>4 DEF ConnInv, TypeOK, PathType, WriteLoopAlone, Coroutines
    <3>2. Bytes[loopPacket] \in Nat
      BY <3>1, LimitsAssumption
    <3>3. GoTo(c, "receive") /\ ReleaseOutboundBytes(Bytes[loopPacket], ready) /\ loopPacket' = Nobody
      BY <1>3, <2>4 DEF WriteReturns
    <3>4. /\ queuedBytes' \in Nat /\ queuedBytes' <= queuedBytes
          /\ roomWaiters' \in Seq(Callers) /\ ready' \in Seq(Coroutines)
      BY <3>2, <3>3, ReleaseType DEF ConnInv, TypeOK, ReactorType, RoomType, PathType
    <3>5. TypeOK'
      BY <1>3, <2>1, <2>2, <3>3, <3>4, GoToType
         DEF ConnInv, TypeOK, ReactorType, RoomType, PathType, IoType, WriteReturns
    <3>6. OutboundBounded'
      BY <1>0, <2>1, <3>4, LimitsAssumption DEF ConnInv, TypeOK, PathType, OutboundBounded
    <3>7. WriteLoopAlone'
      BY <1>0, <3>1, <3>3, CallersAssumption
         DEF ConnInv, TypeOK, ReactorType, WriteLoopAlone, GoTo, Coroutines
    <3> QED BY <1>0, <2>1, <3>5, <3>6, <3>7 DEF ConnInv, InFlightBounded
  <2> QED BY <2>3, <2>4, ModeAssumption
<1>4. ASSUME NEW c \in Coroutines, WriteFails(c)
      PROVE  ConnInv'
  <2> DEFINE p == IF c = Writer THEN "idle" ELSE "finally"
             next == [pc EXCEPT ![c] = p]
  <2>1. p \in Points /\ p \notin {"start", "drain", "write"} /\ "closed" \in Outcomes
    BY DEF Points, Outcomes, Settlements
  <2>2. next \in [Coroutines -> Points]
    BY <2>1 DEF ConnInv, TypeOK, ReactorType
  <2>3. /\ running' \in Coroutines \cup {Nobody} /\ outcome' \in [Callers -> Outcomes]
        /\ writerActive' \in BOOLEAN
    BY <1>4, <2>1 DEF ConnInv, TypeOK, ReactorType, WriteFails
  <2>4. CASE closed
    <3>1. /\ pc' = next
          /\ UNCHANGED <<closed, ready, cancelled, registryVars, roomVars, queuedBytes,
                         sendQueue, buffer, chanSenders, loopPacket, ioVars, doubleResume>>
      BY <1>4, <2>4 DEF WriteFails
    <3>2. TypeOK'
      BY <1>0, <2>2, <2>3, <3>1
         DEF ConnInv, TypeOK, ReactorType, RegistryType, RoomType, PathType, IoType, FlagType
    <3>3. WriteLoopAlone'
      BY <1>0, <2>1, <3>1, LoopKept DEF ConnInv, TypeOK
    <3> QED BY <1>0, <3>1, <3>2, <3>3 DEF ConnInv, InFlightBounded, OutboundBounded
  <2>5. CASE ~closed
    <3>1. Shutdown(next)
      BY <1>4, <2>5 DEF WriteFails
    <3>2. WriteMode = "CHANNEL" => \A d \in Callers : next[d] \notin {"drain", "write"}
      BY <2>1 DEF ConnInv, TypeOK, ReactorType, WriteLoopAlone, Coroutines
    <3> HIDE DEF next
    <3> QED BY <1>0, <2>2, <2>3, <3>1, <3>2, ShutdownType
  <2> QED BY <2>4, <2>5
<1> QED BY <1>1, <1>2, <1>3, <1>4

(* The write loop of CHANNEL mode. *)
LEMMA LoopSteps ==
  ASSUME ConnInv, LoopTakes \/ LoopParks
  PROVE  ConnInv'
<1> USE DEF reactorVars, registryVars, roomVars, pathVars, ioVars
<1>0. ConnInv /\ Writer \in Coroutines /\ Writer \notin Callers /\ Nobody \notin Callers
  BY CallersAssumption DEF Coroutines
<1>1. /\ RegistryType' /\ RoomType' /\ FlagType' /\ running' = Nobody
      /\ UNCHANGED <<pending, cancelled, outcome, queuedBytes, sendQueue, writerActive, wire>>
  BY <1>0 DEF ConnInv, TypeOK, RegistryType, RoomType, FlagType, LoopTakes, LoopParks, GoTo
<1>2. "write" \in Points /\ "recvParked" \in Points /\ "chanSent" \in Points
  BY DEF Points
<1>3. CASE LoopParks
  <2>1. TypeOK'
    BY <1>0, <1>1, <1>2, <1>3, GoToType DEF ConnInv, TypeOK, ReactorType, PathType, IoType, LoopParks
  <2>2. WriteLoopAlone'
    BY <1>0, <1>3, LoopKept DEF ConnInv, TypeOK, LoopParks, GoTo
  <2> QED BY <1>0, <1>1, <1>3, <2>1, <2>2, PathKept DEF ConnInv, InFlightBounded, LoopParks
<1>4. CASE LoopTakes /\ loopPacket # Nobody
  <2>1. /\ writeBuf' = Encode(loopPacket) /\ GoTo(Writer, "write")
        /\ UNCHANGED <<loopPacket, buffer, chanSenders, ready, accepted>>
    BY <1>4 DEF LoopTakes
  <2>2. writeBuf' \in Seq(Callers \X {1, 2})
    BY <1>0, <1>4, <2>1, EncodeType DEF ConnInv, TypeOK, PathType
  <2>3. TypeOK'
    BY <1>0, <1>1, <1>2, <2>1, <2>2, GoToType DEF ConnInv, TypeOK, ReactorType, PathType, IoType
  <2>4. WriteLoopAlone'
    BY <1>0, <1>4, <2>1 DEF ConnInv, TypeOK, ReactorType, WriteLoopAlone, GoTo, Coroutines
  <2> QED BY <1>0, <1>1, <2>1, <2>3, <2>4 DEF ConnInv, InFlightBounded, OutboundBounded
<1>5. CASE LoopTakes /\ loopPacket = Nobody
  <2>1. /\ buffer \in Seq(Callers) /\ buffer # <<>> /\ chanSenders \in Seq(Callers)
        /\ accepted \in Seq(Callers) /\ ready \in Seq(Coroutines)
    BY <1>0, <1>5 DEF ConnInv, TypeOK, ReactorType, PathType, IoType, LoopTakes
  <2>2. /\ Head(buffer) \in Callers /\ Tail(buffer) \in Seq(Callers)
        /\ Len(buffer) \in Nat \ {0} /\ Len(Tail(buffer)) = Len(buffer) - 1
    BY <2>1, TailFacts
  <2>3. loopPacket' \in Callers /\ writeBuf' \in Seq(Callers \X {1, 2})
    BY <1>5, <2>2, EncodeType DEF LoopTakes
  <2>4. CASE chanSenders = <<>>
    <3>1. /\ buffer' = Tail(buffer) /\ GoTo(Writer, "write")
          /\ UNCHANGED <<chanSenders, ready, accepted>>
      BY <1>5, <2>4 DEF LoopTakes
    <3>2. TypeOK'
      BY <1>0, <1>1, <1>2, <2>2, <2>3, <3>1, GoToType
         DEF ConnInv, TypeOK, ReactorType, PathType, IoType
    <3>3. WriteLoopAlone'
      BY <1>0, <2>3, <3>1 DEF ConnInv, TypeOK, ReactorType, WriteLoopAlone, GoTo, Coroutines
    <3>4. OutboundBounded'
      BY <1>0, <1>1, <2>2, <3>1, LimitsAssumption DEF ConnInv, OutboundBounded
    <3> QED BY <1>0, <1>1, <3>2, <3>3, <3>4 DEF ConnInv, InFlightBounded
  <2>5. CASE chanSenders # <<>>
    <3>1. Head(chanSenders) \in Callers /\ Tail(chanSenders) \in Seq(Callers)
      BY <2>1, <2>5, TailFacts
    <3>2. /\ buffer' = Append(Tail(buffer), Head(chanSenders))
          /\ accepted' = Append(accepted, Head(chanSenders))
          /\ chanSenders' = Tail(chanSenders)
          /\ ready' = Append(ready, Head(chanSenders))
          /\ pc' = [pc EXCEPT ![Writer] = "write", ![Head(chanSenders)] = "chanSent"]
      BY <1>5, <2>5 DEF LoopTakes
    <3>3. Head(chanSenders) \in Coroutines
      BY <3>1 DEF Coroutines
    <3>4. /\ buffer' \in Seq(Callers) /\ Len(buffer') = Len(buffer)
          /\ accepted' \in Seq(Callers) /\ ready' \in Seq(Coroutines)
      BY <2>1, <2>2, <3>1, <3>2, <3>3, AppendFacts
    <3>5. pc' \in [Coroutines -> Points]
      BY <1>0, <1>2, <3>2, <3>3 DEF ConnInv, TypeOK, ReactorType
    <3>6. TypeOK'
      BY <1>0, <1>1, <2>3, <3>1, <3>2, <3>4, <3>5 DEF ConnInv, TypeOK, ReactorType, PathType, IoType
    <3>7. WriteLoopAlone'
      BY <1>0, <2>3, <3>1, <3>2 DEF ConnInv, TypeOK, ReactorType, WriteLoopAlone, Coroutines
    <3>8. OutboundBounded'
      BY <1>0, <1>1, <3>4 DEF ConnInv, OutboundBounded
    <3> QED BY <1>0, <1>1, <3>6, <3>7, <3>8 DEF ConnInv, InFlightBounded
  <2> QED BY <2>4, <2>5
<1> QED BY <1>3, <1>4, <1>5

-----------------------------------------------------------------------------
(* The invariant *)

LEMMA ConnInvInit == Init => ConnInv
<1> SUFFICES ASSUME Init PROVE ConnInv
  OBVIOUS
<1>1. Writer \in Coroutines /\ "receive" \in Points /\ "idle" \in Points
      /\ "none" \in Settlements /\ "none" \in Outcomes
  BY DEF Coroutines, Points, Settlements, Outcomes
<1>2. ReactorType
  <2>1. ready \in Seq(Coroutines)
    BY <1>1 DEF Init
  <2> QED BY <1>1, <2>1 DEF Init, ReactorType
<1>3. RegistryType
  BY <1>1, LimitsAssumption DEF Init, RegistryType
<1>4. RoomType
  BY DEF Init, RoomType
<1>5. PathType
  <2>1. writerActive \in BOOLEAN
    BY DEF Init
  <2>2. /\ sendQueue \in Seq(Callers) /\ buffer \in Seq(Callers) /\ chanSenders \in Seq(Callers)
        /\ queuedBytes \in Nat /\ loopPacket = Nobody
    BY DEF Init
  <2> QED BY <2>1, <2>2 DEF PathType
<1>6. IoType /\ FlagType
  <2>1. IoType
    BY DEF Init, IoType
  <2>2. closed \in BOOLEAN /\ doubleResume \in BOOLEAN
    BY DEF Init
  <2> QED BY <2>1, <2>2 DEF FlagType
<1>7. WriteLoopAlone
  BY <1>1, CallersAssumption DEF Init, WriteLoopAlone, Coroutines
<1>8. InFlightBounded
  <2>1. Cardinality({}) = 0
    BY FS_EmptySet
  <2> QED BY <2>1, LimitsAssumption DEF Init, InFlightBounded
<1>9. OutboundBounded
  BY LimitsAssumption DEF Init, OutboundBounded
<1> QED BY <1>2, <1>3, <1>4, <1>5, <1>6, <1>7, <1>8, <1>9 DEF ConnInv, TypeOK

LEMMA ConnInvStep == ConnInv /\ [Next]_vars => ConnInv'
<1> SUFFICES ASSUME ConnInv, [Next]_vars PROVE ConnInv'
  OBVIOUS
<1>1. CASE Reactor
  <2>1. ASSUME NEW c \in Coroutines, Run(c) \/ RunDead(c) PROVE ConnInv'
    BY <2>1, RunSteps
  <2>2. ASSUME NEW r \in Requests, SlotTaken(r) \/ SlotRefused(r) \/ SlotWait(r) PROVE ConnInv'
    BY <2>2, SlotSteps
  <2>3. ASSUME NEW c \in Callers,
               \/ EnqueueTooLarge(c) \/ EnqueueAborted(c) \/ EnqueueWait(c)
               \/ EnqueueInline(c) \/ EnqueueChannel(c) \/ EnqueueChannelFull(c)
               \/ RunChanWaiter(c)
        PROVE  ConnInv'
    BY <2>3, EnqueueWaitSteps, EnqueueSteps, ChanWaiterStep
  <2>4. ASSUME NEW c \in Coroutines, DrainLeftover(c) \/ DrainNext(c) \/ DrainDone(c) PROVE ConnInv'
    BY <2>4, DrainSteps
  <2>5. ASSUME NEW r \in Requests, AwaitSettled(r) \/ AwaitParks(r) \/ Finally(r) PROVE ConnInv'
    BY <2>5, ReturnSteps DEF Callers
  <2>6. ASSUME NEW c \in Senders, SendReturns(c) PROVE ConnInv'
    BY <2>6, ReturnSteps DEF Callers
  <2>7. CASE LoopTakes \/ LoopParks
    BY <2>7, LoopSteps
  <2> QED BY <1>1, <2>1, <2>2, <2>3, <2>4, <2>5, <2>6, <2>7 DEF Reactor
<1>2. ASSUME NEW c \in Callers, CallClosed(c) \/ Cancel(c) \/ WriteCancelled(c) PROVE ConnInv'
  BY <1>2, CallSteps, EventSteps, HandOffStep
<1>3. ASSUME NEW c \in Senders, Send(c) PROVE ConnInv'
  BY <1>3, CallSteps DEF Callers
<1>4. ASSUME NEW r \in Requests, Request(r) \/ Deadline(r) PROVE ConnInv'
  BY <1>4, CallSteps, EventSteps DEF Callers
<1>5. ASSUME NEW r \in Requests, NEW p \in Requests, RecvResponse(r, p) PROVE ConnInv'
  BY <1>5, EventSteps DEF Callers
<1>6. CASE \/ SocketWrite
           \/ Close
           \/ \E c \in Coroutines : WriteReturns(c) \/ WriteFails(c)
  BY <1>6, SocketSteps
<1>7. CASE UNCHANGED vars
  BY <1>7 DEF vars, reactorVars, registryVars, roomVars, pathVars, ioVars, ConnInv, TypeOK,
     ReactorType, RegistryType, RoomType, PathType, IoType, FlagType, WriteLoopAlone,
     InFlightBounded, OutboundBounded
<1> QED BY <1>1, <1>2, <1>3, <1>4, <1>5, <1>6, <1>7 DEF Next

(* Every reachable state of a connection satisfies the inductive           *)
(* invariant, for any callers, limits and payload sizes, in both modes.    *)
THEOREM ConnectionInvariant == Spec => []ConnInv
<1> QED BY ConnInvInit, ConnInvStep, PTL DEF Spec

(* All state of a connection keeps its type; in particular requestId never *)
(* passes UInt.MAX_VALUE (nextRequestId refuses to wrap).                  *)
THEOREM ConnectionTypeOK == Spec => []TypeOK
<1>1. ConnInv => TypeOK
  BY DEF ConnInv
<1> QED BY <1>1, ConnectionInvariant, PTL

(* requestOnOwner never lets more than maxInFlightRequests requests into   *)
(* the registry, whatever overtakes a woken waiter.                        *)
THEOREM ConnectionInFlight == Spec => []InFlightBounded
<1>1. ConnInv => InFlightBounded
  BY DEF ConnInv
<1> QED BY <1>1, ConnectionInvariant, PTL

(* The outbound path holds at most maxOutboundBytes bytes in both write    *)
(* modes, and at most mailboxCapacity packets in its queue.                *)
THEOREM ConnectionOutbound == Spec => []OutboundBounded
<1>1. ConnInv => OutboundBounded
  BY DEF ConnInv
<1> QED BY <1>1, ConnectionInvariant, PTL

-----------------------------------------------------------------------------
(* Queues that hold each member of S at most once *)

DistinctIn(s, S) == \A i, j \in 1 .. Len(s) : s[i] \in S /\ s[i] = s[j] => i = j

LEMMA EmptyQueue ==
  ASSUME NEW S
  PROVE  ToSet(<<>>) = {} /\ DistinctIn(<<>>, S)
  BY DEF ToSet, DistinctIn

LEMMA AppendQueue ==
  ASSUME NEW T, NEW S, NEW s \in Seq(T), NEW e \in T
  PROVE  /\ ToSet(Append(s, e)) = ToSet(s) \cup {e}
         /\ DistinctIn(s, S) /\ e \notin ToSet(s) \cap S => DistinctIn(Append(s, e), S)
<1> DEFINE t == Append(s, e)
<1>1. /\ Len(t) = Len(s) + 1 /\ Len(s) \in Nat /\ t[Len(s) + 1] = e
      /\ \A i \in 1 .. Len(s) : t[i] = s[i]
      /\ DOMAIN s = 1 .. Len(s) /\ DOMAIN t = 1 .. Len(t)
  OBVIOUS
<1> HIDE DEF t
<1>2. ToSet(t) = ToSet(s) \cup {e}
  <2>1. ASSUME NEW x \in ToSet(t) PROVE x \in ToSet(s) \cup {e}
    <3>1. PICK i \in 1 .. Len(t) : x = t[i]
      BY <1>1 DEF ToSet
    <3>2. i \in 1 .. Len(s) \/ i = Len(s) + 1
      BY <1>1
    <3> QED BY <1>1, <3>1, <3>2 DEF ToSet
  <2>2. ASSUME NEW x \in ToSet(s) PROVE x \in ToSet(t)
    <3>1. PICK i \in 1 .. Len(s) : x = s[i]
      BY <1>1 DEF ToSet
    <3>2. i \in 1 .. Len(t)
      BY <1>1
    <3> QED BY <1>1, <3>1, <3>2 DEF ToSet
  <2>3. e \in ToSet(t)
    <3>1. Len(s) + 1 \in 1 .. Len(t)
      BY <1>1
    <3> QED BY <1>1, <3>1 DEF ToSet
  <2> QED BY <2>1, <2>2, <2>3
<1>3. ASSUME DistinctIn(s, S), e \notin ToSet(s) \cap S
      PROVE  DistinctIn(t, S)
  <2>1. \A i \in 1 .. Len(s) : s[i] \in ToSet(s)
    BY <1>1 DEF ToSet
  <2>2. \A i \in 1 .. Len(t) : i \in 1 .. Len(s) \/ i = Len(s) + 1
    BY <1>1
  <2> QED BY <1>1, <1>3, <2>1, <2>2 DEF DistinctIn
<1> QED BY <1>2, <1>3 DEF t

LEMMA TailQueue ==
  ASSUME NEW T, NEW S, NEW s \in Seq(T), s # <<>>
  PROVE  /\ Head(s) \in ToSet(s)
         /\ ToSet(s) = ToSet(Tail(s)) \cup {Head(s)}
         /\ DistinctIn(s, S) => /\ DistinctIn(Tail(s), S)
                                /\ ToSet(Tail(s)) \cap S = (ToSet(s) \cap S) \ {Head(s)}
<1> DEFINE t == Tail(s)
<1>1. /\ Len(s) \in Nat \ {0} /\ Len(t) = Len(s) - 1 /\ Head(s) = s[1]
      /\ \A i \in 1 .. Len(t) : t[i] = s[i + 1]
      /\ DOMAIN s = 1 .. Len(s) /\ DOMAIN t = 1 .. Len(t)
  OBVIOUS
<1> HIDE DEF t
<1>2. Head(s) \in ToSet(s) /\ ToSet(s) = ToSet(t) \cup {Head(s)}
  <2>1. ASSUME NEW x \in ToSet(s), x # Head(s) PROVE x \in ToSet(t)
    <3>1. PICK i \in 1 .. Len(s) : x = s[i]
      BY <1>1 DEF ToSet
    <3>2. i - 1 \in 1 .. Len(t) /\ (i - 1) + 1 = i
      BY <1>1, <2>1, <3>1
    <3> QED BY <1>1, <3>1, <3>2 DEF ToSet
  <2>2. ASSUME NEW x \in ToSet(t) PROVE x \in ToSet(s)
    <3>1. PICK i \in 1 .. Len(t) : x = t[i]
      BY <1>1 DEF ToSet
    <3>2. i + 1 \in 1 .. Len(s)
      BY <1>1
    <3> QED BY <1>1, <3>1, <3>2 DEF ToSet
  <2>3. Head(s) \in ToSet(s)
    <3>1. 1 \in 1 .. Len(s)
      BY <1>1
    <3> QED BY <1>1, <3>1 DEF ToSet
  <2> QED BY <2>1, <2>2, <2>3
<1>3. ASSUME DistinctIn(s, S)
      PROVE  DistinctIn(t, S) /\ ToSet(t) \cap S = (ToSet(s) \cap S) \ {Head(s)}
  <2>1. \A i \in 1 .. Len(t) : i + 1 \in 1 .. Len(s)
    BY <1>1
  <2>2. \A i, j \in 1 .. Len(t) : t[i] \in S /\ t[i] = t[j] => i + 1 = j + 1
    BY <1>1, <1>3, <2>1 DEF DistinctIn
  <2>3. DistinctIn(t, S)
    BY <1>1, <2>2 DEF DistinctIn
  <2>4. Head(s) \notin ToSet(t) \cap S
    <3>1. SUFFICES ASSUME Head(s) \in S, NEW i \in 1 .. Len(t), t[i] = Head(s) PROVE FALSE
      BY <1>1 DEF ToSet
    <3>2. s[i + 1] = s[1] /\ s[1] \in S /\ i + 1 \in 1 .. Len(s) /\ 1 \in 1 .. Len(s)
      BY <1>1, <2>1, <3>1
    <3>3. i + 1 = 1
      BY <1>3, <3>2 DEF DistinctIn
    <3> QED BY <1>1, <3>3
  <2> QED BY <1>2, <2>3, <2>4
<1> QED BY <1>2, <1>3 DEF t

LEMMA ConcatFacts ==
  ASSUME NEW T, NEW a \in Seq(T), NEW b \in Seq(T)
  PROVE  /\ a \o b \in Seq(T) /\ Len(a \o b) = Len(a) + Len(b)
         /\ \A i \in 1 .. Len(a) : (a \o b)[i] = a[i]
         /\ \A i \in 1 .. Len(b) : (a \o b)[Len(a) + i] = b[i]
<1>1. Len(a) \in Nat /\ Len(b) \in Nat /\ a \o b \in Seq(T) /\ Len(a \o b) = Len(a) + Len(b)
  OBVIOUS
<1>2. ASSUME NEW i \in 1 .. Len(a) PROVE (a \o b)[i] = a[i]
  OBVIOUS
<1>3. ASSUME NEW i \in 1 .. Len(b) PROVE (a \o b)[Len(a) + i] = b[i]
  <2>1. Len(a) + i \in 1 .. Len(a) + Len(b) /\ ~(Len(a) + i <= Len(a)) /\ (Len(a) + i) - Len(a) = i
    BY <1>1
  <2> QED BY <1>1, <2>1
<1> QED BY <1>1, <1>2, <1>3

LEMMA SuffixFacts ==
  ASSUME NEW T, NEW s \in Seq(T), NEW k \in 1 .. Len(s)
  PROVE  /\ SubSeq(s, k + 1, Len(s)) \in Seq(T)
         /\ Len(SubSeq(s, k + 1, Len(s))) = Len(s) - k
         /\ \A i \in 1 .. Len(s) - k : SubSeq(s, k + 1, Len(s))[i] = s[k + i]
<1> DEFINE b == SubSeq(s, k + 1, Len(s))
<1>1. Len(s) \in Nat /\ b \in Seq(T)
  OBVIOUS
<1>2. Len(b) = Len(s) - k
  BY <1>1
<1>3. ASSUME NEW i \in 1 .. Len(s) - k PROVE b[i] = s[k + i]
  <2>1. i \in 1 .. (Len(s) - (k + 1)) + 1 /\ ((k + 1) + i) - 1 = k + i
    BY <1>1
  <2> QED BY <1>1, <2>1
<1> QED BY <1>1, <1>2, <1>3

(* ArrayDeque.remove: of a queue without repetitions nothing of e is left. *)
LEMMA WithoutQueue ==
  ASSUME NEW T, NEW S, T \subseteq S, NEW s \in Seq(T), NEW e, DistinctIn(s, S)
  PROVE  /\ ToSet(Without(s, e)) = ToSet(s) \ {e}
         /\ DistinctIn(Without(s, e), S)
<1>1. CASE \E i \in 1 .. Len(s) : s[i] = e
  <2> DEFINE k == CHOOSE i \in 1 .. Len(s) : s[i] = e
             t == Without(s, e)
  <2>1. k \in 1 .. Len(s) /\ s[k] = e
    BY <1>1
  <2>2. t = RemoveAt(s, k)
    BY <1>1 DEF Without
  <2> HIDE DEF k, t
  <2>3. Len(s) \in Nat /\ DOMAIN s = 1 .. Len(s) /\ \A i \in 1 .. Len(s) : s[i] \in S
    OBVIOUS
  <2>4. /\ Len(t) = Len(s) - 1 /\ DOMAIN t = 1 .. Len(t)
        /\ \A i \in 1 .. Len(t) : t[i] = IF i < k THEN s[i] ELSE s[i + 1]
    <3> DEFINE a == SubSeq(s, 1, k - 1)
               b == SubSeq(s, k + 1, Len(s))
    <3>1. /\ a \in Seq(T) /\ Len(a) = k - 1
          /\ \A i \in 1 .. k - 1 : a[i] = s[i]
      BY <2>1, <2>3
    <3>2. /\ b \in Seq(T) /\ Len(b) = Len(s) - k
          /\ \A i \in 1 .. Len(s) - k : b[i] = s[k + i]
      BY <2>1, SuffixFacts
    <3>3. t = a \o b
      BY <2>2 DEF RemoveAt
    <3> HIDE DEF a, b
    <3>4. /\ t \in Seq(T) /\ Len(t) = Len(a) + Len(b)
          /\ \A i \in 1 .. Len(a) : t[i] = a[i]
          /\ \A i \in 1 .. Len(b) : t[Len(a) + i] = b[i]
      <4>1. a \in Seq(T) /\ b \in Seq(T)
        BY <3>1, <3>2
      <4>2. /\ a \o b \in Seq(T) /\ Len(a \o b) = Len(a) + Len(b)
            /\ \A i \in 1 .. Len(a) : (a \o b)[i] = a[i]
            /\ \A i \in 1 .. Len(b) : (a \o b)[Len(a) + i] = b[i]
        BY <4>1, ConcatFacts
      <4> QED BY <3>3, <4>2, Zenon
    <3>5. Len(t) = Len(s) - 1 /\ DOMAIN t = 1 .. Len(t)
      BY <2>1, <2>3, <3>1, <3>2, <3>4
    <3>6. ASSUME NEW i \in 1 .. Len(t), i < k PROVE t[i] = s[i]
      BY <2>1, <3>1, <3>4, <3>5, <3>6
    <3>7. ASSUME NEW i \in 1 .. Len(t), ~(i < k) PROVE t[i] = s[i + 1]
      <4>1. i - (k - 1) \in 1 .. Len(b) /\ i - (k - 1) \in 1 .. Len(s) - k
        BY <2>1, <2>3, <3>2, <3>5, <3>7
      <4>2. t[(k - 1) + (i - (k - 1))] = s[k + (i - (k - 1))]
        BY <3>1, <3>2, <3>4, <4>1
      <4>3. (k - 1) + (i - (k - 1)) = i /\ k + (i - (k - 1)) = i + 1
        BY <2>1
      <4> QED BY <4>2, <4>3
    <3> QED BY <3>5, <3>6, <3>7
  <2>5. ASSUME NEW x \in ToSet(t) PROVE x \in ToSet(s) \ {e}
    <3>1. PICK i \in 1 .. Len(t) : x = t[i]
      BY <2>4 DEF ToSet
    <3>2. PICK j \in 1 .. Len(s) : x = s[j] /\ j # k
      <4>1. i \in 1 .. Len(s) /\ i + 1 \in 1 .. Len(s)
        BY <2>3, <2>4
      <4> QED BY <2>1, <2>3, <2>4, <3>1, <4>1
    <3> QED BY <2>1, <2>3, <3>2 DEF ToSet, DistinctIn
  <2>6. ASSUME NEW x \in ToSet(s) \ {e} PROVE x \in ToSet(t)
    <3>1. PICK j \in 1 .. Len(s) : x = s[j] /\ j # k
      BY <2>1, <2>3 DEF ToSet
    <3>2. CASE j < k
      <4>1. j \in 1 .. Len(t)
        BY <2>1, <2>3, <2>4, <3>2
      <4> QED BY <2>4, <3>1, <3>2, <4>1 DEF ToSet
    <3>3. CASE ~(j < k)
      <4>1. j - 1 \in 1 .. Len(t) /\ ~(j - 1 < k) /\ (j - 1) + 1 = j
        BY <2>1, <2>3, <2>4, <3>1, <3>3
      <4>2. t[j - 1] = s[j]
        BY <2>4, <4>1
      <4> QED BY <2>4, <3>1, <4>1, <4>2 DEF ToSet
    <3> QED BY <3>2, <3>3
  <2>7. DistinctIn(t, S)
    <3>1. SUFFICES ASSUME NEW i \in 1 .. Len(t), NEW j \in 1 .. Len(t), t[i] = t[j], t[i] \in S
                   PROVE  i = j
      BY DEF DistinctIn
    <3> DEFINE m == IF i < k THEN i ELSE i + 1
               n == IF j < k THEN j ELSE j + 1
    <3>2. m \in 1 .. Len(s) /\ n \in 1 .. Len(s) /\ s[m] = t[i] /\ s[n] = t[j]
      BY <2>1, <2>3, <2>4
    <3>3. m = n
      BY <3>1, <3>2 DEF DistinctIn
    <3> QED BY <2>1, <3>3
  <2>8. ToSet(t) = ToSet(s) \ {e}
    BY <2>5, <2>6
  <2> QED BY <2>7, <2>8 DEF t
<1>2. CASE ~ \E i \in 1 .. Len(s) : s[i] = e
  <2>1. e \notin ToSet(s)
    BY <1>2 DEF ToSet
  <2> QED BY <1>2, <2>1 DEF Without
<1> QED BY <1>1, <1>2

(* shutdown() appends the callers it resumes, in any order. *)
LEMMA ConcatQueue ==
  ASSUME NEW T, NEW S, NEW s \in Seq(T), NEW P, IsFiniteSet(P), P \subseteq T,
         NEW order \in SetToSeqs(P)
  PROVE  /\ ToSet(s \o order) \subseteq ToSet(s) \cup P
         /\ DistinctIn(s, S) /\ ToSet(s) \cap S \cap P = {} => DistinctIn(s \o order, S)
<1> DEFINE t == s \o order
           n == Cardinality(P)
<1>1. n \in Nat
  BY FS_CardinalityType
<1> HIDE DEF n
<1>2. /\ order \in Seq(T) /\ Len(order) = n
      /\ \A i \in 1 .. n : order[i] \in P
      /\ \A i, j \in 1 .. n : order[i] = order[j] => i = j
  <2>1. order \in [1 .. n -> P] /\ \A i, j \in 1 .. n : i # j => order[i] # order[j]
    BY DEF SetToSeqs, n
  <2>2. order \in [1 .. n -> T]
    BY <2>1
  <2> QED BY <1>1, <2>1, <2>2
<1>3. /\ Len(s) \in Nat /\ DOMAIN s = 1 .. Len(s)
      /\ Len(t) = Len(s) + n /\ DOMAIN t = 1 .. Len(t)
      /\ \A i \in 1 .. Len(s) : t[i] = s[i]
      /\ \A i \in 1 .. n : t[Len(s) + i] = order[i]
  BY <1>2
<1> HIDE DEF t
<1>4. ASSUME NEW i \in 1 .. Len(t)
      PROVE  \/ i \in 1 .. Len(s) /\ t[i] = s[i] /\ t[i] \in ToSet(s)
             \/ i - Len(s) \in 1 .. n /\ t[i] = order[i - Len(s)] /\ t[i] \in P
  <2>1. CASE i <= Len(s)
    <3>1. i \in 1 .. Len(s)
      BY <1>3, <2>1
    <3> QED BY <1>3, <3>1 DEF ToSet
  <2>2. CASE ~(i <= Len(s))
    <3>1. i - Len(s) \in 1 .. n /\ Len(s) + (i - Len(s)) = i
      BY <1>1, <1>3, <2>2
    <3> QED BY <1>2, <1>3, <3>1
  <2> QED BY <2>1, <2>2
<1>5. ToSet(t) \subseteq ToSet(s) \cup P
  BY <1>3, <1>4 DEF ToSet
<1>6. ASSUME DistinctIn(s, S), ToSet(s) \cap S \cap P = {}
      PROVE  DistinctIn(t, S)
  <2>1. SUFFICES ASSUME NEW i \in 1 .. Len(t), NEW j \in 1 .. Len(t), t[i] \in S, t[i] = t[j]
                 PROVE  i = j
    BY DEF DistinctIn
  <2>2. CASE i \in 1 .. Len(s) /\ t[i] = s[i] /\ t[i] \in ToSet(s)
    <3>1. j \in 1 .. Len(s) /\ t[j] = s[j]
      BY <1>4, <1>6, <2>1, <2>2
    <3> QED BY <1>6, <2>1, <2>2, <3>1 DEF DistinctIn
  <2>3. CASE i - Len(s) \in 1 .. n /\ t[i] = order[i - Len(s)] /\ t[i] \in P
    <3>1. j - Len(s) \in 1 .. n /\ t[j] = order[j - Len(s)]
      BY <1>4, <1>6, <2>1, <2>3
    <3>2. i - Len(s) = j - Len(s)
      BY <1>2, <2>1, <2>3, <3>1
    <3> QED BY <1>3, <3>2
  <2> QED BY <1>4, <2>2, <2>3
<1> QED BY <1>5, <1>6 DEF t
-----------------------------------------------------------------------------
(* Where a caller is while something still refers to it *)

(* The slot queue: a waiter with a continuation is parked; an entry        *)
(* without one belongs to a request that was settled while it waited.      *)
SlotQueue ==
  /\ DistinctIn(inFlightWaiters, Callers)
  /\ \A r \in slotCont : pc[r] = "slotParked" /\ r \in ToSet(inFlightWaiters)
  /\ \A r \in ToSet(inFlightWaiters) :
       /\ pc[r] \in {"slotParked", "slot", "finally"}
       /\ r \in slotCont \/ settled[r] # "none"

(* The room queue: its callers are parked; a roomCont may outlive the wait *)
(* that set it.                                                            *)
RoomQueue ==
  /\ DistinctIn(roomWaiters, Callers)
  /\ \A c \in ToSet(roomWaiters) : pc[c] = "roomParked"
  /\ \A r \in roomCont : pc[r] \in {"roomParked", "roomFailed", "finally", "done"}

(* The senders suspended in the Channel. *)
ChanQueue ==
  /\ DistinctIn(chanSenders, Callers)
  /\ \A c \in ToSet(chanSenders) : pc[c] = "chanParked"

(* A caller that was resumed is still where it was parked, and out of the  *)
(* queue it was parked in.                                                 *)
Resumable(c) ==
  \/ pc[c] \in {"roomFailed", "chanSent", "chanGate"}
  \/ pc[c] = "slotParked" /\ c \notin slotCont
  \/ pc[c] = "roomParked" /\ c \notin ToSet(roomWaiters)
  \/ pc[c] = "awaitParked" /\ c \in Requests /\ (settled[c] # "none" \/ c \in cancelled)

ReadyQueue ==
  /\ DistinctIn(ready, Callers)
  /\ \A c \in ToSet(ready) \cap Callers : Resumable(c)

QueueInv == SlotQueue /\ RoomQueue /\ ChanQueue /\ ReadyQueue

(* The points at which a coroutine is in no queue of parked callers. *)
AwakePoints == {"idle", "slot", "enqueue", "drain", "write", "await", "receive", "recvParked",
                "start", "finally"}

LEMMA QueueTypes ==
  ASSUME ConnInv
  PROVE  /\ inFlightWaiters \in Seq(Requests) /\ ToSet(inFlightWaiters) \subseteq Requests
         /\ roomWaiters \in Seq(Callers) /\ ToSet(roomWaiters) \subseteq Callers
         /\ chanSenders \in Seq(Callers) /\ ToSet(chanSenders) \subseteq Callers
         /\ ready \in Seq(Coroutines) /\ ToSet(ready) \subseteq Coroutines
         /\ slotCont \subseteq Requests /\ roomCont \subseteq Requests
         /\ pending \subseteq Requests
         /\ pc \in [Coroutines -> Points] /\ settled \in [Requests -> Settlements]
         /\ Requests \subseteq Callers /\ Callers \subseteq Coroutines
         /\ Writer \in Coroutines /\ Writer \notin Callers
<1>1. /\ inFlightWaiters \in Seq(Requests) /\ roomWaiters \in Seq(Callers)
      /\ chanSenders \in Seq(Callers) /\ ready \in Seq(Coroutines)
      /\ slotCont \subseteq Requests /\ roomCont \subseteq Requests /\ pending \subseteq Requests
      /\ pc \in [Coroutines -> Points] /\ settled \in [Requests -> Settlements]
  BY DEF ConnInv, TypeOK, ReactorType, RegistryType, RoomType, PathType
<1>2. /\ Requests \subseteq Callers /\ Callers \subseteq Coroutines
      /\ Writer \in Coroutines /\ Writer \notin Callers
  BY CallersAssumption DEF Callers, Coroutines
<1> QED BY <1>1, <1>2, ToSetType

LEMMA Unqueued ==
  ASSUME ConnInv, QueueInv, NEW c \in Coroutines, pc[c] \in AwakePoints
  PROVE  /\ c \notin ToSet(roomWaiters) /\ c \notin ToSet(chanSenders) /\ c \notin slotCont
         /\ c \notin ToSet(ready) \cap Callers
         /\ c \in ToSet(inFlightWaiters) => pc[c] \in {"slot", "finally"} /\ settled[c] # "none"
         /\ c \in roomCont => pc[c] = "finally"
  BY DEF QueueInv, SlotQueue, RoomQueue, ChanQueue, ReadyQueue, Resumable, AwakePoints

(* wakeOneInFlightWaiter() takes out at most one entry and resumes it if   *)
(* it still has its continuation.                                          *)
LEMMA WakeQueue ==
  ASSUME NEW waiters \in Seq(Requests), DistinctIn(waiters, Callers),
         NEW conts, conts \subseteq Requests,
         NEW queue \in Seq(Coroutines), DistinctIn(queue, Callers),
         conts \cap ToSet(queue) = {},
         WakeOneInFlightWaiter(waiters, conts, queue)
  PROVE  /\ DistinctIn(inFlightWaiters', Callers) /\ DistinctIn(ready', Callers)
         /\ \E h \in Requests \cup {Nobody} :
              /\ ToSet(inFlightWaiters') = ToSet(waiters) \ {h}
              /\ slotCont' = conts \ {h}
              /\ ToSet(ready') \subseteq ToSet(queue) \cup (conts \cap {h})
<1>1. Requests \subseteq Callers /\ Callers \subseteq Coroutines /\ Nobody \notin Requests
  BY CallersAssumption DEF Callers, Coroutines
<1>2. CASE waiters = <<>>
  <2>1. inFlightWaiters' = waiters /\ slotCont' = conts /\ ready' = queue
    BY <1>2 DEF WakeOneInFlightWaiter
  <2>2. ToSet(waiters) \subseteq Requests
    BY ToSetType
  <2>3. /\ ToSet(inFlightWaiters') = ToSet(waiters) \ {Nobody}
        /\ slotCont' = conts \ {Nobody}
        /\ ToSet(ready') \subseteq ToSet(queue) \cup (conts \cap {Nobody})
    BY <1>1, <2>1, <2>2
  <2> QED BY <2>1, <2>3
<1>3. CASE waiters # <<>>
  <2> DEFINE h == Head(waiters)
  <2>1. h \in Requests
    BY <1>3, TailFacts
  <2>2. /\ inFlightWaiters' = Tail(waiters) /\ slotCont' = conts \ {h}
        /\ ready' = IF h \in conts THEN Append(queue, h) ELSE queue
    BY <1>3 DEF WakeOneInFlightWaiter
  <2>3. /\ DistinctIn(Tail(waiters), Callers)
        /\ ToSet(Tail(waiters)) \cap Callers = (ToSet(waiters) \cap Callers) \ {h}
    BY <1>3, TailQueue
  <2>4. ToSet(waiters) \subseteq Requests /\ ToSet(Tail(waiters)) \subseteq Requests
    <3>1. Tail(waiters) \in Seq(Requests)
      BY <1>3, TailFacts
    <3> QED BY <3>1, ToSetType
  <2>5. /\ ToSet(Append(queue, h)) = ToSet(queue) \cup {h}
        /\ h \in conts => DistinctIn(Append(queue, h), Callers)
    <3>1. h \in Coroutines
      BY <1>1, <2>1
    <3> HIDE DEF h
    <3> QED BY <3>1, AppendQueue
  <2> HIDE DEF h
  <2>6. /\ ToSet(inFlightWaiters') = ToSet(waiters) \ {h}
        /\ slotCont' = conts \ {h}
        /\ ToSet(ready') \subseteq ToSet(queue) \cup (conts \cap {h})
    BY <1>1, <2>2, <2>3, <2>4, <2>5
  <2>7. DistinctIn(inFlightWaiters', Callers) /\ DistinctIn(ready', Callers)
    BY <2>2, <2>3, <2>5
  <2> QED BY <2>1, <2>6, <2>7
<1> QED BY <1>2, <1>3

(* releaseOutboundBytes() resumes at most one room waiter. *)
LEMMA ReleaseQueue ==
  ASSUME roomWaiters \in Seq(Callers), DistinctIn(roomWaiters, Callers),
         NEW bytes, NEW queue \in Seq(Coroutines), DistinctIn(queue, Callers),
         ToSet(roomWaiters) \cap ToSet(queue) = {},
         ReleaseOutboundBytes(bytes, queue)
  PROVE  /\ DistinctIn(roomWaiters', Callers) /\ DistinctIn(ready', Callers)
         /\ \E h \in Callers \cup {Nobody} :
              /\ ToSet(roomWaiters') = ToSet(roomWaiters) \ {h}
              /\ ToSet(ready') \subseteq ToSet(queue) \cup (ToSet(roomWaiters) \cap {h})
<1>1. Callers \subseteq Coroutines /\ Nobody \notin Callers
  BY CallersAssumption DEF Coroutines
<1>2. ToSet(roomWaiters) \subseteq Callers
  BY ToSetType
<1>3. CASE roomWaiters = <<>>
  <2>1. roomWaiters' = roomWaiters /\ ready' = queue
    BY <1>3 DEF ReleaseOutboundBytes
  <2>2. /\ ToSet(roomWaiters') = ToSet(roomWaiters) \ {Nobody}
        /\ ToSet(ready') \subseteq ToSet(queue) \cup (ToSet(roomWaiters) \cap {Nobody})
    BY <1>1, <1>2, <2>1
  <2> QED BY <2>1, <2>2
<1>4. CASE roomWaiters # <<>>
  <2> DEFINE h == Head(roomWaiters)
  <2>1. h \in Callers
    BY <1>4, TailFacts
  <2>2. roomWaiters' = Tail(roomWaiters) /\ ready' = Append(queue, h)
    BY <1>4 DEF ReleaseOutboundBytes
  <2>3. /\ DistinctIn(Tail(roomWaiters), Callers) /\ h \in ToSet(roomWaiters)
        /\ ToSet(Tail(roomWaiters)) \cap Callers = (ToSet(roomWaiters) \cap Callers) \ {h}
    BY <1>4, TailQueue
  <2>4. ToSet(Tail(roomWaiters)) \subseteq Callers
    <3>1. Tail(roomWaiters) \in Seq(Callers)
      BY <1>4, TailFacts
    <3> QED BY <3>1, ToSetType
  <2>5. /\ ToSet(Append(queue, h)) = ToSet(queue) \cup {h}
        /\ DistinctIn(Append(queue, h), Callers)
    <3>1. h \in Coroutines /\ h \notin ToSet(queue) \cap Callers
      BY <1>1, <2>1, <2>3
    <3> HIDE DEF h
    <3> QED BY <3>1, AppendQueue
  <2> HIDE DEF h
  <2>6. /\ ToSet(roomWaiters') = ToSet(roomWaiters) \ {h}
        /\ ToSet(ready') \subseteq ToSet(queue) \cup (ToSet(roomWaiters) \cap {h})
    BY <1>2, <2>2, <2>3, <2>4, <2>5
  <2>7. DistinctIn(roomWaiters', Callers) /\ DistinctIn(ready', Callers)
    BY <2>2, <2>3, <2>5
  <2> QED BY <2>1, <2>6, <2>7
<1> QED BY <1>3, <1>4
-----------------------------------------------------------------------------
(* The queues, one lemma per group of actions *)

(* A coroutine c that is parked nowhere moves on, and at most one room     *)
(* waiter h is resumed.                                                    *)
LEMMA MoveKeeps ==
  ASSUME ConnInv, QueueInv, NEW c \in Coroutines, NEW h,
         \A d \in Callers \ {c} : pc'[d] = pc[d],
         c \notin ToSet(roomWaiters), c \notin ToSet(chanSenders), c \notin slotCont,
         c \in ToSet(inFlightWaiters) => pc'[c] \in {"slot", "finally"},
         roomCont' \subseteq roomCont, c \in roomCont' => pc'[c] \in {"finally", "done"},
         UNCHANGED <<inFlightWaiters, slotCont, chanSenders, settled, cancelled>>,
         DistinctIn(roomWaiters', Callers), DistinctIn(ready', Callers),
         ToSet(roomWaiters') = ToSet(roomWaiters) \ {h},
         ToSet(ready') \cap Callers \subseteq (ToSet(ready) \ {c}) \cup (ToSet(roomWaiters) \cap {h})
  PROVE  QueueInv'
<1>1. /\ ToSet(inFlightWaiters) \subseteq Requests /\ ToSet(roomWaiters) \subseteq Callers
      /\ ToSet(chanSenders) \subseteq Callers /\ slotCont \subseteq Requests
      /\ roomCont \subseteq Requests /\ Requests \subseteq Callers
  BY QueueTypes
<1>2. \A d \in Callers : d # c => pc'[d] = pc[d]
  OBVIOUS
<1>4. SlotQueue'
  BY <1>1, <1>2 DEF QueueInv, SlotQueue
<1>5. RoomQueue'
  BY <1>1, <1>2 DEF QueueInv, RoomQueue
<1>6. ChanQueue'
  BY <1>1, <1>2 DEF QueueInv, ChanQueue
<1>7. ASSUME NEW d \in ToSet(ready') \cap Callers PROVE Resumable(d)'
  <2>1. CASE d \in ToSet(ready) \ {c}
    <3>1. Resumable(d) /\ pc'[d] = pc[d]
      BY <1>2, <1>7, <2>1 DEF QueueInv, ReadyQueue
    <3> QED BY <3>1 DEF Resumable
  <2>2. CASE d \in ToSet(roomWaiters) \cap {h}
    <3>1. d # c /\ pc[d] = "roomParked"
      BY <2>2 DEF QueueInv, RoomQueue
    <3>2. pc'[d] = "roomParked" /\ d \notin ToSet(roomWaiters')
      BY <1>2, <1>7, <2>2, <3>1
    <3> QED BY <3>2 DEF Resumable
  <2> QED BY <1>7, <2>1, <2>2
<1>8. ReadyQueue'
  BY <1>7 DEF ReadyQueue
<1> QED BY <1>4, <1>5, <1>6, <1>8 DEF QueueInv

(* A coroutine that is awake moves on and nothing else happens to it. *)
LEMMA AwakeMove ==
  ASSUME ConnInv, QueueInv, NEW c \in Coroutines, pc[c] \in AwakePoints, NEW p,
         pc' = [pc EXCEPT ![c] = p],
         c \in ToSet(inFlightWaiters) => p = "finally",
         c \in roomCont => p = "done",
         UNCHANGED <<inFlightWaiters, slotCont, roomWaiters, roomCont, chanSenders, settled,
                     cancelled>>,
         ready' = ready \/ ready' = Append(ready, Writer)
  PROVE  QueueInv'
<1>1. /\ pc \in [Coroutines -> Points] /\ Callers \subseteq Coroutines
      /\ ready \in Seq(Coroutines) /\ Writer \in Coroutines /\ Writer \notin Callers
      /\ ToSet(roomWaiters) \subseteq Callers
  BY QueueTypes
<1>2. pc'[c] = p /\ \A d \in Callers \ {c} : pc'[d] = pc[d]
  BY <1>1
<1>3. /\ c \notin ToSet(roomWaiters) /\ c \notin ToSet(chanSenders) /\ c \notin slotCont
      /\ c \notin ToSet(ready) \cap Callers
  BY Unqueued
<1>4. DistinctIn(ready', Callers) /\ ToSet(ready') \cap Callers = ToSet(ready) \cap Callers
  <2>1. CASE ready' = ready
    BY <2>1 DEF QueueInv, ReadyQueue
  <2>2. CASE ready' = Append(ready, Writer)
    <3>1. /\ ToSet(Append(ready, Writer)) = ToSet(ready) \cup {Writer}
          /\ DistinctIn(Append(ready, Writer), Callers)
      BY <1>1, AppendQueue DEF QueueInv, ReadyQueue
    <3> QED BY <1>1, <2>2, <3>1
  <2> QED BY <2>1, <2>2
<1>5. DistinctIn(roomWaiters', Callers) /\ ToSet(roomWaiters') = ToSet(roomWaiters) \ {Writer}
  BY <1>1 DEF QueueInv, RoomQueue
<1>6. ToSet(ready') \cap Callers \subseteq (ToSet(ready) \ {c}) \cup (ToSet(roomWaiters) \cap {Writer})
  BY <1>3, <1>4
<1> QED BY <1>2, <1>3, <1>4, <1>5, <1>6, MoveKeeps

(* A call that is refused or begins, and the ends of the slot loop that    *)
(* do not park the request.                                                *)
LEMMA CallQueues ==
  ASSUME ConnInv, QueueInv, NEW c \in Callers,
         \/ CallClosed(c)
         \/ Send(c)
         \/ c \in Requests /\ (Request(c) \/ SlotTaken(c) \/ SlotRefused(c))
  PROVE  QueueInv'
<1> USE DEF registryVars, roomVars, pathVars, OnlyCaller
<1>1. /\ c \in Coroutines /\ pc[c] \in {"idle", "slot"}
      /\ UNCHANGED <<inFlightWaiters, slotCont, roomWaiters, roomCont, chanSenders, settled,
                     cancelled, ready>>
  BY DEF Coroutines, CallClosed, Send, Request, SlotTaken, SlotRefused, Running
<1>2. PICK p : pc' = [pc EXCEPT ![c] = p] /\ (p = "finally" \/ ~(pc[c] = "slot" /\ IsSettled(c)))
  BY DEF CallClosed, Send, Request, SlotTaken, SlotRefused, GoTo, Finish, Running
<1>3. pc[c] \in AwakePoints
  BY <1>1 DEF AwakePoints
<1>4. c \in ToSet(inFlightWaiters) => p = "finally"
  <2>1. ToSet(inFlightWaiters) \subseteq Requests
    BY QueueTypes
  <2> QED BY <1>1, <1>2, <1>3, <2>1, Unqueued DEF IsSettled
<1>5. c \notin roomCont
  BY <1>1, <1>3, Unqueued
<1> QED BY <1>1, <1>2, <1>3, <1>4, <1>5, AwakeMove
(* A request parks for an in-flight slot. *)
LEMMA SlotWaitQueues ==
  ASSUME ConnInv, QueueInv, NEW c \in Requests, SlotWait(c)
  PROVE  QueueInv'
<1> USE DEF roomVars, pathVars, OnlyCaller
<1>1. /\ Running(c, "slot") /\ settled[c] = "none"
      /\ UNCHANGED <<roomWaiters, roomCont, chanSenders, settled, cancelled, ready>>
  BY DEF SlotWait, IsSettled
<1>2. /\ c \in Coroutines /\ c \in Callers /\ pc \in [Coroutines -> Points]
      /\ inFlightWaiters \in Seq(Requests) /\ ToSet(inFlightWaiters) \subseteq Requests
      /\ ToSet(roomWaiters) \subseteq Callers /\ ToSet(chanSenders) \subseteq Callers
      /\ slotCont \subseteq Requests /\ roomCont \subseteq Requests
      /\ Requests \subseteq Callers /\ Callers \subseteq Coroutines
  BY QueueTypes DEF Callers, Coroutines
<1>3. pc[c] \in AwakePoints /\ pc[c] = "slot"
  BY <1>1 DEF AwakePoints, Running
<1>4. /\ c \notin ToSet(roomWaiters) /\ c \notin ToSet(chanSenders) /\ c \notin slotCont
      /\ c \notin ToSet(ready) \cap Callers /\ c \notin ToSet(inFlightWaiters) /\ c \notin roomCont
  BY <1>1, <1>2, <1>3, Unqueued
<1>5. CASE c \in cancelled
  <2>1. pc' = [pc EXCEPT ![c] = "finally"] /\ UNCHANGED <<inFlightWaiters, slotCont>>
    BY <1>5 DEF SlotWait, Finish
  <2> QED BY <1>1, <1>2, <1>3, <1>4, <2>1, AwakeMove
<1>6. CASE c \notin cancelled
  <2>1. /\ pc' = [pc EXCEPT ![c] = "slotParked"]
        /\ inFlightWaiters' = Append(inFlightWaiters, c) /\ slotCont' = slotCont \cup {c}
    BY <1>6 DEF SlotWait, GoTo
  <2>2. /\ ToSet(Append(inFlightWaiters, c)) = ToSet(inFlightWaiters) \cup {c}
        /\ DistinctIn(Append(inFlightWaiters, c), Callers)
    BY <1>2, <1>4, AppendQueue DEF QueueInv, SlotQueue
  <2>3. pc'[c] = "slotParked" /\ \A d \in Callers : d # c => pc'[d] = pc[d]
    BY <1>2, <2>1
  <2>4. /\ ToSet(inFlightWaiters') = ToSet(inFlightWaiters) \cup {c}
        /\ DistinctIn(inFlightWaiters', Callers)
    BY <2>1, <2>2
  <2>5. SlotQueue'
    BY <1>1, <1>2, <1>4, <2>1, <2>3, <2>4 DEF QueueInv, SlotQueue
  <2>6. RoomQueue' /\ ChanQueue'
    BY <1>1, <1>2, <1>4, <2>3 DEF QueueInv, RoomQueue, ChanQueue
  <2>7. ReadyQueue'
    BY <1>1, <1>2, <1>4, <2>1, <2>3 DEF QueueInv, ReadyQueue, Resumable
  <2> QED BY <2>5, <2>6, <2>7 DEF QueueInv
<1> QED BY <1>5, <1>6

(* await() and the return of send(). *)
LEMMA AwaitQueues ==
  ASSUME ConnInv, QueueInv, NEW c \in Callers,
         \/ AwaitSettled(c) \/ AwaitParks(c)
         \/ c \in Senders /\ SendReturns(c)
  PROVE  QueueInv'
<1> USE DEF registryVars, roomVars, pathVars, OnlyCaller
<1>1. /\ c \in Coroutines
      /\ pc[c] = "await" \/ (pc[c] = "finally" /\ c \in Senders)
      /\ UNCHANGED <<inFlightWaiters, slotCont, roomWaiters, roomCont, chanSenders, settled,
                     cancelled, ready>>
  <2>1. CASE AwaitSettled(c)
    BY <2>1 DEF Coroutines, AwaitSettled, Running
  <2>2. CASE AwaitParks(c)
    BY <2>2 DEF Coroutines, AwaitParks, Running
  <2>3. CASE c \in Senders /\ SendReturns(c)
    BY <2>3 DEF Coroutines, SendReturns, Running
  <2> QED BY <2>1, <2>2, <2>3
<1>2. PICK p : pc' = [pc EXCEPT ![c] = p]
  BY DEF AwaitSettled, AwaitParks, SendReturns, Return, GoTo, Finish
<1>3. pc[c] \in AwakePoints
  BY <1>1 DEF AwakePoints
<1>4. c \notin ToSet(inFlightWaiters) /\ c \notin roomCont
  <2>1. ToSet(inFlightWaiters) \subseteq Requests /\ roomCont \subseteq Requests
    BY QueueTypes
  <2> QED BY <1>1, <1>3, <2>1, Unqueued, CallersAssumption
<1> QED BY <1>1, <1>2, <1>3, <1>4, AwakeMove

(* enqueue, but for the two suspensions in it. *)
LEMMA EnqueueQueues ==
  ASSUME ConnInv, QueueInv, NEW c \in Callers,
         EnqueueTooLarge(c) \/ EnqueueAborted(c) \/ EnqueueInline(c) \/ EnqueueChannel(c)
  PROVE  QueueInv'
<1> USE DEF registryVars, roomVars, pathVars, OnlyCaller
<1>1. /\ c \in Coroutines /\ pc[c] = "enqueue"
      /\ UNCHANGED <<inFlightWaiters, slotCont, roomWaiters, roomCont, chanSenders, settled,
                     cancelled>>
  BY DEF Coroutines, EnqueueTooLarge, EnqueueAborted, EnqueueInline, EnqueueChannel, Enqueuing,
         Running
<1>2. ready' = ready \/ ready' = Append(ready, Writer)
  BY DEF EnqueueTooLarge, EnqueueAborted, EnqueueInline, EnqueueChannel
<1>3. PICK p : pc' = [pc EXCEPT ![c] = p]
  BY DEF EnqueueTooLarge, EnqueueAborted, EnqueueInline, EnqueueChannel, AfterEnqueue, GoTo, Finish
<1>4. pc[c] \in AwakePoints
  BY <1>1 DEF AwakePoints
<1>5. c \notin ToSet(inFlightWaiters) /\ c \notin roomCont
  BY <1>1, <1>4, Unqueued
<1> QED BY <1>1, <1>2, <1>3, <1>4, <1>5, AwakeMove

(* A caller suspends for outbound room or in the full Channel. *)
LEMMA EnqueueWaitQueues ==
  ASSUME ConnInv, QueueInv, NEW c \in Callers, EnqueueWait(c) \/ EnqueueChannelFull(c)
  PROVE  QueueInv'
<1> USE DEF registryVars, roomVars, pathVars
<1>1. /\ pc[c] = "enqueue"
      /\ UNCHANGED <<inFlightWaiters, slotCont, settled, cancelled, ready>>
  BY DEF EnqueueWait, EnqueueChannelFull, Enqueuing, Running
<1>2. /\ c \in Coroutines /\ pc \in [Coroutines -> Points]
      /\ roomWaiters \in Seq(Callers) /\ chanSenders \in Seq(Callers)
      /\ ToSet(inFlightWaiters) \subseteq Requests
      /\ ToSet(roomWaiters) \subseteq Callers /\ ToSet(chanSenders) \subseteq Callers
      /\ slotCont \subseteq Requests /\ roomCont \subseteq Requests
      /\ Requests \subseteq Callers /\ Callers \subseteq Coroutines
  BY QueueTypes
<1>3. pc[c] \in AwakePoints
  BY <1>1 DEF AwakePoints
<1>4. /\ c \notin ToSet(roomWaiters) /\ c \notin ToSet(chanSenders) /\ c \notin slotCont
      /\ c \notin ToSet(ready) \cap Callers /\ c \notin ToSet(inFlightWaiters) /\ c \notin roomCont
  BY <1>1, <1>2, <1>3, Unqueued
<1>5. CASE pc' = [pc EXCEPT ![c] = "finally"] /\ UNCHANGED <<roomWaiters, roomCont, chanSenders>>
  BY <1>1, <1>2, <1>3, <1>4, <1>5, AwakeMove
<1>6. CASE /\ pc' = [pc EXCEPT ![c] = "roomParked"]
           /\ roomWaiters' = Append(roomWaiters, c)
           /\ roomCont' = IF c \in Requests THEN roomCont \cup {c} ELSE roomCont
           /\ UNCHANGED chanSenders
  <2>1. /\ ToSet(Append(roomWaiters, c)) = ToSet(roomWaiters) \cup {c}
        /\ DistinctIn(Append(roomWaiters, c), Callers)
    BY <1>2, <1>4, AppendQueue DEF QueueInv, RoomQueue
  <2>2. pc'[c] = "roomParked" /\ \A d \in Callers : d # c => pc'[d] = pc[d]
    BY <1>2, <1>6
  <2>3. ToSet(roomWaiters') = ToSet(roomWaiters) \cup {c} /\ DistinctIn(roomWaiters', Callers)
    BY <1>6, <2>1
  <2>4. SlotQueue' /\ ChanQueue'
    BY <1>1, <1>2, <1>4, <1>6, <2>2 DEF QueueInv, SlotQueue, ChanQueue
  <2>5. RoomQueue'
    BY <1>2, <1>6, <2>2, <2>3 DEF QueueInv, RoomQueue
  <2>6. ReadyQueue'
    BY <1>1, <1>4, <2>2, <2>3 DEF QueueInv, ReadyQueue, Resumable
  <2> QED BY <2>4, <2>5, <2>6 DEF QueueInv
<1>7. CASE /\ pc' = [pc EXCEPT ![c] = "chanParked"]
           /\ chanSenders' = Append(chanSenders, c)
           /\ UNCHANGED <<roomWaiters, roomCont>>
  <2>1. /\ ToSet(Append(chanSenders, c)) = ToSet(chanSenders) \cup {c}
        /\ DistinctIn(Append(chanSenders, c), Callers)
    BY <1>2, <1>4, AppendQueue DEF QueueInv, ChanQueue
  <2>2. pc'[c] = "chanParked" /\ \A d \in Callers : d # c => pc'[d] = pc[d]
    BY <1>2, <1>7
  <2>3. ToSet(chanSenders') = ToSet(chanSenders) \cup {c} /\ DistinctIn(chanSenders', Callers)
    BY <1>7, <2>1
  <2>4. SlotQueue' /\ RoomQueue'
    BY <1>1, <1>2, <1>4, <1>7, <2>2 DEF QueueInv, SlotQueue, RoomQueue
  <2>5. ChanQueue'
    BY <1>2, <2>2, <2>3 DEF QueueInv, ChanQueue
  <2>6. ReadyQueue'
    BY <1>1, <1>4, <1>7, <2>2 DEF QueueInv, ReadyQueue, Resumable
  <2> QED BY <2>4, <2>5, <2>6 DEF QueueInv
<1> QED BY <1>5, <1>6, <1>7 DEF EnqueueWait, EnqueueChannelFull, GoTo, Finish
(* The writers between two socket writes, and the write loop when no       *)
(* sender moves up.                                                        *)
LEMMA WriterQueues ==
  ASSUME ConnInv, QueueInv, NEW c \in Coroutines,
         \/ DrainLeftover(c) \/ DrainDone(c)
         \/ WriteReturns(c) /\ WriteMode = "INLINE"
         \/ c = Writer /\ (LoopParks \/ (LoopTakes /\ (loopPacket # Nobody \/ chanSenders = <<>>)))
  PROVE  QueueInv'
<1> USE DEF registryVars, roomVars, pathVars
<1>1. pc[c] \in {"drain", "write", "receive"}
  BY DEF DrainLeftover, DrainDone, WriteReturns, WriteDone, LoopParks, LoopTakes, Running
<1>2. UNCHANGED <<inFlightWaiters, slotCont, roomWaiters, roomCont, chanSenders, settled,
                  cancelled, ready>>
  BY DEF DrainLeftover, DrainDone, WriteReturns, LoopParks, LoopTakes
<1>3. PICK p : pc' = [pc EXCEPT ![c] = p]
  BY DEF DrainLeftover, DrainDone, WriteReturns, LoopParks, LoopTakes, AfterEnqueue, GoTo, Finish
<1>4. pc[c] \in AwakePoints
  BY <1>1 DEF AwakePoints
<1>5. c \notin ToSet(inFlightWaiters) /\ c \notin roomCont
  BY <1>1, <1>4, Unqueued
<1> QED BY <1>2, <1>3, <1>4, <1>5, AwakeMove

(* Bytes are released: by the writer, or by a request that leaves the      *)
(* Channel without its packet.                                             *)
LEMMA ReleaseQueues ==
  ASSUME ConnInv, QueueInv, NEW c \in Coroutines,
         \/ DrainNext(c)
         \/ WriteReturns(c) /\ WriteMode = "CHANNEL"
  PROVE  QueueInv'
<1> USE DEF registryVars, roomVars, pathVars
<1>1. pc[c] \in {"drain", "write"}
  BY DEF DrainNext, WriteReturns, WriteDone, Running
<1>2. UNCHANGED <<inFlightWaiters, slotCont, roomCont, chanSenders, settled, cancelled>>
  BY DEF DrainNext, WriteReturns
<1>3. PICK p : pc' = [pc EXCEPT ![c] = p]
  BY DEF DrainNext, WriteReturns, GoTo
<1>4. PICK bytes : ReleaseOutboundBytes(bytes, ready)
  BY DEF DrainNext, WriteReturns
<1>5. /\ pc \in [Coroutines -> Points] /\ Callers \subseteq Coroutines
      /\ ready \in Seq(Coroutines) /\ roomWaiters \in Seq(Callers)
      /\ ToSet(roomWaiters) \subseteq Callers /\ ToSet(ready) \subseteq Coroutines
  BY QueueTypes
<1>6. pc[c] \in AwakePoints
  BY <1>1 DEF AwakePoints
<1>7. /\ c \notin ToSet(roomWaiters) /\ c \notin ToSet(chanSenders) /\ c \notin slotCont
      /\ c \notin ToSet(ready) \cap Callers
      /\ c \notin ToSet(inFlightWaiters) /\ c \notin roomCont
  BY <1>1, <1>6, Unqueued
<1>8. /\ DistinctIn(roomWaiters, Callers) /\ DistinctIn(ready, Callers)
      /\ ToSet(roomWaiters) \cap ToSet(ready) = {}
  BY <1>5 DEF QueueInv, RoomQueue, ReadyQueue, Resumable
<1>9. /\ DistinctIn(roomWaiters', Callers) /\ DistinctIn(ready', Callers)
      /\ \E h \in Callers \cup {Nobody} :
           /\ ToSet(roomWaiters') = ToSet(roomWaiters) \ {h}
           /\ ToSet(ready') \subseteq ToSet(ready) \cup (ToSet(roomWaiters) \cap {h})
  BY <1>4, <1>5, <1>8, ReleaseQueue
<1>10. PICK h \in Callers \cup {Nobody} :
           /\ ToSet(roomWaiters') = ToSet(roomWaiters) \ {h}
           /\ ToSet(ready') \subseteq ToSet(ready) \cup (ToSet(roomWaiters) \cap {h})
  BY <1>9
<1>11. ToSet(ready') \cap Callers \subseteq (ToSet(ready) \ {c}) \cup (ToSet(roomWaiters) \cap {h})
  BY <1>7, <1>10
<1>12. \A d \in Callers \ {c} : pc'[d] = pc[d]
  BY <1>3, <1>5
<1> QED BY <1>2, <1>7, <1>9, <1>10, <1>11, <1>12, MoveKeeps

(* The reactor takes a coroutine off the run queue. *)
LEMMA ResumeFacts ==
  ASSUME ConnInv, QueueInv, NEW c, Resumed(c)
  PROVE  /\ c \in Coroutines /\ c \in ToSet(ready)
         /\ Tail(ready) \in Seq(Coroutines) /\ DistinctIn(Tail(ready), Callers)
         /\ ToSet(Tail(ready)) \cap Callers \subseteq ToSet(ready) \ {c}
         /\ ToSet(Tail(ready)) \subseteq ToSet(ready)
<1>1. ready \in Seq(Coroutines) /\ ready # <<>> /\ c = Head(ready) /\ DistinctIn(ready, Callers)
  BY QueueTypes DEF Resumed, QueueInv, ReadyQueue
<1>2. Head(ready) \in Coroutines /\ Tail(ready) \in Seq(Coroutines)
  BY <1>1, TailFacts
<1>3. /\ Head(ready) \in ToSet(ready)
      /\ ToSet(ready) = ToSet(Tail(ready)) \cup {Head(ready)}
      /\ DistinctIn(Tail(ready), Callers)
      /\ ToSet(Tail(ready)) \cap Callers = (ToSet(ready) \cap Callers) \ {Head(ready)}
  BY <1>1, TailQueue
<1> QED BY <1>1, <1>2, <1>3

LEMMA RunQueues ==
  ASSUME ConnInv, QueueInv, NEW c \in Coroutines, Run(c) \/ RunDead(c)
  PROVE  QueueInv'
<1> USE DEF registryVars, roomVars, pathVars
<1>1. /\ Resumed(c) /\ ready' = Tail(ready)
      /\ UNCHANGED <<inFlightWaiters, slotCont, roomWaiters, chanSenders, settled, cancelled>>
  BY DEF Run, RunDead
<1>2. /\ c \in ToSet(ready) /\ DistinctIn(ready', Callers)
      /\ ToSet(ready') \cap Callers \subseteq ToSet(ready) \ {c}
  BY <1>1, ResumeFacts
<1>3. /\ pc \in [Coroutines -> Points] /\ Callers \subseteq Coroutines
      /\ ToSet(roomWaiters) \subseteq Callers /\ ToSet(chanSenders) \subseteq Callers
      /\ slotCont \subseteq Requests /\ Requests \subseteq Callers
      /\ ToSet(inFlightWaiters) \subseteq Requests
      /\ roomCont \subseteq Requests /\ Writer \notin Callers
  BY QueueTypes
<1>4. c \in Callers => Resumable(c)
  BY <1>2 DEF QueueInv, ReadyQueue
<1>5. c \notin ToSet(roomWaiters) /\ c \notin ToSet(chanSenders) /\ c \notin slotCont
  BY <1>3, <1>4 DEF QueueInv, SlotQueue, RoomQueue, ChanQueue, Resumable
<1>6. \A d \in Callers \ {c} : pc'[d] = pc[d]
  <2>1. pc' = pc \/ \E p : pc' = [pc EXCEPT ![c] = p]
    BY DEF Run, RunDead, RunSlotWaiter, RunRoomWaiter, RunAwaiter, RunWriter, GoTo, Finish
  <2> QED BY <1>3, <2>1
<1>7. c \in ToSet(inFlightWaiters) => pc'[c] \in {"slot", "finally"}
  <2>1. SUFFICES ASSUME c \in ToSet(inFlightWaiters) PROVE pc'[c] \in {"slot", "finally"}
    OBVIOUS
  <2>2. c \in Callers /\ pc[c] = "slotParked"
    BY <1>3, <1>4, <2>1 DEF QueueInv, SlotQueue, Resumable
  <2>3. Run(c)
    BY <2>2 DEF RunDead
  <2>4. RunSlotWaiter(c)
    BY <2>2, <2>3 DEF Run, RunRoomWaiter, RunAwaiter, RunWriter
  <2> QED BY <1>3, <2>4 DEF RunSlotWaiter, GoTo, Finish
<1>8. roomCont' \subseteq roomCont
  BY DEF Run, RunDead
<1>9. c \in roomCont' => pc'[c] \in {"finally", "done"}
  <2>1. SUFFICES ASSUME c \in roomCont' PROVE pc'[c] \in {"finally", "done"}
    OBVIOUS
  <2>2. c \in Callers /\ c \in roomCont /\ pc[c] \in {"roomParked", "roomFailed"}
    BY <1>3, <1>4, <1>8, <2>1 DEF QueueInv, RoomQueue, Resumable
  <2>3. Run(c)
    BY <2>2 DEF RunDead
  <2>4. RunRoomWaiter(c)
    BY <1>3, <2>2, <2>3 DEF Run, RunSlotWaiter, RunAwaiter, RunWriter
  <2>5. pc[c] = "roomParked" => c \in cancelled
    BY <2>1, <2>3 DEF Run
  <2> QED BY <1>3, <2>2, <2>4, <2>5 DEF RunRoomWaiter, Finish
<1>10. DistinctIn(roomWaiters', Callers) /\ ToSet(roomWaiters') = ToSet(roomWaiters) \ {Writer}
  BY <1>1, <1>3 DEF QueueInv, RoomQueue
<1>11. ToSet(ready') \cap Callers \subseteq (ToSet(ready) \ {c}) \cup (ToSet(roomWaiters) \cap {Writer})
  BY <1>2
<1> QED BY <1>1, <1>2, <1>5, <1>6, <1>7, <1>8, <1>9, <1>10, <1>11, MoveKeeps

(* A caller leaves the outbound Channel. *)
LEMMA ChanWaiterQueues ==
  ASSUME ConnInv, QueueInv, NEW c \in Callers, RunChanWaiter(c)
  PROVE  QueueInv'
<1> USE DEF registryVars, roomVars, pathVars
<1>1. /\ Resumed(c) /\ pc[c] \in {"chanSent", "chanGate"}
      /\ UNCHANGED <<inFlightWaiters, slotCont, roomCont, chanSenders, settled, cancelled>>
  BY DEF RunChanWaiter
<1>2. /\ Tail(ready) \in Seq(Coroutines) /\ DistinctIn(Tail(ready), Callers)
      /\ ToSet(Tail(ready)) \cap Callers \subseteq ToSet(ready) \ {c}
      /\ ToSet(Tail(ready)) \subseteq ToSet(ready)
  BY <1>1, ResumeFacts
<1>3. /\ pc \in [Coroutines -> Points] /\ Callers \subseteq Coroutines
      /\ roomWaiters \in Seq(Callers) /\ ToSet(roomWaiters) \subseteq Callers
      /\ Nobody \notin Callers
  BY QueueTypes, CallersAssumption
<1>4. /\ c \notin ToSet(roomWaiters) /\ c \notin ToSet(chanSenders) /\ c \notin slotCont
      /\ c \notin ToSet(inFlightWaiters) /\ c \notin roomCont
  BY <1>1 DEF QueueInv, SlotQueue, RoomQueue, ChanQueue
<1>5. \A d \in Callers \ {c} : pc'[d] = pc[d]
  <2>1. \E p : pc' = [pc EXCEPT ![c] = p]
    BY DEF RunChanWaiter, AfterEnqueue, GoTo, Finish
  <2> QED BY <1>3, <2>1
<1>6. /\ DistinctIn(roomWaiters, Callers)
      /\ ToSet(roomWaiters) \cap ToSet(Tail(ready)) = {}
  BY <1>2, <1>3 DEF QueueInv, RoomQueue, ReadyQueue, Resumable
<1>7. /\ DistinctIn(roomWaiters', Callers) /\ DistinctIn(ready', Callers)
      /\ \E h \in Callers \cup {Nobody} :
           /\ ToSet(roomWaiters') = ToSet(roomWaiters) \ {h}
           /\ ToSet(ready') \subseteq ToSet(Tail(ready)) \cup (ToSet(roomWaiters) \cap {h})
  <2>1. CASE ReleaseOutboundBytes(Bytes[c], Tail(ready))
    BY <1>2, <1>3, <1>6, <2>1, ReleaseQueue
  <2>2. CASE ready' = Tail(ready) /\ UNCHANGED <<queuedBytes, roomWaiters>>
    <3>1. /\ ToSet(roomWaiters') = ToSet(roomWaiters) \ {Nobody}
          /\ ToSet(ready') \subseteq ToSet(Tail(ready)) \cup (ToSet(roomWaiters) \cap {Nobody})
      BY <1>3, <2>2
    <3> QED BY <1>2, <1>6, <2>2, <3>1
  <2> QED BY <2>1, <2>2 DEF RunChanWaiter
<1>8. PICK h \in Callers \cup {Nobody} :
           /\ ToSet(roomWaiters') = ToSet(roomWaiters) \ {h}
           /\ ToSet(ready') \subseteq ToSet(Tail(ready)) \cup (ToSet(roomWaiters) \cap {h})
  BY <1>7
<1>9. ToSet(ready') \cap Callers \subseteq (ToSet(ready) \ {c}) \cup (ToSet(roomWaiters) \cap {h})
  BY <1>2, <1>8
<1>10. c \in Coroutines
  BY <1>3
<1> QED BY <1>1, <1>4, <1>5, <1>7, <1>8, <1>9, <1>10, MoveKeeps
(* The finally block of a request: its entry goes, and a waiter may be     *)
(* resumed.                                                                *)
LEMMA FinallyQueues ==
  ASSUME ConnInv, QueueInv, NEW c \in Requests, Finally(c)
  PROVE  QueueInv'
<1> USE DEF roomVars, pathVars
<1>1. /\ pc[c] = "finally" /\ pc' = [pc EXCEPT ![c] = "done"]
      /\ UNCHANGED <<roomWaiters, roomCont, chanSenders, settled, cancelled>>
  BY DEF Finally, Return, Running
<1>2. /\ c \in Coroutines /\ pc \in [Coroutines -> Points]
      /\ inFlightWaiters \in Seq(Requests) /\ ToSet(inFlightWaiters) \subseteq Requests
      /\ ToSet(roomWaiters) \subseteq Callers /\ ToSet(chanSenders) \subseteq Callers
      /\ slotCont \subseteq Requests /\ roomCont \subseteq Requests
      /\ Requests \subseteq Callers /\ Callers \subseteq Coroutines
      /\ ready \in Seq(Coroutines) /\ Nobody \notin Callers
  BY QueueTypes, CallersAssumption
<1>3. pc[c] \in AwakePoints
  BY <1>1 DEF AwakePoints
<1>4. /\ c \notin ToSet(roomWaiters) /\ c \notin ToSet(chanSenders) /\ c \notin slotCont
      /\ c \notin ToSet(ready)
  BY <1>2, <1>3, Unqueued
<1>5. /\ Without(inFlightWaiters, c) \in Seq(Requests)
      /\ ToSet(Without(inFlightWaiters, c)) = ToSet(inFlightWaiters) \ {c}
      /\ DistinctIn(Without(inFlightWaiters, c), Callers)
  <2>1. DistinctIn(inFlightWaiters, Callers)
    BY DEF QueueInv, SlotQueue
  <2>2. Without(inFlightWaiters, c) \in Seq(Requests)
    BY <1>2, WithoutType
  <2>3. /\ ToSet(Without(inFlightWaiters, c)) = ToSet(inFlightWaiters) \ {c}
        /\ DistinctIn(Without(inFlightWaiters, c), Callers)
    BY <1>2, <2>1, WithoutQueue
  <2> QED BY <2>2, <2>3
<1>6. DistinctIn(ready, Callers) /\ slotCont \cap ToSet(ready) = {}
  BY <1>2 DEF QueueInv, SlotQueue, ReadyQueue, Resumable
<1>7. /\ DistinctIn(inFlightWaiters', Callers) /\ DistinctIn(ready', Callers)
      /\ \E h \in Requests \cup {Nobody} :
           /\ ToSet(inFlightWaiters') = ToSet(Without(inFlightWaiters, c)) \ {h}
           /\ slotCont' = slotCont \ {h}
           /\ ToSet(ready') \subseteq ToSet(ready) \cup (slotCont \cap {h})
  <2>1. CASE WakeOneInFlightWaiter(Without(inFlightWaiters, c), slotCont, ready)
    BY <1>2, <1>5, <1>6, <2>1, WakeQueue
  <2>2. CASE /\ inFlightWaiters' = Without(inFlightWaiters, c)
             /\ UNCHANGED <<slotCont, ready>>
    <3>1. /\ ToSet(inFlightWaiters') = ToSet(Without(inFlightWaiters, c)) \ {Nobody}
          /\ slotCont' = slotCont \ {Nobody}
          /\ ToSet(ready') \subseteq ToSet(ready) \cup (slotCont \cap {Nobody})
      BY <1>2, <1>5, <2>2
    <3> QED BY <1>5, <1>6, <2>2, <3>1
  <2> QED BY <2>1, <2>2 DEF Finally
<1>8. PICK h \in Requests \cup {Nobody} :
           /\ ToSet(inFlightWaiters') = (ToSet(inFlightWaiters) \ {c}) \ {h}
           /\ slotCont' = slotCont \ {h}
           /\ ToSet(ready') \subseteq ToSet(ready) \cup (slotCont \cap {h})
  BY <1>5, <1>7
<1>9. pc'[c] = "done" /\ \A d \in Callers : d # c => pc'[d] = pc[d]
  BY <1>1, <1>2
<1>10. SlotQueue'
  BY <1>1, <1>2, <1>4, <1>7, <1>8, <1>9 DEF QueueInv, SlotQueue
<1>11. RoomQueue' /\ ChanQueue'
  BY <1>1, <1>2, <1>4, <1>9 DEF QueueInv, RoomQueue, ChanQueue
<1>12. ASSUME NEW d \in ToSet(ready') \cap Callers PROVE Resumable(d)'
  <2>1. CASE d \in ToSet(ready)
    <3>1. Resumable(d) /\ d # c
      BY <1>4, <1>12, <2>1 DEF QueueInv, ReadyQueue
    <3>2. pc'[d] = pc[d]
      BY <1>9, <1>12, <3>1
    <3> QED BY <1>1, <1>8, <3>1, <3>2 DEF Resumable
  <2>2. CASE d \in slotCont \cap {h}
    <3>1. pc[d] = "slotParked" /\ d # c /\ d \notin slotCont'
      BY <1>1, <1>8, <2>2 DEF QueueInv, SlotQueue
    <3>2. pc'[d] = "slotParked"
      BY <1>9, <1>12, <3>1
    <3> QED BY <3>1, <3>2 DEF Resumable
  <2> QED BY <1>8, <1>12, <2>1, <2>2
<1>13. ReadyQueue'
  BY <1>7, <1>12 DEF ReadyQueue
<1> QED BY <1>10, <1>11, <1>13 DEF QueueInv

(* fail(), complete() and a cancellation resume one caller p, which leaves *)
(* its queue, and may wake a slot waiter.                                  *)
LEMMA EventKeeps ==
  ASSUME ConnInv, QueueInv, NEW p \in Callers,
         pc' = pc \/ (pc' = [pc EXCEPT ![p] = "chanGate"] /\ pc[p] = "chanParked"),
         ToSet(chanSenders') = IF pc' = pc THEN ToSet(chanSenders) ELSE ToSet(chanSenders) \ {p},
         DistinctIn(inFlightWaiters', Callers), DistinctIn(roomWaiters', Callers),
         DistinctIn(chanSenders', Callers), DistinctIn(ready', Callers),
         ToSet(roomWaiters') \subseteq ToSet(roomWaiters), roomCont' \subseteq roomCont,
         ToSet(inFlightWaiters') \subseteq ToSet(inFlightWaiters),
         slotCont' \subseteq slotCont, slotCont' \subseteq ToSet(inFlightWaiters'),
         \A r \in Requests : settled[r] # "none" => settled'[r] # "none",
         cancelled \subseteq cancelled',
         \A r \in ToSet(inFlightWaiters') : r \in slotCont => r \in slotCont' \/ settled'[r] # "none",
         \A d \in ToSet(ready') \cap Callers : d \in ToSet(ready) \/ Resumable(d)'
  PROVE  QueueInv'
<1>1. /\ pc \in [Coroutines -> Points] /\ p \in Coroutines
      /\ ToSet(inFlightWaiters) \subseteq Requests
      /\ ToSet(roomWaiters) \subseteq Callers /\ ToSet(chanSenders) \subseteq Callers
      /\ slotCont \subseteq Requests /\ roomCont \subseteq Requests
      /\ Requests \subseteq Callers /\ Callers \subseteq Coroutines
  BY QueueTypes
<1>2. \A d \in Callers : pc'[d] = pc[d] \/ (d = p /\ pc[d] = "chanParked" /\ pc'[d] = "chanGate")
  BY <1>1
<1>3. SlotQueue'
  BY <1>1, <1>2 DEF QueueInv, SlotQueue
<1>4. RoomQueue'
  BY <1>1, <1>2 DEF QueueInv, RoomQueue
<1>5. ChanQueue'
  <2>1. CASE pc' = pc
    BY <2>1 DEF QueueInv, ChanQueue
  <2>2. CASE pc' # pc
    BY <1>1, <1>2, <2>2 DEF QueueInv, ChanQueue
  <2> QED BY <2>1, <2>2
<1>6. ASSUME NEW d \in ToSet(ready') \cap Callers, d \in ToSet(ready) PROVE Resumable(d)'
  <2>1. Resumable(d)
    BY <1>6 DEF QueueInv, ReadyQueue
  <2>2. pc'[d] = pc[d]
    BY <1>2, <1>6, <2>1 DEF Resumable
  <2>3. CASE pc[d] = "awaitParked"
    <3>1. d \in Requests /\ (settled[d] # "none" \/ d \in cancelled)
      BY <2>1, <2>3 DEF Resumable
    <3>2. settled'[d] # "none" \/ d \in cancelled'
      BY <3>1
    <3> QED BY <2>2, <2>3, <3>1, <3>2 DEF Resumable
  <2>4. CASE pc[d] # "awaitParked"
    BY <2>1, <2>2, <2>4 DEF Resumable
  <2> QED BY <2>3, <2>4
<1>7. ReadyQueue'
  BY <1>6 DEF ReadyQueue
<1> QED BY <1>3, <1>4, <1>5, <1>7 DEF QueueInv
(* The gate of a request that fails or completes in the full Channel. *)
LEMMA GateQueues ==
  ASSUME ConnInv, QueueInv, NEW p \in Requests,
         chanSenders' = IF p \in GatedIn({p}) THEN Without(chanSenders, p) ELSE chanSenders,
         pc' = IF p \in GatedIn({p}) THEN [pc EXCEPT ![p] = "chanGate"] ELSE pc
  PROVE  /\ pc' = pc \/ (pc' = [pc EXCEPT ![p] = "chanGate"] /\ pc[p] = "chanParked")
         /\ ToSet(chanSenders') = IF pc' = pc THEN ToSet(chanSenders) ELSE ToSet(chanSenders) \ {p}
         /\ DistinctIn(chanSenders', Callers)
         /\ pc' = pc \/ pc'[p] = "chanGate"
         /\ \A d \in Callers \ {p} : pc'[d] = pc[d]
         /\ p \in GatedIn({p}) => pc'[p] = "chanGate"
<1>1. /\ pc \in [Coroutines -> Points] /\ p \in Coroutines /\ Callers \subseteq Coroutines
      /\ chanSenders \in Seq(Callers) /\ DistinctIn(chanSenders, Callers)
  BY QueueTypes DEF QueueInv, ChanQueue
<1>2. CASE p \in GatedIn({p})
  <2>1. pc[p] = "chanParked" /\ pc' = [pc EXCEPT ![p] = "chanGate"]
    BY <1>2 DEF GatedIn
  <2>2. pc'[p] = "chanGate" /\ \A d \in Callers \ {p} : pc'[d] = pc[d]
    BY <1>1, <2>1
  <2>3. /\ ToSet(Without(chanSenders, p)) = ToSet(chanSenders) \ {p}
        /\ DistinctIn(Without(chanSenders, p), Callers)
    BY <1>1, WithoutQueue
  <2> QED BY <1>2, <2>1, <2>2, <2>3
<1>3. CASE p \notin GatedIn({p})
  BY <1>1, <1>3
<1> QED BY <1>2, <1>3

(* The deadline. *)
LEMMA DeadlineQueues ==
  ASSUME ConnInv, QueueInv, NEW r \in Requests, Deadline(r)
  PROVE  QueueInv'
<1> DEFINE parked == \/ r \in AwaitersIn({r}) \cup GatedIn({r}) \cup slotCont
                     \/ r \in roomCont \cap ToSet(roomWaiters)
           queue == IF parked THEN Append(ready, r) ELSE ready
<1>1. /\ pc[r] \notin {"idle", "finally", "done"} /\ settled[r] = "none"
      /\ settled' = [settled EXCEPT ![r] = "timeout"]
      /\ UNCHANGED cancelled
      /\ chanSenders' = IF r \in GatedIn({r}) THEN Without(chanSenders, r) ELSE chanSenders
      /\ pc' = IF r \in GatedIn({r}) THEN [pc EXCEPT ![r] = "chanGate"] ELSE pc
  BY DEF Deadline, DeadlineDue
<1>2. /\ pc \in [Coroutines -> Points] /\ settled \in [Requests -> Settlements]
      /\ inFlightWaiters \in Seq(Requests) /\ ToSet(inFlightWaiters) \subseteq Requests
      /\ roomWaiters \in Seq(Callers) /\ ToSet(roomWaiters) \subseteq Callers
      /\ slotCont \subseteq Requests /\ roomCont \subseteq Requests
      /\ Requests \subseteq Callers /\ Callers \subseteq Coroutines
      /\ ready \in Seq(Coroutines) /\ r \in Coroutines /\ r \in Callers
  BY QueueTypes
<1>3. /\ pc' = pc \/ (pc' = [pc EXCEPT ![r] = "chanGate"] /\ pc[r] = "chanParked")
      /\ ToSet(chanSenders') = IF pc' = pc THEN ToSet(chanSenders) ELSE ToSet(chanSenders) \ {r}
      /\ DistinctIn(chanSenders', Callers)
      /\ \A d \in Callers \ {r} : pc'[d] = pc[d]
      /\ r \in GatedIn({r}) => pc'[r] = "chanGate"
  BY <1>1, GateQueues
<1>4. settled'[r] = "timeout" /\ \A d \in Requests : settled[d] # "none" => settled'[d] # "none"
  BY <1>1, <1>2
<1>5. /\ DistinctIn(inFlightWaiters, Callers) /\ DistinctIn(roomWaiters, Callers)
      /\ DistinctIn(ready, Callers) /\ slotCont \subseteq ToSet(inFlightWaiters)
  BY DEF QueueInv, SlotQueue, RoomQueue, ReadyQueue
<1>6. CASE r \in roomCont /\ r \notin ToSet(roomWaiters)
  <2>1. ~parked
    BY <1>1, <1>6 DEF QueueInv, SlotQueue, RoomQueue, AwaitersIn, GatedIn
  <2>2. UNCHANGED <<roomWaiters, roomCont, inFlightWaiters, slotCont>> /\ ready' = queue
    BY <1>6 DEF Deadline, roomVars
  <2>3. ready' = ready
    BY <2>1, <2>2
  <2> HIDE DEF parked, queue
  <2> QED BY <1>1, <1>2, <1>3, <1>4, <1>5, <2>2, <2>3, EventKeeps
<1>7. CASE ~(r \in roomCont /\ r \notin ToSet(roomWaiters))
  <2>1. /\ roomWaiters' = IF r \in roomCont THEN Without(roomWaiters, r) ELSE roomWaiters
        /\ roomCont' = roomCont \ {r}
        /\ WakeOneInFlightWaiter(inFlightWaiters, slotCont \ {r}, queue)
    BY <1>7 DEF Deadline
  <2>2. /\ ToSet(Without(roomWaiters, r)) = ToSet(roomWaiters) \ {r}
        /\ DistinctIn(Without(roomWaiters, r), Callers)
    BY <1>2, <1>5, WithoutQueue
  <2>3. /\ ToSet(roomWaiters') \subseteq ToSet(roomWaiters) /\ DistinctIn(roomWaiters', Callers)
        /\ r \in roomCont => r \notin ToSet(roomWaiters')
    BY <1>5, <2>1, <2>2
  <2>4. parked => r \notin ToSet(ready)
    BY <1>1, <1>2 DEF QueueInv, SlotQueue, RoomQueue, ReadyQueue, Resumable, AwaitersIn, GatedIn
  <2>5. Append(ready, r) \in Seq(Coroutines)
    BY <1>2, AppendFacts
  <2>6. /\ ToSet(Append(ready, r)) = ToSet(ready) \cup {r}
        /\ r \notin ToSet(ready) => DistinctIn(Append(ready, r), Callers)
    BY <1>2, <1>5, AppendQueue
  <2>7. parked => Resumable(r)' \/ r \in slotCont
    <3>1. ASSUME r \in AwaitersIn({r}) PROVE Resumable(r)'
      BY <1>2, <1>3, <1>4, <3>1 DEF AwaitersIn, Resumable
    <3>2. ASSUME r \in GatedIn({r}) PROVE Resumable(r)'
      BY <1>3, <3>2 DEF Resumable
    <3>3. ASSUME r \in roomCont \cap ToSet(roomWaiters) PROVE Resumable(r)'
      BY <1>2, <1>3, <2>3, <3>3 DEF QueueInv, RoomQueue, Resumable
    <3> QED BY <3>1, <3>2, <3>3
  <2> HIDE DEF parked
  <2>8. queue \in Seq(Coroutines) /\ DistinctIn(queue, Callers) /\ ToSet(queue) \subseteq ToSet(ready) \cup {r}
    BY <1>2, <1>5, <2>4, <2>5, <2>6
  <2>9. (slotCont \ {r}) \cap ToSet(queue) = {}
    BY <1>2, <2>8 DEF QueueInv, SlotQueue, ReadyQueue, Resumable
  <2>10. r \in ToSet(queue) => r \in ToSet(ready) \/ parked
    BY DEF queue
  <2> HIDE DEF queue
  <2>11. slotCont \ {r} \subseteq Requests
    BY <1>2
  <2>12. /\ DistinctIn(inFlightWaiters', Callers) /\ DistinctIn(ready', Callers)
         /\ \E h \in Requests \cup {Nobody} :
              /\ ToSet(inFlightWaiters') = ToSet(inFlightWaiters) \ {h}
              /\ slotCont' = (slotCont \ {r}) \ {h}
              /\ ToSet(ready') \subseteq ToSet(queue) \cup ((slotCont \ {r}) \cap {h})
    BY <1>2, <1>5, <2>1, <2>8, <2>9, <2>11, WakeQueue
  <2>13. PICK h \in Requests \cup {Nobody} :
              /\ ToSet(inFlightWaiters') = ToSet(inFlightWaiters) \ {h}
              /\ slotCont' = (slotCont \ {r}) \ {h}
              /\ ToSet(ready') \subseteq ToSet(queue) \cup ((slotCont \ {r}) \cap {h})
    BY <2>12
  <2>14. \A d \in ToSet(ready') \cap Callers : d \in ToSet(ready) \/ Resumable(d)'
    <3>1. SUFFICES ASSUME NEW d \in ToSet(ready') \cap Callers, d \notin ToSet(ready)
                   PROVE  Resumable(d)'
      OBVIOUS
    <3>2. CASE d = r /\ parked
      <4>1. CASE r \in slotCont
        <5>1. pc'[r] = "slotParked" /\ r \notin slotCont'
          BY <1>3, <2>13, <4>1 DEF QueueInv, SlotQueue
        <5> QED BY <3>2, <5>1 DEF Resumable
      <4> QED BY <2>7, <3>2, <4>1
    <3>3. CASE d # r
      <4>1. d \in slotCont /\ d = h
        BY <2>8, <2>13, <3>1, <3>3
      <4>2. pc'[d] = "slotParked" /\ d \notin slotCont'
        BY <1>2, <1>3, <2>13, <3>3, <4>1 DEF QueueInv, SlotQueue
      <4> QED BY <4>2 DEF Resumable
    <3> QED BY <2>10, <2>13, <3>1, <3>2, <3>3
  <2>15. slotCont' \subseteq slotCont /\ slotCont' \subseteq ToSet(inFlightWaiters')
    BY <1>5, <2>13
  <2>16. /\ ToSet(inFlightWaiters') \subseteq ToSet(inFlightWaiters)
         /\ \A d \in ToSet(inFlightWaiters') :
              d \in slotCont => d \in slotCont' \/ settled'[d] # "none"
    BY <1>4, <2>13
  <2>17. roomCont' \subseteq roomCont /\ cancelled \subseteq cancelled'
    BY <1>1, <2>1
  <2> QED BY <1>2, <1>3, <1>4, <2>3, <2>12, <2>14, <2>15, <2>16, <2>17, EventKeeps
<1> QED BY <1>6, <1>7
(* A response. *)
LEMMA ResponseQueues ==
  ASSUME ConnInv, QueueInv, NEW r \in Requests, NEW p \in Requests, RecvResponse(r, p)
  PROVE  QueueInv'
<1> DEFINE parked == p \in AwaitersIn({p}) \cup GatedIn({p})
           queue == IF parked THEN Append(ready, p) ELSE ready
<1>1. /\ settled' = [settled EXCEPT ![p] = IF @ = "none" THEN "response" ELSE @]
      /\ UNCHANGED <<cancelled, roomWaiters, roomCont>>
      /\ chanSenders' = IF p \in GatedIn({p}) THEN Without(chanSenders, p) ELSE chanSenders
      /\ pc' = IF p \in GatedIn({p}) THEN [pc EXCEPT ![p] = "chanGate"] ELSE pc
      /\ WakeOneInFlightWaiter(inFlightWaiters, slotCont, queue)
  BY DEF RecvResponse, roomVars
<1>2. /\ pc \in [Coroutines -> Points] /\ settled \in [Requests -> Settlements]
      /\ inFlightWaiters \in Seq(Requests) /\ ToSet(inFlightWaiters) \subseteq Requests
      /\ slotCont \subseteq Requests /\ roomCont \subseteq Requests
      /\ Requests \subseteq Callers /\ Callers \subseteq Coroutines
      /\ ready \in Seq(Coroutines) /\ p \in Coroutines /\ p \in Callers
  BY QueueTypes
<1>3. /\ pc' = pc \/ (pc' = [pc EXCEPT ![p] = "chanGate"] /\ pc[p] = "chanParked")
      /\ ToSet(chanSenders') = IF pc' = pc THEN ToSet(chanSenders) ELSE ToSet(chanSenders) \ {p}
      /\ DistinctIn(chanSenders', Callers)
      /\ \A d \in Callers \ {p} : pc'[d] = pc[d]
      /\ p \in GatedIn({p}) => pc'[p] = "chanGate"
  BY <1>1, GateQueues
<1>4. settled'[p] # "none" /\ \A d \in Requests : settled[d] # "none" => settled'[d] # "none"
  BY <1>1, <1>2
<1>5. /\ DistinctIn(inFlightWaiters, Callers) /\ DistinctIn(roomWaiters, Callers)
      /\ DistinctIn(ready, Callers) /\ slotCont \subseteq ToSet(inFlightWaiters)
  BY DEF QueueInv, SlotQueue, RoomQueue, ReadyQueue
<1>6. parked => p \notin ToSet(ready) /\ p \notin slotCont
  BY <1>2 DEF QueueInv, SlotQueue, ReadyQueue, Resumable, AwaitersIn, GatedIn
<1>7. Append(ready, p) \in Seq(Coroutines)
  BY <1>2, AppendFacts
<1>8. /\ ToSet(Append(ready, p)) = ToSet(ready) \cup {p}
      /\ p \notin ToSet(ready) => DistinctIn(Append(ready, p), Callers)
  BY <1>2, <1>5, AppendQueue
<1>9. parked => Resumable(p)'
  <2>1. ASSUME p \in AwaitersIn({p}) PROVE Resumable(p)'
    BY <1>2, <1>3, <1>4, <2>1 DEF AwaitersIn, Resumable
  <2>2. ASSUME p \in GatedIn({p}) PROVE Resumable(p)'
    BY <1>3, <2>2 DEF Resumable
  <2> QED BY <2>1, <2>2
<1>10. /\ queue \in Seq(Coroutines) /\ DistinctIn(queue, Callers)
       /\ ToSet(queue) \subseteq ToSet(ready) \cup {p}
       /\ p \in ToSet(queue) => p \in ToSet(ready) \/ parked
  <2>1. CASE parked
    BY <1>6, <1>7, <1>8, <2>1
  <2>2. CASE ~parked
    BY <1>2, <1>5, <2>2
  <2> QED BY <2>1, <2>2
<1> HIDE DEF parked
<1>11. slotCont \cap ToSet(queue) = {}
  <2>1. slotCont \cap ToSet(ready) = {}
    BY <1>2 DEF QueueInv, SlotQueue, ReadyQueue, Resumable
  <2> HIDE DEF queue
  <2> QED BY <1>6, <1>10, <2>1
<1> HIDE DEF queue
<1>12. /\ DistinctIn(inFlightWaiters', Callers) /\ DistinctIn(ready', Callers)
       /\ \E h \in Requests \cup {Nobody} :
            /\ ToSet(inFlightWaiters') = ToSet(inFlightWaiters) \ {h}
            /\ slotCont' = slotCont \ {h}
            /\ ToSet(ready') \subseteq ToSet(queue) \cup (slotCont \cap {h})
  BY <1>1, <1>2, <1>5, <1>10, <1>11, WakeQueue
<1>13. PICK h \in Requests \cup {Nobody} :
            /\ ToSet(inFlightWaiters') = ToSet(inFlightWaiters) \ {h}
            /\ slotCont' = slotCont \ {h}
            /\ ToSet(ready') \subseteq ToSet(queue) \cup (slotCont \cap {h})
  BY <1>12
<1>14. \A d \in ToSet(ready') \cap Callers : d \in ToSet(ready) \/ Resumable(d)'
  <2>1. SUFFICES ASSUME NEW d \in ToSet(ready') \cap Callers, d \notin ToSet(ready)
                 PROVE  Resumable(d)'
    OBVIOUS
  <2>2. CASE d \in slotCont \cap {h}
    <3>1. pc[d] = "slotParked" /\ d \notin slotCont'
      BY <1>13, <2>2 DEF QueueInv, SlotQueue
    <3>2. pc'[d] = "slotParked"
      BY <1>3, <2>1, <3>1
    <3> QED BY <3>1, <3>2 DEF Resumable
  <2>3. CASE d \in ToSet(queue)
    BY <1>9, <1>10, <2>1, <2>3
  <2> QED BY <1>13, <2>1, <2>2, <2>3
<1>15. /\ slotCont' \subseteq slotCont /\ slotCont' \subseteq ToSet(inFlightWaiters')
       /\ ToSet(inFlightWaiters') \subseteq ToSet(inFlightWaiters)
       /\ \A d \in ToSet(inFlightWaiters') :
            d \in slotCont => d \in slotCont' \/ settled'[d] # "none"
  BY <1>5, <1>13
<1> QED BY <1>1, <1>2, <1>3, <1>4, <1>5, <1>12, <1>14, <1>15, EventKeeps

(* A cancellation. *)
LEMMA CancelQueues ==
  ASSUME ConnInv, QueueInv, NEW c \in Callers, Cancel(c)
  PROVE  QueueInv'
<1> DEFINE inSlot == c \in slotCont
           inRoom == c \in ToSet(roomWaiters)
           inChan == pc[c] = "chanParked"
           inAwait == c \in Requests /\ c \in AwaitersIn({c} \cap Requests)
<1>1. /\ c \notin cancelled /\ cancelled' = cancelled \cup {c} /\ UNCHANGED settled
      /\ inFlightWaiters' = IF inSlot THEN Without(inFlightWaiters, c) ELSE inFlightWaiters
      /\ slotCont' = slotCont \ {c}
      /\ roomWaiters' = IF inRoom THEN Without(roomWaiters, c) ELSE roomWaiters
      /\ roomCont' = IF inRoom THEN roomCont \ {c} ELSE roomCont
      /\ chanSenders' = IF inChan THEN Without(chanSenders, c) ELSE chanSenders
      /\ pc' = IF inChan THEN [pc EXCEPT ![c] = "chanGate"] ELSE pc
      /\ ready' = IF inSlot \/ inRoom \/ inChan \/ inAwait THEN Append(ready, c) ELSE ready
  BY DEF Cancel
<1>2. /\ pc \in [Coroutines -> Points] /\ settled \in [Requests -> Settlements]
      /\ inFlightWaiters \in Seq(Requests) /\ ToSet(inFlightWaiters) \subseteq Requests
      /\ roomWaiters \in Seq(Callers) /\ chanSenders \in Seq(Callers)
      /\ slotCont \subseteq Requests /\ roomCont \subseteq Requests
      /\ Requests \subseteq Callers /\ Callers \subseteq Coroutines
      /\ ready \in Seq(Coroutines) /\ c \in Coroutines
  BY QueueTypes
<1>3. /\ DistinctIn(inFlightWaiters, Callers) /\ DistinctIn(roomWaiters, Callers)
      /\ DistinctIn(chanSenders, Callers) /\ DistinctIn(ready, Callers)
      /\ slotCont \subseteq ToSet(inFlightWaiters)
  BY DEF QueueInv, SlotQueue, RoomQueue, ChanQueue, ReadyQueue
<1>4. /\ ToSet(inFlightWaiters') = IF inSlot THEN ToSet(inFlightWaiters) \ {c} ELSE ToSet(inFlightWaiters)
      /\ DistinctIn(inFlightWaiters', Callers)
  <2>1. /\ ToSet(Without(inFlightWaiters, c)) = ToSet(inFlightWaiters) \ {c}
        /\ DistinctIn(Without(inFlightWaiters, c), Callers)
    BY <1>2, <1>3, WithoutQueue
  <2> QED BY <1>1, <1>3, <2>1
<1>5. /\ ToSet(roomWaiters') = ToSet(roomWaiters) \ {c}
      /\ DistinctIn(roomWaiters', Callers)
  <2>1. /\ ToSet(Without(roomWaiters, c)) = ToSet(roomWaiters) \ {c}
        /\ DistinctIn(Without(roomWaiters, c), Callers)
    BY <1>2, <1>3, WithoutQueue
  <2> QED BY <1>1, <1>3, <2>1
<1>6. /\ ToSet(chanSenders') = IF inChan THEN ToSet(chanSenders) \ {c} ELSE ToSet(chanSenders)
      /\ DistinctIn(chanSenders', Callers)
  <2>1. /\ ToSet(Without(chanSenders, c)) = ToSet(chanSenders) \ {c}
        /\ DistinctIn(Without(chanSenders, c), Callers)
    BY <1>2, <1>3, WithoutQueue
  <2> QED BY <1>1, <1>3, <2>1
<1>7. inSlot \/ inRoom \/ inChan \/ inAwait => c \notin ToSet(ready)
  BY <1>1, <1>2 DEF QueueInv, SlotQueue, RoomQueue, ReadyQueue, Resumable, AwaitersIn
<1>8. /\ ToSet(Append(ready, c)) = ToSet(ready) \cup {c}
      /\ c \notin ToSet(ready) => DistinctIn(Append(ready, c), Callers)
  BY <1>2, <1>3, AppendQueue
<1>9. DistinctIn(ready', Callers)
  BY <1>1, <1>3, <1>7, <1>8
<1>10. pc'[c] = (IF inChan THEN "chanGate" ELSE pc[c]) /\ (~inChan => pc' = pc)
  BY <1>1, <1>2
<1>11. inSlot \/ inRoom \/ inChan \/ inAwait => Resumable(c)'
  <2>1. ASSUME inSlot PROVE Resumable(c)'
    BY <1>1, <1>10, <2>1 DEF QueueInv, SlotQueue, Resumable
  <2>2. ASSUME inRoom PROVE Resumable(c)'
    BY <1>5, <1>10, <2>2 DEF QueueInv, RoomQueue, Resumable
  <2>3. ASSUME inChan PROVE Resumable(c)'
    BY <1>10, <2>3 DEF Resumable
  <2>4. ASSUME inAwait PROVE Resumable(c)'
    BY <1>1, <1>10, <2>4 DEF AwaitersIn, Resumable
  <2> QED BY <2>1, <2>2, <2>3, <2>4
<1>12. \A d \in ToSet(ready') \cap Callers : d \in ToSet(ready) \/ Resumable(d)'
  BY <1>1, <1>8, <1>11
<1>13. /\ pc' = pc \/ (pc' = [pc EXCEPT ![c] = "chanGate"] /\ pc[c] = "chanParked")
       /\ ToSet(chanSenders') = IF pc' = pc THEN ToSet(chanSenders) ELSE ToSet(chanSenders) \ {c}
  <2>1. CASE inChan
    <3>1. pc' # pc
      BY <1>10, <2>1
    <3> QED BY <1>1, <1>6, <2>1, <3>1
  <2>2. CASE ~inChan
    BY <1>6, <1>10, <2>2
  <2> QED BY <2>1, <2>2
<1>14. /\ slotCont' \subseteq slotCont /\ slotCont' \subseteq ToSet(inFlightWaiters')
       /\ ToSet(inFlightWaiters') \subseteq ToSet(inFlightWaiters)
       /\ \A d \in ToSet(inFlightWaiters') :
            d \in slotCont => d \in slotCont' \/ settled'[d] # "none"
  BY <1>1, <1>3, <1>4
<1>15. /\ ToSet(roomWaiters') \subseteq ToSet(roomWaiters) /\ roomCont' \subseteq roomCont
       /\ cancelled \subseteq cancelled'
       /\ \A d \in Requests : settled[d] # "none" => settled'[d] # "none"
  BY <1>1, <1>5
<1> HIDE DEF inSlot, inRoom, inChan, inAwait
<1> QED BY <1>4, <1>5, <1>6, <1>9, <1>12, <1>13, <1>14, <1>15, EventKeeps

(* The write loop takes a packet and a suspended sender moves up. *)
LEMMA MoveUpQueues ==
  ASSUME ConnInv, QueueInv, LoopTakes, loopPacket = Nobody, chanSenders # <<>>
  PROVE  QueueInv'
<1>0. PICK h : h = Head(chanSenders)
  OBVIOUS
<1>1. /\ pc' = [pc EXCEPT ![Writer] = "write", ![h] = "chanSent"]
      /\ chanSenders' = Tail(chanSenders) /\ ready' = Append(ready, h)
      /\ UNCHANGED <<inFlightWaiters, slotCont, roomWaiters, roomCont, settled, cancelled>>
  BY <1>0 DEF LoopTakes, registryVars, roomVars
<1>2. /\ pc \in [Coroutines -> Points] /\ chanSenders \in Seq(Callers)
      /\ ToSet(inFlightWaiters) \subseteq Requests
      /\ ToSet(roomWaiters) \subseteq Callers /\ ToSet(chanSenders) \subseteq Callers
      /\ slotCont \subseteq Requests /\ roomCont \subseteq Requests
      /\ Requests \subseteq Callers /\ Callers \subseteq Coroutines
      /\ ready \in Seq(Coroutines) /\ Writer \in Coroutines /\ Writer \notin Callers
  BY QueueTypes
<1>3. /\ DistinctIn(Tail(chanSenders), Callers) /\ h \in ToSet(chanSenders)
      /\ ToSet(Tail(chanSenders)) \cap Callers = (ToSet(chanSenders) \cap Callers) \ {h}
  BY <1>0, <1>2, TailQueue DEF QueueInv, ChanQueue
<1>4. ToSet(Tail(chanSenders)) \subseteq Callers
  <2>1. Tail(chanSenders) \in Seq(Callers)
    BY <1>2, TailFacts
  <2> QED BY <2>1, ToSetType
<1>5. h \in Callers /\ pc[h] = "chanParked"
  BY <1>2, <1>3 DEF QueueInv, ChanQueue
<1>6. h \notin ToSet(ready)
  BY <1>5 DEF QueueInv, ReadyQueue, Resumable
<1>7. ToSet(Append(ready, h)) = ToSet(ready) \cup {h} /\ DistinctIn(Append(ready, h), Callers)
  <2>1. h \in Coroutines /\ DistinctIn(ready, Callers)
    BY <1>2, <1>5 DEF QueueInv, ReadyQueue
  <2> QED BY <1>2, <1>6, <2>1, AppendQueue
<1>8. ToSet(ready') = ToSet(ready) \cup {h} /\ DistinctIn(ready', Callers)
  BY <1>1, <1>7
<1>9. ToSet(chanSenders') = ToSet(chanSenders) \ {h} /\ DistinctIn(chanSenders', Callers)
  BY <1>1, <1>2, <1>3, <1>4
<1>10. pc'[h] = "chanSent" /\ \A d \in Callers : d # h => pc'[d] = pc[d]
  BY <1>1, <1>2, <1>5
<1>11. SlotQueue' /\ RoomQueue'
  BY <1>1, <1>2, <1>5, <1>10 DEF QueueInv, SlotQueue, RoomQueue
<1>12. ChanQueue'
  BY <1>2, <1>9, <1>10 DEF QueueInv, ChanQueue
<1>13. ReadyQueue'
  <2>1. Resumable(h)'
    BY <1>10 DEF Resumable
  <2>2. ASSUME NEW d \in ToSet(ready) \cap Callers PROVE Resumable(d)'
    <3>1. Resumable(d) /\ d # h
      BY <1>6, <2>2 DEF QueueInv, ReadyQueue
    <3>2. pc'[d] = pc[d]
      BY <1>10, <2>2, <3>1
    <3>3. UNCHANGED <<slotCont, roomWaiters, settled, cancelled>>
      BY <1>1
    <3> QED BY <3>1, <3>2, <3>3 DEF Resumable
  <2> QED BY <1>8, <2>1, <2>2 DEF ReadyQueue
<1> QED BY <1>11, <1>12, <1>13 DEF QueueInv

(* A cancelled writer hands over; a socket takes a chunk. *)
LEMMA HandOffQueues ==
  ASSUME ConnInv, QueueInv, NEW c \in Callers, WriteCancelled(c)
  PROVE  QueueInv'
<1> USE DEF registryVars, roomVars, pathVars
<1>1. /\ pc[c] = "write"
      /\ UNCHANGED <<inFlightWaiters, slotCont, roomWaiters, roomCont, chanSenders, settled,
                     cancelled>>
      /\ ready' = ready \/ ready' = Append(ready, Writer)
  BY DEF WriteCancelled, HandOff
<1>2. /\ pc \in [Coroutines -> Points] /\ Callers \subseteq Coroutines
      /\ ready \in Seq(Coroutines) /\ Writer \in Coroutines /\ Writer \notin Callers
      /\ ToSet(roomWaiters) \subseteq Callers
  BY QueueTypes
<1>3. c \in Coroutines /\ pc[c] \in AwakePoints
  BY <1>1, <1>2 DEF AwakePoints
<1>4. /\ c \notin ToSet(roomWaiters) /\ c \notin ToSet(chanSenders) /\ c \notin slotCont
      /\ c \notin ToSet(ready) \cap Callers /\ c \notin ToSet(inFlightWaiters) /\ c \notin roomCont
  BY <1>1, <1>3, Unqueued
<1>5. \A d \in Callers \ {c} : pc'[d] = pc[d]
  <2>1. \/ pc' = [pc EXCEPT ![c] = "finally", ![Writer] = "start"]
        \/ pc' = [pc EXCEPT ![c] = "finally"]
    BY DEF WriteCancelled, HandOff
  <2>2. CASE pc' = [pc EXCEPT ![c] = "finally", ![Writer] = "start"]
    BY <1>2, <2>2
  <2>3. CASE pc' = [pc EXCEPT ![c] = "finally"]
    BY <1>2, <2>3
  <2> QED BY <2>1, <2>2, <2>3
<1>6. DistinctIn(ready', Callers) /\ ToSet(ready') \cap Callers = ToSet(ready) \cap Callers
  <2>1. /\ ToSet(Append(ready, Writer)) = ToSet(ready) \cup {Writer}
        /\ DistinctIn(Append(ready, Writer), Callers)
    BY <1>2, AppendQueue DEF QueueInv, ReadyQueue
  <2>2. DistinctIn(ready, Callers)
    BY DEF QueueInv, ReadyQueue
  <2>3. CASE ready' = ready
    BY <2>2, <2>3
  <2>4. CASE ready' = Append(ready, Writer)
    BY <1>2, <2>1, <2>4
  <2> QED BY <1>1, <2>3, <2>4
<1>7. DistinctIn(roomWaiters', Callers) /\ ToSet(roomWaiters') = ToSet(roomWaiters) \ {Writer}
  BY <1>1, <1>2 DEF QueueInv, RoomQueue
<1>8. ToSet(ready') \cap Callers \subseteq (ToSet(ready) \ {c}) \cup (ToSet(roomWaiters) \cap {Writer})
  BY <1>4, <1>6
<1> QED BY <1>1, <1>3, <1>4, <1>5, <1>6, <1>7, <1>8, MoveKeeps
(* shutdown(), called by nobody in the queues: the queues are emptied and  *)
(* every caller that was parked in one is resumed, once.                   *)
LEMMA ShutdownQueues ==
  ASSUME ConnInv, QueueInv, NEW points \in [Coroutines -> Points], Shutdown(points),
         NEW c \in Coroutines, c \in Callers => pc[c] \in AwakePoints,
         \A d \in Callers \ {c} : points[d] = pc[d],
         c \in Callers => points[c] \in {pc[c], "finally"}
  PROVE  QueueInv'
<1> DEFINE gated == GatedIn(pending)
           parked == AwaitersIn(pending) \cup gated \cup ToSet(roomWaiters)
                       \cup (slotCont \cap ToSet(inFlightWaiters))
<1>1. /\ inFlightWaiters \in Seq(Requests) /\ ToSet(inFlightWaiters) \subseteq Requests
      /\ ToSet(roomWaiters) \subseteq Callers /\ ToSet(chanSenders) \subseteq Callers
      /\ slotCont \subseteq Requests /\ roomCont \subseteq Requests /\ pending \subseteq Requests
      /\ Requests \subseteq Callers /\ Callers \subseteq Coroutines
      /\ ready \in Seq(Coroutines) /\ settled \in [Requests -> Settlements]
      /\ Writer \notin Callers
  BY QueueTypes
<1>2. parked \subseteq Callers
  <2>1. AwaitersIn(pending) \subseteq pending /\ gated \subseteq pending
    BY DEF AwaitersIn, GatedIn
  <2> QED BY <1>1, <2>1
<1>3. IsFiniteSet(parked)
  <2>1. IsFiniteSet(Callers)
    BY CallersAssumption, FS_Union DEF Callers
  <2> HIDE DEF parked
  <2> QED BY <1>2, <2>1, FS_Subset
<1>4. /\ inFlightWaiters' = <<>> /\ roomWaiters' = <<>> /\ chanSenders' = <<>>
      /\ slotCont' = slotCont \ ToSet(inFlightWaiters)
      /\ UNCHANGED <<cancelled, roomCont>>
  BY DEF Shutdown
<1>5. /\ ToSet(inFlightWaiters') = {} /\ ToSet(roomWaiters') = {} /\ ToSet(chanSenders') = {}
      /\ DistinctIn(inFlightWaiters', Callers) /\ DistinctIn(roomWaiters', Callers)
      /\ DistinctIn(chanSenders', Callers)
  BY <1>4, EmptyQueue
<1>6. slotCont' = {}
  BY <1>4 DEF QueueInv, SlotQueue
<1>7. PICK order \in SetToSeqs(parked) : ready' = ready \o order
  BY DEF Shutdown
<1>8. ASSUME NEW d \in ToSet(ready) \cap Callers PROVE d \notin parked /\ d # c
  <2>1. Resumable(d)
    BY <1>8 DEF QueueInv, ReadyQueue
  <2>2. d \notin ToSet(roomWaiters)
    BY <2>1 DEF QueueInv, RoomQueue, Resumable
  <2>3. d \notin slotCont
    BY <2>1 DEF QueueInv, SlotQueue, Resumable
  <2>4. d \notin AwaitersIn(pending) /\ d \notin gated
    BY <2>1 DEF AwaitersIn, GatedIn, Resumable
  <2>5. c \in Callers => d # c
    BY <1>8, Unqueued
  <2> QED BY <1>8, <2>2, <2>3, <2>4, <2>5
<1>9. ASSUME NEW d \in parked PROVE d \in Callers /\ d # c
  <2>1. d \in Callers
    BY <1>2
  <2>2. d \in AwaitersIn(pending) \cup gated => pc[d] \notin AwakePoints
    BY DEF AwaitersIn, GatedIn, AwakePoints
  <2>3. c \in Callers => d # c
    BY <1>9, <2>2, Unqueued
  <2> QED BY <2>1, <2>3
<1>10. /\ ToSet(ready') \subseteq ToSet(ready) \cup parked
       /\ DistinctIn(ready', Callers)
  <2> HIDE DEF parked
  <2>1. DistinctIn(ready, Callers) /\ ToSet(ready) \cap Callers \cap parked = {}
    BY <1>8 DEF QueueInv, ReadyQueue
  <2>2. parked \subseteq Coroutines
    BY <1>1, <1>2
  <2>3. /\ ToSet(ready \o order) \subseteq ToSet(ready) \cup parked
        /\ DistinctIn(ready \o order, Callers)
    BY <1>1, <1>3, <2>1, <2>2, ConcatQueue
  <2> QED BY <1>7, <2>3
<1>11. ASSUME NEW d \in Callers
       PROVE  pc'[d] = IF d \in ToSet(roomWaiters) THEN "roomFailed"
                       ELSE IF d \in gated THEN "chanGate" ELSE points[d]
  <2>1. d \in Coroutines /\ d # Writer
    BY <1>1
  <2>2. pc' = [e \in Coroutines |->
                  CASE e \in ToSet(roomWaiters) -> "roomFailed"
                    [] e \in gated -> "chanGate"
                    [] e = Writer /\ WriteMode = "CHANNEL" -> "dead"
                    [] OTHER -> points[e]]
    BY DEF Shutdown
  <2>3. d \in ToSet(roomWaiters) => d \notin gated
    BY DEF QueueInv, RoomQueue, GatedIn
  <2> HIDE DEF gated
  <2> QED BY <2>1, <2>2, <2>3
<1>12. \A r \in Requests : settled[r] # "none" => settled'[r] # "none"
  BY DEF Shutdown
<1>13. \A r \in pending : settled'[r] # "none"
  BY <1>1 DEF Shutdown
<1>14. SlotQueue' /\ ChanQueue'
  BY <1>5, <1>6 DEF SlotQueue, ChanQueue
<1>15. RoomQueue'
  <2>1. ASSUME NEW r \in roomCont
        PROVE  pc'[r] \in {"roomParked", "roomFailed", "finally", "done"}
    <3>1. r \in Callers /\ pc[r] \in {"roomParked", "roomFailed", "finally", "done"}
      BY <1>1 DEF QueueInv, RoomQueue
    <3>2. r \notin gated
      BY <3>1 DEF GatedIn
    <3>3. points[r] \in {pc[r], "finally"}
      BY <3>1
    <3> HIDE DEF gated
    <3> QED BY <1>11, <3>1, <3>2, <3>3
  <2> QED BY <1>4, <1>5, <2>1 DEF RoomQueue
<1>16. ASSUME NEW d \in ToSet(ready') \cap Callers PROVE Resumable(d)'
  <2>1. CASE d \in ToSet(ready)
    <3>1. Resumable(d) /\ d \notin parked /\ d # c
      BY <1>8, <1>16, <2>1 DEF QueueInv, ReadyQueue
    <3>2. pc'[d] = pc[d]
      BY <1>11, <1>16, <3>1
    <3>3. CASE pc[d] = "awaitParked"
      <4>1. d \in Requests /\ (settled[d] # "none" \/ d \in cancelled)
        BY <3>1, <3>3 DEF Resumable
      <4>2. settled'[d] # "none" \/ d \in cancelled'
        BY <1>4, <1>12, <4>1
      <4> QED BY <3>2, <3>3, <4>1, <4>2 DEF Resumable
    <3>4. CASE pc[d] # "awaitParked"
      BY <1>5, <1>6, <3>1, <3>2, <3>4 DEF Resumable
    <3> QED BY <3>3, <3>4
  <2>2. CASE d \in ToSet(roomWaiters) \cup gated
    BY <1>11, <1>16, <2>2 DEF Resumable
  <2>3. CASE d \in AwaitersIn(pending) /\ d \notin ToSet(roomWaiters) \cup gated
    <3>1. d \in pending /\ pc[d] = "awaitParked"
      BY <2>3 DEF AwaitersIn
    <3>2. d # c /\ d \in Requests
      BY <1>1, <1>9, <2>3, <3>1
    <3>3. pc'[d] = "awaitParked" /\ settled'[d] # "none"
      BY <1>11, <1>13, <1>16, <2>3, <3>1, <3>2
    <3> QED BY <3>2, <3>3 DEF Resumable
  <2>4. CASE d \in slotCont \cap ToSet(inFlightWaiters) /\ d \notin ToSet(roomWaiters) \cup gated
    <3>1. pc[d] = "slotParked" /\ d # c
      BY <1>9, <2>4 DEF QueueInv, SlotQueue
    <3>2. pc'[d] = "slotParked"
      BY <1>11, <1>16, <2>4, <3>1
    <3> QED BY <1>6, <3>2 DEF Resumable
  <2> QED BY <1>10, <1>16, <2>1, <2>2, <2>3, <2>4
<1>17. ReadyQueue'
  BY <1>10, <1>16 DEF ReadyQueue
<1> QED BY <1>14, <1>15, <1>17 DEF QueueInv

(* The socket takes a chunk, a write fails, the connection closes. *)
LEMMA CloseQueues ==
  ASSUME ConnInv, QueueInv,
         \/ SocketWrite
         \/ Close
         \/ \E c \in Coroutines : WriteFails(c)
  PROVE  QueueInv'
<1> USE DEF registryVars, roomVars, pathVars
<1>1. /\ pc \in [Coroutines -> Points] /\ Writer \in Coroutines /\ Writer \notin Callers
      /\ Callers \subseteq Coroutines
  BY QueueTypes
<1>2. CASE SocketWrite
  BY <1>2 DEF SocketWrite, reactorVars, QueueInv, SlotQueue, RoomQueue, ChanQueue, ReadyQueue, Resumable
<1>3. CASE Close
  <2>1. Shutdown(pc)
    BY <1>3 DEF Close
  <2> QED BY <1>1, <2>1, ShutdownQueues
<1>4. ASSUME NEW c \in Coroutines, WriteFails(c) PROVE QueueInv'
  <2> DEFINE next == [pc EXCEPT ![c] = IF c = Writer THEN "idle" ELSE "finally"]
  <2>1. pc[c] = "write" /\ "idle" \in Points /\ "finally" \in Points
    BY <1>4 DEF WriteFails, Points
  <2>2. pc[c] \in AwakePoints
    BY <2>1 DEF AwakePoints
  <2>3. CASE closed
    <3>1. /\ pc' = next
          /\ UNCHANGED <<inFlightWaiters, slotCont, roomWaiters, roomCont, chanSenders, settled,
                         cancelled, ready>>
      BY <1>4, <2>3 DEF WriteFails
    <3>2. c \notin ToSet(inFlightWaiters) /\ c \notin roomCont
      BY <2>1, <2>2, Unqueued
    <3> QED BY <2>2, <3>1, <3>2, AwakeMove
  <2>4. CASE ~closed
    <3>1. Shutdown(next)
      BY <1>4, <2>4 DEF WriteFails
    <3>2. /\ next \in [Coroutines -> Points]
          /\ \A d \in Callers \ {c} : next[d] = pc[d]
          /\ c \in Callers => next[c] \in {pc[c], "finally"}
      BY <1>1, <2>1
    <3> HIDE DEF next
    <3> QED BY <2>2, <3>1, <3>2, ShutdownQueues
  <2> QED BY <2>3, <2>4
<1> QED BY <1>2, <1>3, <1>4
(* The queues at the start, and at every step. *)
LEMMA QueueInvInit == Init => QueueInv
<1> SUFFICES ASSUME Init PROVE QueueInv
  OBVIOUS
<1>1. /\ inFlightWaiters = <<>> /\ roomWaiters = <<>> /\ chanSenders = <<>>
      /\ slotCont = {} /\ roomCont = {} /\ (ready = <<>> \/ ready = <<Writer>>)
  BY DEF Init
<1>2. /\ ToSet(inFlightWaiters) = {} /\ ToSet(roomWaiters) = {} /\ ToSet(chanSenders) = {}
      /\ DistinctIn(inFlightWaiters, Callers) /\ DistinctIn(roomWaiters, Callers)
      /\ DistinctIn(chanSenders, Callers)
  BY <1>1, EmptyQueue
<1>3. DistinctIn(ready, Callers) /\ ToSet(ready) \cap Callers = {}
  <2>1. CASE ready = <<>>
    BY <2>1, EmptyQueue
  <2>2. CASE ready = <<Writer>>
    BY <2>2, CallersAssumption DEF DistinctIn, ToSet
  <2> QED BY <1>1, <2>1, <2>2
<1> QED BY <1>1, <1>2, <1>3 DEF QueueInv, SlotQueue, RoomQueue, ChanQueue, ReadyQueue

LEMMA QueueInvStep == ConnInv /\ QueueInv /\ [Next]_vars => QueueInv'
<1> SUFFICES ASSUME ConnInv, QueueInv, [Next]_vars PROVE QueueInv'
  OBVIOUS
<1>1. CASE Reactor
  <2>1. ASSUME NEW c \in Coroutines, Run(c) \/ RunDead(c) PROVE QueueInv'
    BY <2>1, RunQueues
  <2>2. ASSUME NEW r \in Requests, SlotTaken(r) \/ SlotRefused(r) \/ SlotWait(r) PROVE QueueInv'
    BY <2>2, CallQueues, SlotWaitQueues DEF Callers
  <2>3. ASSUME NEW c \in Callers,
               \/ EnqueueTooLarge(c) \/ EnqueueAborted(c) \/ EnqueueWait(c)
               \/ EnqueueInline(c) \/ EnqueueChannel(c) \/ EnqueueChannelFull(c)
               \/ RunChanWaiter(c)
        PROVE  QueueInv'
    BY <2>3, EnqueueQueues, EnqueueWaitQueues, ChanWaiterQueues
  <2>4. ASSUME NEW c \in Coroutines, DrainLeftover(c) \/ DrainNext(c) \/ DrainDone(c) PROVE QueueInv'
    BY <2>4, WriterQueues, ReleaseQueues
  <2>5. ASSUME NEW r \in Requests, AwaitSettled(r) \/ AwaitParks(r) \/ Finally(r) PROVE QueueInv'
    BY <2>5, AwaitQueues, FinallyQueues DEF Callers
  <2>6. ASSUME NEW c \in Senders, SendReturns(c) PROVE QueueInv'
    BY <2>6, AwaitQueues DEF Callers
  <2>7. CASE LoopTakes \/ LoopParks
    BY <2>7, WriterQueues, MoveUpQueues DEF Coroutines
  <2> QED BY <1>1, <2>1, <2>2, <2>3, <2>4, <2>5, <2>6, <2>7 DEF Reactor
<1>2. ASSUME NEW c \in Callers, CallClosed(c) \/ Cancel(c) \/ WriteCancelled(c) PROVE QueueInv'
  BY <1>2, CallQueues, CancelQueues, HandOffQueues
<1>3. ASSUME NEW c \in Senders, Send(c) PROVE QueueInv'
  BY <1>3, CallQueues DEF Callers
<1>4. ASSUME NEW r \in Requests, Request(r) \/ Deadline(r) PROVE QueueInv'
  BY <1>4, CallQueues, DeadlineQueues DEF Callers
<1>5. ASSUME NEW r \in Requests, NEW p \in Requests, RecvResponse(r, p) PROVE QueueInv'
  BY <1>5, ResponseQueues
<1>6. ASSUME NEW c \in Coroutines, WriteReturns(c) PROVE QueueInv'
  BY <1>6, WriterQueues, ReleaseQueues, ModeAssumption
<1>7. CASE SocketWrite \/ Close \/ \E c \in Coroutines : WriteFails(c)
  BY <1>7, CloseQueues
<1>8. CASE UNCHANGED vars
  BY <1>8 DEF vars, reactorVars, registryVars, roomVars, pathVars, QueueInv, SlotQueue, RoomQueue,
     ChanQueue, ReadyQueue, Resumable
<1> QED BY <1>1, <1>2, <1>3, <1>4, <1>5, <1>6, <1>7, <1>8 DEF Next

-----------------------------------------------------------------------------
(* How a caller moves *)

(* Where a caller is before its packet is queued, while it is suspended in *)
(* the Channel, and afterwards: the points at which a request may hold an  *)
(* in-flight slot.                                                         *)
BeforePoints == {"enqueue", "roomParked", "roomFailed"}
GatePoints == {"chanParked", "chanGate"}
AfterPoints == {"chanSent", "drain", "write", "await", "awaitParked", "finally"}
InFlightPoints == BeforePoints \cup GatePoints \cup AfterPoints

(* A caller begins once, waits for a slot, queues its packet once, and     *)
(* returns once.                                                           *)
Move(from, to) ==
  \/ from = to
  \/ from = "idle" /\ to \in {"done", "slot", "enqueue"}
  \/ from \in {"slot", "slotParked"} /\ to \in {"slot", "slotParked", "enqueue", "finally"}
  \/ from \in BeforePoints /\ to \in BeforePoints \cup (AfterPoints \ {"chanSent"})
  \/ from \in BeforePoints /\ to = "chanParked" /\ WriteMode = "CHANNEL"
  \/ from \in GatePoints /\ to \in GatePoints \cup {"chanSent", "await", "finally"}
  \/ from \in AfterPoints /\ to \in AfterPoints \ {"chanSent"}
  \/ from = "finally" /\ to = "done"

LEMMA OneMove ==
  ASSUME ConnInv, NEW c \in Coroutines, NEW p, pc' = [pc EXCEPT ![c] = p],
         c \in Callers => Move(pc[c], p)
  PROVE  \A d \in Callers : Move(pc[d], pc'[d])
<1>1. pc \in [Coroutines -> Points] /\ Callers \subseteq Coroutines
  BY QueueTypes
<1>2. ASSUME NEW d \in Callers PROVE Move(pc[d], pc'[d])
  <2>1. CASE d = c
    BY <1>1, <2>1
  <2>2. CASE d # c
    BY <1>1, <2>2 DEF Move
  <2> QED BY <2>1, <2>2
<1> QED BY <1>2

LEMMA CallerMoves ==
  ASSUME ConnInv, QueueInv, [Next]_vars
  PROVE  \A d \in Callers : Move(pc[d], pc'[d])
<1>0. /\ pc \in [Coroutines -> Points] /\ Callers \subseteq Coroutines /\ Requests \subseteq Callers
      /\ Senders \subseteq Callers /\ Writer \in Coroutines /\ Writer \notin Callers
  BY QueueTypes DEF Callers
<1>1. ASSUME NEW c \in Callers,
             \/ CallClosed(c) \/ Send(c) \/ Request(c)
             \/ SlotTaken(c) \/ SlotRefused(c) \/ SlotWait(c)
      PROVE  \A d \in Callers : Move(pc[d], pc'[d])
  <2>1. \E p : pc' = [pc EXCEPT ![c] = p] /\ Move(pc[c], p)
    BY <1>1 DEF CallClosed, Send, Request, SlotTaken, SlotRefused, SlotWait, Running, GoTo, Finish, Move
  <2> QED BY <1>0, <2>1, OneMove
<1>2. ASSUME NEW c \in Callers,
             \/ EnqueueTooLarge(c) \/ EnqueueAborted(c) \/ EnqueueWait(c)
             \/ EnqueueInline(c) \/ EnqueueChannel(c) \/ EnqueueChannelFull(c)
             \/ RunChanWaiter(c)
      PROVE  \A d \in Callers : Move(pc[d], pc'[d])
  <2>1. c # Writer
    BY <1>0
  <2>2. \E p : pc' = [pc EXCEPT ![c] = p] /\ Move(pc[c], p)
    BY <1>2, <2>1 DEF EnqueueTooLarge, EnqueueAborted, EnqueueWait, EnqueueInline, EnqueueChannel,
       EnqueueChannelFull, RunChanWaiter, Enqueuing, Running, AfterEnqueue, GoTo, Finish, Move,
       BeforePoints, GatePoints, AfterPoints
  <2> QED BY <1>0, <2>2, OneMove
<1>3. ASSUME NEW c \in Callers,
             AwaitSettled(c) \/ AwaitParks(c) \/ Finally(c) \/ SendReturns(c)
      PROVE  \A d \in Callers : Move(pc[d], pc'[d])
  <2>1. \E p : pc' = [pc EXCEPT ![c] = p] /\ Move(pc[c], p)
    BY <1>3 DEF AwaitSettled, AwaitParks, Finally, SendReturns, Return, Running, GoTo, Finish, Move,
       BeforePoints, GatePoints, AfterPoints
  <2> QED BY <1>0, <2>1, OneMove
<1>4. ASSUME NEW c \in Coroutines, Run(c) \/ RunDead(c)
      PROVE  \A d \in Callers : Move(pc[d], pc'[d])
  <2>1. CASE RunDead(c)
    BY <2>1 DEF RunDead, Move
  <2>2. CASE Run(c) /\ RunWriter(c)
    <3>1. \E p : pc' = [pc EXCEPT ![c] = p]
      BY <2>2 DEF RunWriter, GoTo
    <3>2. c \notin Callers
      BY <1>0, <2>2 DEF RunWriter
    <3> QED BY <3>1, <3>2, OneMove
  <2>3. CASE RunSlotWaiter(c) \/ RunRoomWaiter(c) \/ RunAwaiter(c)
    <3>1. \E p : pc' = [pc EXCEPT ![c] = p] /\ Move(pc[c], p)
      BY <2>3 DEF RunSlotWaiter, RunRoomWaiter, RunAwaiter, GoTo, Finish, Move, BeforePoints, GatePoints, AfterPoints
    <3> QED BY <3>1, OneMove
  <2> QED BY <1>4, <2>1, <2>2, <2>3 DEF Run
<1>5. ASSUME NEW c \in Coroutines,
             DrainLeftover(c) \/ DrainNext(c) \/ DrainDone(c) \/ WriteReturns(c)
      PROVE  \A d \in Callers : Move(pc[d], pc'[d])
  <2>1. CASE WriteReturns(c) /\ WriteMode = "CHANNEL"
    <3>1. \E p : pc' = [pc EXCEPT ![c] = p]
      BY <2>1 DEF WriteReturns, GoTo
    <3>2. c \notin Callers
      BY <2>1 DEF WriteReturns, WriteDone, ConnInv, WriteLoopAlone
    <3> QED BY <3>1, <3>2, OneMove
  <2>2. CASE DrainLeftover(c) \/ DrainNext(c) \/ DrainDone(c) \/ (WriteReturns(c) /\ WriteMode = "INLINE")
    <3>1. /\ pc[c] \in AfterPoints
          /\ \E p : pc' = [pc EXCEPT ![c] = p] /\ (c # Writer => p \in AfterPoints \ {"chanSent"})
      BY <2>2 DEF DrainLeftover, DrainNext, DrainDone, WriteReturns, WriteDone, Running,
         AfterEnqueue, GoTo, Finish, BeforePoints, GatePoints, AfterPoints
    <3>2. \E p : pc' = [pc EXCEPT ![c] = p] /\ (c \in Callers => Move(pc[c], p))
      BY <1>0, <3>1 DEF Move
    <3> QED BY <3>2, OneMove
  <2> QED BY <1>5, <2>1, <2>2, ModeAssumption
<1>6. ASSUME NEW c \in Callers,
             \/ c \in Requests /\ Deadline(c)
             \/ \E r \in Requests : c \in Requests /\ RecvResponse(r, c)
             \/ Cancel(c)
      PROVE  \A d \in Callers : Move(pc[d], pc'[d])
  <2>1. pc' = pc \/ (pc[c] = "chanParked" /\ pc' = [pc EXCEPT ![c] = "chanGate"])
    BY <1>6 DEF Deadline, RecvResponse, Cancel, GatedIn
  <2>2. CASE pc' = pc
    BY <2>2 DEF Move
  <2>3. CASE pc[c] = "chanParked" /\ pc' = [pc EXCEPT ![c] = "chanGate"]
    <3>1. Move(pc[c], "chanGate")
      BY <2>3 DEF Move, BeforePoints, GatePoints, AfterPoints
    <3> QED BY <1>0, <2>3, <3>1, OneMove
  <2> QED BY <2>1, <2>2, <2>3
<1>7. CASE LoopTakes \/ LoopParks
  <2>1. CASE \E p : pc' = [pc EXCEPT ![Writer] = p]
    BY <1>0, <2>1, OneMove
  <2>2. CASE /\ LoopTakes /\ chanSenders # <<>>
             /\ pc' = [pc EXCEPT ![Writer] = "write", ![Head(chanSenders)] = "chanSent"]
    <3>1. Head(chanSenders) \in ToSet(chanSenders)
      <4>1. chanSenders \in Seq(Callers)
        BY QueueTypes
      <4> QED BY <2>2, <4>1, TailQueue
    <3>2. PICK h : h = Head(chanSenders)
      OBVIOUS
    <3>3. pc[h] = "chanParked" /\ h \in Callers
      BY <3>1, <3>2, QueueTypes DEF QueueInv, ChanQueue
    <3>4. ASSUME NEW d \in Callers PROVE Move(pc[d], pc'[d])
      <4>1. pc'[d] = IF d = h THEN "chanSent" ELSE pc[d]
        BY <1>0, <2>2, <3>2, <3>3
      <4> QED BY <3>3, <4>1 DEF Move, BeforePoints, GatePoints, AfterPoints
    <3> QED BY <3>4
  <2> QED BY <1>7, <2>1, <2>2 DEF LoopTakes, LoopParks, GoTo
<1>8. ASSUME NEW c \in Callers, WriteCancelled(c)
      PROVE  \A d \in Callers : Move(pc[d], pc'[d])
  <2>1. pc[c] = "write" /\ \/ pc' = [pc EXCEPT ![c] = "finally", ![Writer] = "start"]
                           \/ pc' = [pc EXCEPT ![c] = "finally"]
    BY <1>8 DEF WriteCancelled, HandOff
  <2>2. ASSUME NEW d \in Callers PROVE pc'[d] = IF d = c THEN "finally" ELSE pc[d]
    BY <1>0, <2>1
  <2> QED BY <2>1, <2>2 DEF Move, BeforePoints, GatePoints, AfterPoints
<1>9. ASSUME NEW points, Shutdown(points), \A d \in Callers : Move(pc[d], points[d])
      PROVE  \A d \in Callers : Move(pc[d], pc'[d])
  <2>1. SUFFICES ASSUME NEW d \in Callers PROVE Move(pc[d], pc'[d])
    OBVIOUS
  <2>2. CASE d \in ToSet(roomWaiters)
    <3>1. pc[d] = "roomParked"
      BY <2>2 DEF QueueInv, RoomQueue
    <3>2. d \notin GatedIn(pending)
      BY <3>1 DEF GatedIn
    <3>3. pc'[d] = "roomFailed"
      BY <1>0, <1>9, <2>2, <3>2 DEF Shutdown
    <3> QED BY <3>1, <3>3 DEF Move, BeforePoints, GatePoints, AfterPoints
  <2>3. CASE d \in GatedIn(pending) /\ d \notin ToSet(roomWaiters)
    <3>1. pc[d] = "chanParked"
      BY <2>3 DEF GatedIn
    <3>2. pc'[d] = "chanGate"
      BY <1>0, <1>9, <2>3 DEF Shutdown
    <3> QED BY <3>1, <3>2 DEF Move, BeforePoints, GatePoints, AfterPoints
  <2>4. CASE d \notin GatedIn(pending) /\ d \notin ToSet(roomWaiters)
    <3>1. pc'[d] = points[d]
      BY <1>0, <1>9, <2>4 DEF Shutdown
    <3> QED BY <1>9, <3>1
  <2> QED BY <2>2, <2>3, <2>4
<1>10. CASE Close
  <2>1. Shutdown(pc) /\ \A d \in Callers : Move(pc[d], pc[d])
    BY <1>10 DEF Close, Move
  <2> QED BY <1>9, <2>1
<1>11. ASSUME NEW c \in Coroutines, WriteFails(c)
       PROVE  \A d \in Callers : Move(pc[d], pc'[d])
  <2> DEFINE next == [pc EXCEPT ![c] = IF c = Writer THEN "idle" ELSE "finally"]
  <2>1. pc[c] = "write" /\ (pc' = next \/ Shutdown(next))
    BY <1>11 DEF WriteFails
  <2>2. \A d \in Callers : Move(pc[d], next[d])
    <3>1. ASSUME NEW d \in Callers PROVE next[d] = IF d = c THEN "finally" ELSE pc[d]
      BY <1>0
    <3> HIDE DEF next
    <3> QED BY <2>1, <3>1 DEF Move, BeforePoints, GatePoints, AfterPoints
  <2> HIDE DEF next
  <2> QED BY <1>9, <2>1, <2>2
<1>12. CASE SocketWrite \/ UNCHANGED vars
  BY <1>12 DEF SocketWrite, vars, reactorVars, Move
<1>13. Reactor => \A d \in Callers : Move(pc[d], pc'[d])
  BY <1>0, <1>1, <1>2, <1>3, <1>4, <1>5, <1>7 DEF Reactor
<1> QED BY <1>0, <1>1, <1>5, <1>6, <1>8, <1>10, <1>11, <1>12, <1>13 DEF Next
=============================================================================
