---------------------- MODULE ConnectionContractProofs ----------------------
(***************************************************************************)
(* Proofs about Connection: the request registry and the outbound path     *)
(* keep their promises.  Responses meet their requests, every exit         *)
(* releases everything and the registry implements RequestLifecycle; whole *)
(* packets reach the socket in the order they were queued, and queuedBytes *)
(* is exactly what is queued.  These two are about data of any length, so  *)
(* their part begins with induction in a form the provers can use: over a  *)
(* set of numbers, from the least counterexample.  Last, no waiter is left *)
(* without somebody to wake it.                                            *)
(***************************************************************************)
EXTENDS ConnectionProofs, WellFoundedInduction, SequenceTheorems

-----------------------------------------------------------------------------
(* The registry's inductive invariant *)

(* Ids are given out in order and never twice. *)
IdsGiven ==
  /\ \A r \in Requests : id[r] <= requestId
  /\ \A r \in Requests : pc[r] = "idle" => id[r] = 0
  /\ \A r \in Requests : pc[r] \notin {"idle", "done"} => id[r] # 0
  /\ \A r, s \in Requests : id[r] = id[s] /\ id[r] # 0 => r = s

(* A registry entry belongs to a request under way that nothing settled. *)
PendingAt == \A r \in pending : pc[r] \in InFlightPoints /\ settled[r] = "none"

FreshUnsettled == \A r \in Requests : pc[r] = "idle" => settled[r] = "none"

(* A caller between two suspensions is the coroutine the reactor runs, so  *)
(* nothing happens to it there.                                            *)
WorkPoints == {"slot", "enqueue", "drain", "await", "finally"}

WorkRuns == \A c \in Callers : pc[c] \in WorkPoints => running = c

(* The results a request may leave with. *)
GoodExit(r, o) ==
  \/ o \in {"cancelled", "closed"}
  \/ settled[r] = "none" /\ o = "tooLarge"
  \/ settled[r] # "none" /\ o = settled[r]

ExitAt == \A r \in Requests : pc[r] = "finally" => GoodExit(r, outcome[r])

(* A packet that is too large is refused before it waits for room. *)
RoomFit ==
  \A r \in Requests :
    /\ pc[r] = "roomParked" => ~TooLarge(r)
    /\ pc[r] = "enqueue" /\ TooLarge(r) => settled[r] = "none"

RegInv == IdsGiven /\ PendingAt /\ FreshUnsettled /\ WorkRuns /\ ExitAt /\ RoomFit /\ Correlated

(* A step the lifecycle of a request does not see. *)
QuietStep ==
  /\ UNCHANGED <<id, pending, settled>>
  /\ \A r \in Requests :
       /\ pc[r] = "idle" <=> pc'[r] = "idle"
       /\ pc[r] = "done" <=> pc'[r] = "done"
       /\ pc[r] = "done" => outcome'[r] = outcome[r]

LEMMA RegTypes ==
  ASSUME ConnInv
  PROVE  /\ pc \in [Coroutines -> Points] /\ outcome \in [Callers -> Outcomes]
         /\ settled \in [Requests -> Settlements] /\ id \in [Requests -> 0 .. IdMax]
         /\ answer \in [Requests -> Requests \cup {Nobody}]
         /\ requestId \in 0 .. IdMax /\ IdMax \in Nat
         /\ pending \subseteq Requests /\ slotCont \subseteq Requests
         /\ Requests \subseteq Callers /\ Senders \subseteq Callers
         /\ Callers \subseteq Coroutines /\ Requests \cap Senders = {}
         /\ Writer \in Coroutines /\ Writer \notin Callers /\ Nobody \notin Callers
         /\ Writer # Nobody
  BY CallersAssumption, LimitsAssumption DEF ConnInv, TypeOK, ReactorType, RegistryType, Callers,
     Coroutines, Writer, Nobody

-----------------------------------------------------------------------------
(* Steps that leave the registry alone *)

(* The coroutine c advances to p while no other caller is at work. *)
LEMMA Advance ==
  ASSUME ConnInv, RegInv, NEW c \in Coroutines,
         \A d \in Callers \ {c} : pc'[d] = pc[d],
         UNCHANGED <<requestId, id, pending, settled, answer>>,
         running \in {c, Writer, Nobody},
         \A r \in Requests \ {c} : outcome'[r] = outcome[r],
         c \in Callers => /\ Move(pc[c], pc'[c])
                          /\ pc'[c] \in WorkPoints => running' = c,
         c \in Requests => /\ pc[c] \notin {"idle", "finally", "done"}
                           /\ pc'[c] = "finally" => GoodExit(c, outcome'[c])
                           /\ pc'[c] = "roomParked" => ~TooLarge(c)
                           /\ pc'[c] = "enqueue" => ~TooLarge(c) \/ settled[c] = "none"
  PROVE  RegInv' /\ QuietStep
<1>0. Requests \subseteq Callers /\ Writer \notin Callers /\ Nobody \notin Callers
  BY RegTypes
<1>1. c \in Requests => pc'[c] \notin {"idle", "done"}
  BY <1>0 DEF Move, InFlightPoints, BeforePoints, GatePoints, AfterPoints
<1>2. \A d \in Callers \ {c} : pc[d] \notin WorkPoints
  BY <1>0 DEF RegInv, WorkRuns
<1>3. \A d \in Callers \ {c} : pc'[d] \notin WorkPoints
  BY <1>2
<1>4. QuietStep
  BY <1>0, <1>1 DEF QuietStep
<1>5. IdsGiven'
  BY <1>0, <1>4 DEF QuietStep, IdsGiven, RegInv
<1>6. PendingAt'
  <2>1. SUFFICES ASSUME NEW r \in pending PROVE pc'[r] \in InFlightPoints /\ settled[r] = "none"
    BY DEF PendingAt
  <2>2. pc[r] \in InFlightPoints /\ settled[r] = "none" /\ r \in Requests
    BY RegTypes DEF RegInv, PendingAt
  <2>3. CASE r = c
    BY <1>0, <2>2, <2>3 DEF Move, InFlightPoints, BeforePoints, GatePoints, AfterPoints
  <2>4. CASE r # c
    BY <1>0, <2>2, <2>4
  <2> QED BY <2>2, <2>3, <2>4
<1>7. FreshUnsettled'
  BY <1>4 DEF QuietStep, FreshUnsettled, RegInv
<1>8. WorkRuns'
  BY <1>3 DEF WorkRuns
<1>9. ExitAt'
  BY <1>0, <1>3 DEF ExitAt, WorkPoints, GoodExit
<1>10. RoomFit'
  <2>1. SUFFICES ASSUME NEW r \in Requests
                 PROVE  /\ pc'[r] = "roomParked" => ~TooLarge(r)
                        /\ pc'[r] = "enqueue" /\ TooLarge(r) => settled[r] = "none"
    BY DEF RoomFit, TooLarge
  <2>2. CASE r = c
    BY <2>2
  <2>3. CASE r # c
    BY <1>0, <2>3 DEF RegInv, RoomFit
  <2> QED BY <2>2, <2>3
<1>11. Correlated'
  BY DEF RegInv, Correlated
<1> QED BY <1>4, <1>5, <1>6, <1>7, <1>8, <1>9, <1>10, <1>11 DEF RegInv

(* Nothing runs, at most a sender suspended in the Channel is resumed. *)
LEMMA Undisturbed ==
  ASSUME ConnInv, RegInv,
         UNCHANGED <<requestId, id, pending, settled, answer, running, outcome>>,
         \A d \in Callers : \/ pc'[d] = pc[d]
                            \/ pc[d] = "chanParked" /\ pc'[d] = "chanGate"
  PROVE  RegInv' /\ QuietStep
<1>0. Requests \subseteq Callers
  BY RegTypes
<1>1. QuietStep
  BY <1>0 DEF QuietStep
<1>2. IdsGiven'
  BY <1>0, <1>1 DEF QuietStep, IdsGiven, RegInv
<1>3. PendingAt'
  BY <1>0, RegTypes DEF PendingAt, RegInv, InFlightPoints, BeforePoints, GatePoints, AfterPoints
<1>4. FreshUnsettled'
  BY <1>1 DEF QuietStep, FreshUnsettled, RegInv
<1>5. WorkRuns'
  BY DEF WorkRuns, RegInv, WorkPoints
<1>6. ExitAt'
  BY <1>0 DEF ExitAt, RegInv, GoodExit
<1>7. RoomFit'
  BY <1>0 DEF RoomFit, RegInv, TooLarge
<1>8. Correlated'
  BY DEF RegInv, Correlated
<1> QED BY <1>1, <1>2, <1>3, <1>4, <1>5, <1>6, <1>7, <1>8 DEF RegInv

LEMMA QuietCallerSteps ==
  ASSUME ConnInv, QueueInv, RegInv, [Next]_vars, NEW c \in Callers,
         \/ c \in Senders /\ (CallClosed(c) \/ Send(c) \/ SendReturns(c))
         \/ c \in Requests /\ (SlotRefused(c) \/ SlotWait(c) \/ AwaitSettled(c) \/ AwaitParks(c))
  PROVE  RegInv' /\ QuietStep
<1>0. pc \in [Coroutines -> Points] /\ outcome \in [Callers -> Outcomes] /\ c \in Coroutines
      /\ Requests \subseteq Callers /\ Callers \subseteq Coroutines
      /\ Requests \cap Senders = {}
  BY RegTypes
<1>1. Move(pc[c], pc'[c])
  BY CallerMoves
<1>2. /\ \A d \in Callers \ {c} : pc'[d] = pc[d]
      /\ UNCHANGED <<requestId, id, pending, settled, answer>>
      /\ running \in {c, Nobody}
      /\ \A d \in Callers \ {c} : outcome'[d] = outcome[d]
      /\ pc'[c] \in WorkPoints => running' = c
  BY <1>0 DEF CallClosed, Send, SendReturns, SlotRefused, SlotWait, AwaitSettled, AwaitParks, Running,
     GoTo, Finish, Return, registryVars, WorkPoints
<1>3. ASSUME c \in Requests
      PROVE  /\ pc[c] \notin {"idle", "finally", "done"}
             /\ pc'[c] = "finally" => GoodExit(c, outcome'[c])
             /\ pc'[c] \notin {"roomParked", "enqueue"}
  BY <1>0, <1>3 DEF SlotRefused, SlotWait, AwaitSettled, AwaitParks, Running, GoTo, Finish, GoodExit,
     IsSettled
<1> QED BY <1>0, <1>1, <1>2, <1>3, Advance

LEMMA QuietEnqueueSteps ==
  ASSUME ConnInv, QueueInv, RegInv, [Next]_vars, NEW c \in Callers,
         \/ EnqueueTooLarge(c) \/ EnqueueAborted(c) \/ EnqueueWait(c)
         \/ EnqueueInline(c) \/ EnqueueChannel(c) \/ EnqueueChannelFull(c)
  PROVE  RegInv' /\ QuietStep
<1>0. pc \in [Coroutines -> Points] /\ outcome \in [Callers -> Outcomes] /\ c \in Coroutines
      /\ Requests \subseteq Callers /\ Callers \subseteq Coroutines
      /\ Requests \cap Senders = {} /\ c # Writer
  BY RegTypes
<1>1. Move(pc[c], pc'[c])
  BY CallerMoves
<1>2. /\ running = c /\ pc[c] = "enqueue"
      /\ UNCHANGED <<requestId, id, pending, settled, answer>>
  BY DEF EnqueueTooLarge, EnqueueAborted, EnqueueWait, EnqueueInline, EnqueueChannel,
     EnqueueChannelFull, Enqueuing, Running, registryVars
<1>3. \E p : /\ pc' = [pc EXCEPT ![c] = p]
             /\ p \in WorkPoints => running' = c
             /\ p # "enqueue"
             /\ p = "roomParked" => ~TooLarge(c)
  BY <1>0, <1>2 DEF EnqueueTooLarge, EnqueueAborted, EnqueueWait, EnqueueInline, EnqueueChannel,
     EnqueueChannelFull, Enqueuing, Running, AfterEnqueue, GoTo, Finish, WorkPoints
<1>4. \A d \in Callers \ {c} : outcome'[d] = outcome[d]
  BY <1>0 DEF EnqueueTooLarge, EnqueueAborted, EnqueueWait, EnqueueInline, EnqueueChannel,
     EnqueueChannelFull, AfterEnqueue, GoTo, Finish
<1>5. ASSUME c \in Requests, pc'[c] = "finally"
      PROVE  GoodExit(c, outcome'[c])
  <2>1. CASE EnqueueTooLarge(c)
    BY <1>0, <1>2, <1>5, <2>1 DEF EnqueueTooLarge, Finish, GoodExit, RegInv, RoomFit
  <2>2. CASE EnqueueAborted(c) \/ EnqueueWait(c) \/ EnqueueChannelFull(c)
    BY <1>0, <1>5, <2>2 DEF EnqueueAborted, EnqueueWait, EnqueueChannelFull, GoTo, Finish, GoodExit
  <2>3. CASE EnqueueInline(c) \/ EnqueueChannel(c)
    BY <1>0, <1>5, <2>3 DEF EnqueueInline, EnqueueChannel, AfterEnqueue, GoTo
  <2> QED BY <2>1, <2>2, <2>3
<1> QED BY <1>0, <1>1, <1>2, <1>3, <1>4, <1>5, Advance

LEMMA QuietRunSteps ==
  ASSUME ConnInv, QueueInv, RegInv, [Next]_vars, NEW c \in Coroutines,
         Run(c) \/ RunDead(c) \/ (c \in Callers /\ RunChanWaiter(c))
  PROVE  RegInv' /\ QuietStep
<1>0. pc \in [Coroutines -> Points] /\ outcome \in [Callers -> Outcomes]
      /\ Requests \subseteq Callers /\ Callers \subseteq Coroutines
      /\ Requests \cap Senders = {} /\ Writer \notin Callers
  BY RegTypes
<1>1. c \in Callers => Move(pc[c], pc'[c])
  BY CallerMoves
<1>2. running = Nobody /\ UNCHANGED <<requestId, id, pending, settled, answer>>
  BY DEF Run, RunDead, RunChanWaiter, Resumed, registryVars
<1>3. CASE RunDead(c)
  BY <1>2, <1>3, Undisturbed DEF RunDead
<1>4. CASE c = Writer /\ Run(c)
  <2>1. /\ \A d \in Callers : pc'[d] = pc[d]
        /\ \A d \in Callers \ {c} : outcome'[d] = outcome[d]
    BY <1>0, <1>4 DEF Run, RunSlotWaiter, RunRoomWaiter, RunAwaiter, RunWriter, GoTo, Finish
  <2> QED BY <1>0, <1>2, <1>4, <2>1, Advance
<1>5. CASE c \in Callers /\ (Run(c) \/ RunChanWaiter(c))
  <2>1. /\ \E p : pc' = [pc EXCEPT ![c] = p]
        /\ pc[c] \notin {"idle", "finally", "done"} /\ running' = c
        /\ pc'[c] = "enqueue" => pc[c] = "roomParked"
        /\ pc'[c] # "roomParked"
        /\ \A d \in Callers \ {c} : outcome'[d] = outcome[d]
    BY <1>0, <1>5 DEF Run, RunChanWaiter, RunSlotWaiter, RunRoomWaiter, RunAwaiter, RunWriter, GoTo,
       Finish, AfterEnqueue
  <2>2. ASSUME c \in Requests, pc'[c] = "finally"
        PROVE  GoodExit(c, outcome'[c])
    <3>1. CASE Run(c) /\ RunAwaiter(c)
      <4>1. pc[c] = "awaitParked" /\ c \in ToSet(ready)
        BY <3>1, ResumeFacts DEF Run, RunAwaiter
      <4>2. settled[c] # "none" \/ c \in cancelled
        BY <1>5, <4>1 DEF QueueInv, ReadyQueue, Resumable
      <4>3. \/ outcome'[c] = "cancelled" /\ c \in cancelled
            \/ outcome'[c] = settled[c] /\ settled[c] # "none"
        BY <1>0, <1>5, <3>1 DEF RunAwaiter, Finish
      <4>4. settled[c] \in Settlements
        BY <2>2, RegTypes
      <4> QED BY <4>2, <4>3, <4>4 DEF GoodExit, Settlements
    <3>2. CASE Run(c) /\ ~RunAwaiter(c)
      BY <1>0, <1>5, <2>2, <3>2 DEF Run, RunSlotWaiter, RunRoomWaiter, RunWriter, GoTo, Finish, GoodExit
    <3>3. CASE RunChanWaiter(c)
      BY <1>0, <1>5, <2>2, <3>3 DEF RunChanWaiter, AfterEnqueue, GoTo, Finish, GoodExit
    <3> QED BY <1>5, <3>1, <3>2, <3>3
  <2>3. c \in Requests /\ pc'[c] = "enqueue" => ~TooLarge(c)
    BY <2>1 DEF RegInv, RoomFit
  <2> QED BY <1>0, <1>1, <1>2, <1>5, <2>1, <2>2, <2>3, Advance
<1> QED BY <1>3, <1>4, <1>5 DEF Coroutines

LEMMA QuietWriterSteps ==
  ASSUME ConnInv, QueueInv, RegInv, [Next]_vars, NEW c \in Coroutines,
         \/ DrainLeftover(c) \/ DrainNext(c) \/ DrainDone(c) \/ WriteReturns(c)
         \/ c \in Callers /\ WriteCancelled(c)
         \/ c = Writer /\ LoopParks
  PROVE  RegInv' /\ QuietStep
<1>0. pc \in [Coroutines -> Points] /\ outcome \in [Callers -> Outcomes]
      /\ Requests \subseteq Callers /\ Callers \subseteq Coroutines
      /\ Requests \cap Senders = {} /\ Writer \notin Callers /\ Writer \in Coroutines
  BY RegTypes
<1>1. c \in Callers => Move(pc[c], pc'[c])
  BY CallerMoves
<1>2. /\ running \in {c, Nobody} /\ UNCHANGED <<requestId, id, pending, settled, answer>>
      /\ pc[c] \in {"drain", "write", "receive"}
  BY DEF DrainLeftover, DrainNext, DrainDone, WriteReturns, WriteDone, WriteCancelled, HandOff, LoopParks,
     Running, registryVars
<1>3. \A d \in Callers \ {c} : pc'[d] = pc[d] /\ outcome'[d] = outcome[d]
  BY <1>0 DEF DrainLeftover, DrainNext, DrainDone, WriteReturns, WriteCancelled, HandOff, LoopParks, GoTo,
     Finish, AfterEnqueue
<1>4. ASSUME c \in Callers
      PROVE  /\ pc'[c] \in WorkPoints => running' = c
             /\ pc'[c] \notin {"roomParked", "enqueue"}
             /\ c \in Requests /\ pc'[c] = "finally" => GoodExit(c, outcome'[c])
  <2>1. CASE DrainLeftover(c) \/ DrainNext(c) \/ DrainDone(c) \/ WriteReturns(c)
    BY <1>0, <1>4, <2>1 DEF DrainLeftover, DrainNext, DrainDone, WriteReturns, GoTo, Finish, AfterEnqueue,
       WorkPoints
  <2>2. CASE WriteCancelled(c)
    <3>1. pc'[c] = "finally" /\ running' = c /\ outcome'[c] = "cancelled"
      BY <1>0, <1>4, <2>2 DEF WriteCancelled, HandOff
    <3> QED BY <3>1 DEF GoodExit
  <2> QED BY <1>0, <1>4, <2>1, <2>2
<1> QED BY <1>0, <1>1, <1>2, <1>3, <1>4, Advance

LEMMA QuietLoopTakes ==
  ASSUME ConnInv, QueueInv, RegInv, [Next]_vars, LoopTakes
  PROVE  RegInv' /\ QuietStep
<1>0. pc \in [Coroutines -> Points]
      /\ Requests \subseteq Callers /\ Callers \subseteq Coroutines
      /\ Writer \notin Callers /\ Writer \in Coroutines
  BY RegTypes
<1>1. /\ running = Writer /\ UNCHANGED <<requestId, id, pending, settled, answer, outcome>>
  BY DEF LoopTakes, Running, registryVars, GoTo
<1>2. CASE pc' = [pc EXCEPT ![Writer] = "write"]
  BY <1>0, <1>1, <1>2, Advance
<1>3. CASE /\ chanSenders # <<>>
           /\ pc' = [pc EXCEPT ![Writer] = "write", ![Head(chanSenders)] = "chanSent"]
  <2>1. PICK h : h = Head(chanSenders)
    OBVIOUS
  <2>2. h \in Callers /\ pc[h] = "chanParked"
    <3>1. chanSenders \in Seq(Callers)
      BY QueueTypes
    <3>2. Head(chanSenders) \in ToSet(chanSenders)
      BY <1>3, <3>1, TailQueue
    <3> QED BY <2>1, <3>2, QueueTypes DEF QueueInv, ChanQueue
  <2>3. pc'[h] = "chanSent" /\ \A d \in Callers \ {h} : pc'[d] = pc[d]
    BY <1>0, <1>3, <2>1, <2>2
  <2>4. Move(pc[h], pc'[h])
    BY <2>2, CallerMoves
  <2> QED BY <1>0, <1>1, <2>2, <2>3, <2>4, Advance DEF WorkPoints
<1> QED BY <1>2, <1>3 DEF LoopTakes, GoTo

LEMMA QuietEvents ==
  ASSUME ConnInv, QueueInv, RegInv,
         SocketWrite \/ UNCHANGED vars \/ \E c \in Callers : Cancel(c)
  PROVE  RegInv' /\ QuietStep
<1>1. CASE SocketWrite \/ UNCHANGED vars
  BY <1>1, Undisturbed DEF SocketWrite, vars, reactorVars, registryVars
<1>2. ASSUME NEW c \in Callers, Cancel(c) PROVE RegInv' /\ QuietStep
  <2>1. UNCHANGED <<requestId, id, pending, settled, answer, running, outcome>>
    BY <1>2 DEF Cancel
  <2>2. pc' = IF pc[c] = "chanParked" THEN [pc EXCEPT ![c] = "chanGate"] ELSE pc
    BY <1>2 DEF Cancel
  <2>3. \A d \in Callers : pc'[d] = pc[d] \/ (pc[d] = "chanParked" /\ pc'[d] = "chanGate")
    BY <2>2, RegTypes
  <2> QED BY <2>1, <2>3, Undisturbed
<1> QED BY <1>1, <1>2

-----------------------------------------------------------------------------
(* Steps of the registry *)

(* The entry removed by an id is the request's own. *)
LEMMA OwnEntry ==
  ASSUME ConnInv, RegInv, NEW r \in Requests, pc[r] \notin {"idle", "done"}
  PROVE  {p \in pending : id[p] # id[r]} = pending \ {r}
  BY RegTypes DEF RegInv, IdsGiven

LEMMA RequestStep ==
  ASSUME ConnInv, RegInv, NEW c \in Requests, Request(c) \/ CallClosed(c)
  PROVE  RegInv'
<1>0. /\ pc \in [Coroutines -> Points] /\ Requests \subseteq Callers /\ Callers \subseteq Coroutines
      /\ id \in [Requests -> 0 .. IdMax] /\ requestId \in 0 .. IdMax /\ IdMax \in Nat
      /\ Nobody \notin Callers /\ pending \subseteq Requests
  BY RegTypes
<1>1. pc[c] = "idle" /\ running = Nobody /\ UNCHANGED <<pending, settled, answer>>
  BY DEF Request, CallClosed, registryVars
<1>2. \A d \in Callers : pc[d] \notin WorkPoints
  BY <1>0, <1>1 DEF RegInv, WorkRuns
<1>3. \A d \in Callers \ {c} : pc'[d] = pc[d]
  BY <1>0 DEF Request, CallClosed, GoTo
<1>4. c \notin pending /\ settled[c] = "none" /\ id[c] = 0
  BY <1>1 DEF RegInv, IdsGiven, PendingAt, FreshUnsettled, InFlightPoints, BeforePoints, GatePoints, AfterPoints
<1>5. /\ PendingAt' /\ FreshUnsettled' /\ Correlated'
  <2>1. PendingAt'
    BY <1>0, <1>1, <1>3, <1>4 DEF RegInv, PendingAt
  <2>2. FreshUnsettled'
    BY <1>0, <1>1, <1>3, <1>4 DEF RegInv, FreshUnsettled
  <2>3. Correlated'
    BY <1>1 DEF RegInv, Correlated
  <2> QED BY <2>1, <2>2, <2>3
<1>6. CASE /\ requestId' = requestId + 1 /\ id' = [id EXCEPT ![c] = requestId + 1]
           /\ running' = c /\ pc'[c] = "slot" /\ requestId # IdMax
  <2>1. \A r \in Requests \ {c} : id'[r] = id[r] /\ id[r] <= requestId
    BY <1>0, <1>6 DEF RegInv, IdsGiven
  <2>2. id'[c] = requestId' /\ requestId' = requestId + 1
    BY <1>0, <1>6
  <2>3. IdsGiven'
    BY <1>0, <1>3, <1>6, <2>1, <2>2 DEF RegInv, IdsGiven
  <2>4. WorkRuns' /\ ExitAt' /\ RoomFit'
    <3>1. WorkRuns'
      BY <1>2, <1>3, <1>6 DEF WorkRuns
    <3>2. ExitAt'
      BY <1>0, <1>2, <1>3, <1>6 DEF ExitAt, WorkPoints
    <3>3. RoomFit'
      BY <1>0, <1>1, <1>3, <1>6 DEF RegInv, RoomFit, TooLarge
    <3> QED BY <3>1, <3>2, <3>3
  <2> QED BY <1>5, <2>3, <2>4 DEF RegInv
<1>7. CASE UNCHANGED <<requestId, id>> /\ pc'[c] = "done"
  <2>1. IdsGiven'
    BY <1>0, <1>3, <1>7 DEF RegInv, IdsGiven
  <2>2. WorkRuns'
    BY <1>2, <1>3, <1>7 DEF WorkRuns, WorkPoints
  <2>3. ExitAt'
    BY <1>0, <1>2, <1>3, <1>7 DEF ExitAt, WorkPoints
  <2>4. RoomFit'
    BY <1>0, <1>1, <1>3, <1>7 DEF RegInv, RoomFit, TooLarge
  <2> QED BY <1>5, <2>1, <2>2, <2>3, <2>4 DEF RegInv
<1>8. \/ /\ requestId' = requestId + 1 /\ id' = [id EXCEPT ![c] = requestId + 1]
         /\ running' = c /\ pc'[c] = "slot" /\ requestId # IdMax
      \/ UNCHANGED <<requestId, id>> /\ pc'[c] = "done"
  BY <1>0 DEF Request, CallClosed, GoTo, registryVars
<1> QED BY <1>6, <1>7, <1>8

(* The registry entry of c comes or goes while c is the only caller at work. *)
LEMMA EntryStep ==
  ASSUME ConnInv, RegInv, NEW c \in Requests, SlotTaken(c) \/ Finally(c)
  PROVE  /\ RegInv'
         /\ pending' = IF SlotTaken(c) THEN pending \cup {c} ELSE pending \ {c}
         /\ pc'[c] = IF SlotTaken(c) THEN "enqueue" ELSE "done"
         /\ \A d \in Callers \ {c} : pc'[d] = pc[d]
<1>0. /\ pc \in [Coroutines -> Points] /\ Requests \subseteq Callers /\ Callers \subseteq Coroutines
      /\ Nobody \notin Callers /\ pending \subseteq Requests
  BY RegTypes
<1>1. /\ running = c /\ UNCHANGED <<requestId, id, settled, answer, outcome>>
      /\ pc[c] = IF SlotTaken(c) THEN "slot" ELSE "finally"
      /\ SlotTaken(c) => running' = c /\ settled[c] = "none"
  BY DEF SlotTaken, Finally, Return, Running, GoTo, OnlyCaller, IsSettled
<1>2. /\ pc'[c] = IF SlotTaken(c) THEN "enqueue" ELSE "done"
      /\ \A d \in Callers \ {c} : pc'[d] = pc[d]
  BY <1>0 DEF SlotTaken, Finally, Return, Running, GoTo
<1>3. {p \in pending : id[p] # id[c]} = pending \ {c}
  BY <1>1, OwnEntry
<1>4. pending' = IF SlotTaken(c) THEN pending \cup {c} ELSE pending \ {c}
  BY <1>3 DEF SlotTaken, Finally
<1>5. \A d \in Callers \ {c} : pc[d] \notin WorkPoints
  BY <1>1 DEF RegInv, WorkRuns
<1>6. IdsGiven'
  BY <1>0, <1>1, <1>2 DEF RegInv, IdsGiven
<1>7. PendingAt'
  BY <1>0, <1>1, <1>2, <1>4 DEF RegInv, PendingAt, InFlightPoints, BeforePoints, GatePoints, AfterPoints
<1>8. FreshUnsettled' /\ Correlated'
  <2>1. FreshUnsettled'
    BY <1>0, <1>1, <1>2 DEF RegInv, FreshUnsettled
  <2>2. Correlated'
    BY <1>1 DEF RegInv, Correlated
  <2> QED BY <2>1, <2>2
<1>9. WorkRuns'
  BY <1>1, <1>2, <1>5 DEF WorkRuns, WorkPoints
<1>10. ExitAt'
  BY <1>0, <1>2, <1>5 DEF ExitAt, WorkPoints
<1>11. RoomFit'
  BY <1>0, <1>1, <1>2 DEF RegInv, RoomFit, TooLarge
<1> QED BY <1>2, <1>4, <1>6, <1>7, <1>8, <1>9, <1>10, <1>11 DEF RegInv

(* A request r is settled by v and loses its entry, nobody being at work. *)
LEMMA SettleStep ==
  ASSUME ConnInv, RegInv, NEW r \in Requests, NEW v \in {"response", "timeout"},
         running = Nobody, pc[r] \notin {"idle", "done"},
         UNCHANGED <<running, requestId, id, outcome>>,
         pending' = pending \ {r}, settled' = [settled EXCEPT ![r] = v],
         \A s \in Requests : answer'[s] \in {answer[s], s},
         pc' = IF r \in GatedIn({r}) THEN [pc EXCEPT ![r] = "chanGate"] ELSE pc
  PROVE  RegInv' /\ \A d \in Callers : /\ pc[d] = "idle" <=> pc'[d] = "idle"
                                       /\ pc[d] = "done" <=> pc'[d] = "done"
<1>0. /\ pc \in [Coroutines -> Points] /\ Requests \subseteq Callers /\ Callers \subseteq Coroutines
      /\ Nobody \notin Callers /\ pending \subseteq Requests
      /\ settled \in [Requests -> Settlements]
  BY RegTypes
<1>1. \A d \in Callers : pc[d] \notin WorkPoints
  BY <1>0 DEF RegInv, WorkRuns
<1>2. \A d \in Callers : pc'[d] = pc[d] \/ (pc[d] = "chanParked" /\ pc'[d] = "chanGate")
  BY <1>0 DEF GatedIn
<1>3. /\ settled'[r] = v /\ \A s \in Requests \ {r} : settled'[s] = settled[s]
  BY <1>0
<1>4. IdsGiven'
  BY <1>0, <1>2 DEF RegInv, IdsGiven
<1>5. PendingAt'
  BY <1>0, <1>2, <1>3 DEF RegInv, PendingAt, InFlightPoints, BeforePoints, GatePoints, AfterPoints
<1>6. FreshUnsettled'
  BY <1>0, <1>2, <1>3 DEF RegInv, FreshUnsettled
<1>7. Correlated'
  BY DEF RegInv, Correlated
<1>8. WorkRuns'
  BY <1>1, <1>2 DEF WorkRuns, WorkPoints
<1>9. ExitAt'
  BY <1>0, <1>1, <1>2 DEF ExitAt, WorkPoints
<1>10. RoomFit'
  <2>1. \A d \in Callers : pc'[d] # "enqueue" /\ (pc'[d] = "roomParked" => pc[d] = "roomParked")
    BY <1>1, <1>2 DEF WorkPoints
  <2> QED BY <1>0, <2>1 DEF RegInv, RoomFit, TooLarge
<1>11. \A d \in Callers : /\ pc[d] = "idle" <=> pc'[d] = "idle"
                          /\ pc[d] = "done" <=> pc'[d] = "done"
  BY <1>2
<1> QED BY <1>4, <1>5, <1>6, <1>7, <1>8, <1>9, <1>10, <1>11 DEF RegInv

LEMMA DeadlineStep ==
  ASSUME ConnInv, RegInv, NEW r \in Requests, Deadline(r)
  PROVE  /\ RegInv'
         /\ \A d \in Callers : /\ pc[d] = "idle" <=> pc'[d] = "idle"
                               /\ pc[d] = "done" <=> pc'[d] = "done"
         /\ pc[r] \notin {"idle", "done"} /\ settled[r] = "none"
         /\ pending' = pending \ {r} /\ settled' = [settled EXCEPT ![r] = "timeout"]
         /\ UNCHANGED <<id, outcome>>
<1>1. /\ running = Nobody /\ pc[r] \notin {"idle", "done"} /\ settled[r] = "none"
      /\ UNCHANGED <<running, requestId, id, outcome, answer>>
      /\ settled' = [settled EXCEPT ![r] = "timeout"]
      /\ pc' = IF r \in GatedIn({r}) THEN [pc EXCEPT ![r] = "chanGate"] ELSE pc
      /\ pending' = {p \in pending : id[p] # id[r]}
  BY DEF Deadline, DeadlineDue
<1>2. pending' = pending \ {r}
  BY <1>1, OwnEntry
<1>3. \A s \in Requests : answer'[s] \in {answer[s], s}
  BY <1>1
<1> QED BY <1>1, <1>2, <1>3, SettleStep

(* A response finds the request it answers: ids are never given twice. *)
LEMMA ResponseStep ==
  ASSUME ConnInv, RegInv, NEW r \in Requests, NEW p \in Requests, RecvResponse(r, p)
  PROVE  /\ RegInv'
         /\ \A d \in Callers : /\ pc[d] = "idle" <=> pc'[d] = "idle"
                               /\ pc[d] = "done" <=> pc'[d] = "done"
         /\ p \in pending /\ pc[p] \notin {"idle", "done"} /\ settled[p] = "none"
         /\ pending' = pending \ {p} /\ settled' = [settled EXCEPT ![p] = "response"]
         /\ UNCHANGED <<id, outcome>>
<1>1. p \in pending /\ pc[p] \in InFlightPoints /\ settled[p] = "none" /\ id[p] = id[r]
  BY DEF RecvResponse, RegInv, PendingAt
<1>2. pc[p] \notin {"idle", "done"}
  BY <1>1 DEF InFlightPoints, BeforePoints, GatePoints, AfterPoints
<1>3. p = r
  BY <1>1, <1>2 DEF RegInv, IdsGiven
<1>4. /\ running = Nobody /\ UNCHANGED <<running, requestId, id, outcome>>
      /\ pending' = pending \ {p}
      /\ settled' = [settled EXCEPT ![p] = "response"]
      /\ answer' = [answer EXCEPT ![p] = r]
      /\ pc' = IF p \in GatedIn({p}) THEN [pc EXCEPT ![p] = "chanGate"] ELSE pc
  BY <1>1 DEF RecvResponse
<1>5. \A s \in Requests : answer'[s] \in {answer[s], s}
  BY <1>3, <1>4, RegTypes
<1> QED BY <1>1, <1>2, <1>4, <1>5, SettleStep

(* What shutdown() does to the registry, whether close() calls it or the   *)
(* writer c whose write failed.                                            *)
ClosesRegistry ==
  /\ pending' = {}
  /\ settled' = [r \in Requests |-> IF r \in pending \cup ToSet(inFlightWaiters) /\ settled[r] = "none"
                                    THEN "closed" ELSE settled[r]]
  /\ UNCHANGED id
  /\ \A r \in Requests : /\ pc[r] = "idle" <=> pc'[r] = "idle"
                         /\ pc[r] = "done" <=> pc'[r] = "done"
                         /\ pc[r] = "done" => outcome'[r] = outcome[r]

LEMMA ShutdownStep ==
  ASSUME ConnInv, QueueInv, RegInv, NEW points, NEW c \in Coroutines,
         Shutdown(points), running = Nobody,
         \A d \in Callers \ {c} : points[d] = pc[d] /\ outcome'[d] = outcome[d],
         c \in Callers => \/ points[c] = pc[c] /\ outcome'[c] = outcome[c]
                          \/ /\ pc[c] = "write" /\ points[c] = "finally"
                             /\ running' = c /\ outcome'[c] = "closed"
  PROVE  RegInv' /\ ClosesRegistry
<1>0. /\ pc \in [Coroutines -> Points] /\ Requests \subseteq Callers /\ Callers \subseteq Coroutines
      /\ Nobody \notin Callers /\ Writer \notin Callers /\ pending \subseteq Requests
      /\ settled \in [Requests -> Settlements]
  BY RegTypes
<1>1. \A d \in Callers : pc[d] \notin WorkPoints
  BY <1>0 DEF RegInv, WorkRuns
<1>2. /\ pending' = {} /\ UNCHANGED <<requestId, id, answer>>
      /\ settled' = [r \in Requests |->
                       IF r \in pending \cup ToSet(inFlightWaiters) /\ settled[r] = "none"
                       THEN "closed" ELSE settled[r]]
  BY DEF Shutdown
<1>3. ASSUME NEW d \in Callers
      PROVE  \/ pc[d] = "roomParked" /\ pc'[d] = "roomFailed"
             \/ pc[d] = "chanParked" /\ pc'[d] = "chanGate"
             \/ pc'[d] = points[d]
  <2>1. d \in ToSet(roomWaiters) => pc[d] = "roomParked"
    BY DEF QueueInv, RoomQueue
  <2>2. d \in GatedIn(pending) => pc[d] = "chanParked"
    BY DEF GatedIn
  <2>3. pc'[d] = CASE d \in ToSet(roomWaiters) -> "roomFailed"
                   [] d \in GatedIn(pending) -> "chanGate"
                   [] d = Writer /\ WriteMode = "CHANNEL" -> "dead"
                   [] OTHER -> points[d]
    BY <1>0 DEF Shutdown
  <2> QED BY <1>0, <2>1, <2>2, <2>3
<1>4. \A d \in Callers : \/ pc[d] = "roomParked" /\ pc'[d] = "roomFailed"
                         \/ pc[d] = "chanParked" /\ pc'[d] = "chanGate"
                         \/ pc'[d] = pc[d] /\ outcome'[d] = outcome[d]
                         \/ /\ d = c /\ pc[c] = "write" /\ pc'[c] = "finally"
                            /\ running' = c /\ outcome'[c] = "closed"
  BY <1>3
<1>5. ClosesRegistry
  <2>1. \A r \in Requests : /\ pc[r] = "idle" <=> pc'[r] = "idle"
                            /\ pc[r] = "done" <=> pc'[r] = "done"
                            /\ pc[r] = "done" => outcome'[r] = outcome[r]
    BY <1>0, <1>4
  <2> QED BY <1>2, <2>1 DEF ClosesRegistry
<1>6. IdsGiven'
  BY <1>2, <1>5 DEF RegInv, IdsGiven, ClosesRegistry
<1>7. PendingAt'
  BY <1>2 DEF PendingAt
<1>8. FreshUnsettled'
  <2>1. SUFFICES ASSUME NEW r \in Requests, pc[r] = "idle" PROVE settled'[r] = "none"
    BY <1>5 DEF FreshUnsettled, ClosesRegistry
  <2>2. r \notin pending /\ r \notin ToSet(inFlightWaiters) /\ settled[r] = "none"
    BY <2>1 DEF RegInv, PendingAt, InFlightPoints, BeforePoints, GatePoints, AfterPoints,
       FreshUnsettled, QueueInv, SlotQueue
  <2> QED BY <1>2, <2>2
<1>9. Correlated'
  BY <1>2 DEF RegInv, Correlated
<1>10. WorkRuns'
  BY <1>1, <1>4 DEF WorkRuns, WorkPoints
<1>11. ExitAt'
  BY <1>0, <1>1, <1>4 DEF ExitAt, WorkPoints, GoodExit
<1>12. RoomFit'
  <2>1. \A d \in Callers : pc'[d] # "enqueue" /\ (pc'[d] = "roomParked" => pc[d] = "roomParked")
    BY <1>1, <1>4 DEF WorkPoints
  <2> QED BY <1>0, <2>1 DEF RegInv, RoomFit, TooLarge
<1> QED BY <1>5, <1>6, <1>7, <1>8, <1>9, <1>10, <1>11, <1>12 DEF RegInv

LEMMA CloseStep ==
  ASSUME ConnInv, QueueInv, RegInv, [Next]_vars, Close \/ \E c \in Coroutines : WriteFails(c)
  PROVE  RegInv' /\ (QuietStep \/ ClosesRegistry)
<1>0. /\ pc \in [Coroutines -> Points] /\ outcome \in [Callers -> Outcomes]
      /\ Requests \subseteq Callers /\ Callers \subseteq Coroutines
      /\ Writer \notin Callers /\ Writer \in Coroutines
  BY RegTypes
<1>1. CASE Close
  <2>1. running = Nobody /\ Shutdown(pc) /\ outcome' = outcome
    BY <1>1 DEF Close
  <2> QED BY <1>0, <2>1, ShutdownStep
<1>2. ASSUME NEW c \in Coroutines, WriteFails(c) PROVE RegInv' /\ (QuietStep \/ ClosesRegistry)
  <2> DEFINE next == [pc EXCEPT ![c] = IF c = Writer THEN "idle" ELSE "finally"]
  <2>1. /\ running = Nobody /\ pc[c] = "write"
        /\ running' = IF c = Writer THEN Nobody ELSE c
        /\ outcome' = IF c = Writer THEN outcome ELSE [outcome EXCEPT ![c] = "closed"]
        /\ \/ Shutdown(next)
           \/ pc' = next /\ UNCHANGED registryVars
    BY <1>2 DEF WriteFails
  <2>2. \A d \in Callers \ {c} : next[d] = pc[d] /\ outcome'[d] = outcome[d]
    BY <1>0, <2>1
  <2>3. c \in Callers => next[c] = "finally" /\ running' = c /\ outcome'[c] = "closed"
    BY <1>0, <2>1
  <2> HIDE DEF next
  <2>4. CASE Shutdown(next)
    BY <1>2, <2>1, <2>2, <2>3, <2>4, ShutdownStep
  <2>5. CASE pc' = next /\ UNCHANGED registryVars
    <3>1. UNCHANGED <<requestId, id, pending, settled, answer>>
      BY <2>5 DEF registryVars
    <3>2. c \in Callers => Move(pc[c], pc'[c]) /\ pc'[c] = "finally" /\ GoodExit(c, outcome'[c])
      BY <2>3, <2>5, CallerMoves DEF GoodExit
    <3> QED BY <1>0, <1>2, <2>1, <2>2, <2>3, <2>5, <3>1, <3>2, Advance
  <2> QED BY <2>1, <2>4, <2>5
<1> QED BY <1>1, <1>2

LEMMA RegInvInit == Init => RegInv
<1> SUFFICES ASSUME Init PROVE RegInv
  OBVIOUS
<1>1. /\ \A r \in Requests : pc[r] = "idle" /\ id[r] = 0 /\ settled[r] = "none" /\ answer[r] = Nobody
      /\ \A c \in Callers : pc[c] = "idle"
      /\ pending = {} /\ requestId = 0
  BY CallersAssumption DEF Init, Callers, Coroutines
<1> QED BY <1>1 DEF RegInv, IdsGiven, PendingAt, FreshUnsettled, WorkRuns, WorkPoints, ExitAt, RoomFit,
       Correlated

LEMMA RegInvStep == ConnInv /\ QueueInv /\ RegInv /\ [Next]_vars => RegInv'
<1> SUFFICES ASSUME ConnInv, QueueInv, RegInv, [Next]_vars PROVE RegInv'
  OBVIOUS
<1>0. Requests \subseteq Callers /\ Senders \subseteq Callers /\ Callers \subseteq Coroutines
      /\ Writer \in Coroutines /\ Callers = Requests \cup Senders
  BY RegTypes DEF Callers
<1>1. CASE Reactor
  <2>1. ASSUME NEW c \in Coroutines, Run(c) \/ RunDead(c) PROVE RegInv'
    BY <2>1, QuietRunSteps
  <2>2. ASSUME NEW r \in Requests, SlotTaken(r) \/ Finally(r) PROVE RegInv'
    BY <2>2, EntryStep
  <2>3. ASSUME NEW r \in Requests, SlotRefused(r) \/ SlotWait(r) \/ AwaitSettled(r) \/ AwaitParks(r)
        PROVE  RegInv'
    BY <1>0, <2>3, QuietCallerSteps
  <2>4. ASSUME NEW c \in Callers,
               \/ EnqueueTooLarge(c) \/ EnqueueAborted(c) \/ EnqueueWait(c)
               \/ EnqueueInline(c) \/ EnqueueChannel(c) \/ EnqueueChannelFull(c)
        PROVE  RegInv'
    BY <2>4, QuietEnqueueSteps
  <2>5. ASSUME NEW c \in Callers, RunChanWaiter(c) PROVE RegInv'
    BY <1>0, <2>5, QuietRunSteps
  <2>6. ASSUME NEW c \in Coroutines, DrainLeftover(c) \/ DrainNext(c) \/ DrainDone(c) PROVE RegInv'
    BY <2>6, QuietWriterSteps
  <2>7. ASSUME NEW c \in Senders, SendReturns(c) PROVE RegInv'
    BY <1>0, <2>7, QuietCallerSteps
  <2>8. CASE LoopTakes \/ LoopParks
    BY <1>0, <2>8, QuietWriterSteps, QuietLoopTakes
  <2> QED BY <1>1, <2>1, <2>2, <2>3, <2>4, <2>5, <2>6, <2>7, <2>8 DEF Reactor
<1>2. ASSUME NEW c \in Callers, CallClosed(c) PROVE RegInv'
  BY <1>0, <1>2, QuietCallerSteps, RequestStep
<1>3. ASSUME NEW c \in Callers, WriteCancelled(c) PROVE RegInv'
  BY <1>0, <1>3, QuietWriterSteps
<1>4. ASSUME NEW c \in Senders, Send(c) PROVE RegInv'
  BY <1>0, <1>4, QuietCallerSteps
<1>5. ASSUME NEW r \in Requests, Request(r) \/ Deadline(r) PROVE RegInv'
  BY <1>5, RequestStep, DeadlineStep
<1>6. ASSUME NEW r \in Requests, NEW p \in Requests, RecvResponse(r, p) PROVE RegInv'
  BY <1>6, ResponseStep
<1>7. ASSUME NEW c \in Coroutines, WriteReturns(c) PROVE RegInv'
  BY <1>7, QuietWriterSteps
<1>8. CASE SocketWrite \/ UNCHANGED vars \/ \E c \in Callers : Cancel(c)
  BY <1>8, QuietEvents
<1>9. CASE Close \/ \E c \in Coroutines : WriteFails(c)
  BY <1>9, CloseStep
<1> QED BY <1>1, <1>2, <1>3, <1>4, <1>5, <1>6, <1>7, <1>8, <1>9 DEF Next

LEMMA RegInvariant == Spec => [](ConnInv /\ QueueInv /\ RegInv)
<1>1. Init => ConnInv /\ QueueInv /\ RegInv
  BY ConnInvInit, QueueInvInit, RegInvInit
<1>2. ConnInv /\ QueueInv /\ RegInv /\ [Next]_vars => (ConnInv /\ QueueInv /\ RegInv)'
  BY ConnInvStep, QueueInvStep, RegInvStep
<1> QED BY <1>1, <1>2, PTL DEF Spec

(* "A response completes the request it answers": a response is matched by *)
(* id to a registry entry, late or duplicated ones included, and no two    *)
(* calls ever carry the same id, so none completes another call.           *)
THEOREM ResponsesCorrelated == Spec => []Correlated
<1>1. RegInv => Correlated
  BY DEF RegInv
<1> QED BY <1>1, RegInvariant, PTL

-----------------------------------------------------------------------------
(* Every exit releases everything *)

(* A closed connection has empty tables. *)
Emptied ==
  closed => /\ pending = {} /\ slotCont = {} /\ inFlightWaiters = <<>>
            /\ roomWaiters = <<>> /\ sendQueue = <<>> /\ queuedBytes = 0

LEMMA WithoutEmpty ==
  ASSUME NEW e
  PROVE  Without(<<>>, e) = <<>>
  BY DEF Without

LEMMA ShutdownEmpties ==
  ASSUME ConnInv, QueueInv, NEW points, Shutdown(points)
  PROVE  Emptied'
<1>1. slotCont \ ToSet(inFlightWaiters) = {}
  BY DEF QueueInv, SlotQueue
<1> QED BY <1>1 DEF Shutdown, Emptied

LEMMA EmptiedStep == ConnInv /\ QueueInv /\ Emptied /\ [Next]_vars => Emptied'
<1> SUFFICES ASSUME ConnInv, QueueInv, Emptied, [Next]_vars PROVE Emptied'
  OBVIOUS
<1>0. /\ Requests \subseteq Callers /\ Senders \subseteq Callers /\ queuedBytes \in Nat
      /\ Bytes \in [Callers -> Nat]
  BY LimitsAssumption DEF Callers, ConnInv, TypeOK, PathType
<1>1. ASSUME UNCHANGED <<closed, pending, slotCont, inFlightWaiters, roomWaiters, sendQueue, queuedBytes>>
      PROVE  Emptied'
  BY <1>1 DEF Emptied
<1>2. ASSUME NEW c,
             \/ CallClosed(c) \/ Send(c) \/ Request(c) \/ SlotRefused(c) \/ AwaitSettled(c)
             \/ AwaitParks(c) \/ SendReturns(c) \/ EnqueueTooLarge(c) \/ EnqueueAborted(c)
             \/ Run(c) \/ RunDead(c)
      PROVE  Emptied'
  BY <1>1, <1>2 DEF CallClosed, Send, Request, SlotRefused, AwaitSettled, AwaitParks, SendReturns,
     EnqueueTooLarge, EnqueueAborted, Run, RunDead, OnlyCaller, registryVars, roomVars, pathVars
<1>3. ASSUME NEW c, DrainLeftover(c) \/ DrainDone(c) \/ LoopTakes \/ LoopParks \/ SocketWrite
                    \/ WriteCancelled(c) \/ UNCHANGED vars
      PROVE  Emptied'
  BY <1>1, <1>3 DEF DrainLeftover, DrainDone, LoopTakes, LoopParks, SocketWrite, WriteCancelled, HandOff,
     vars, registryVars, roomVars, pathVars
<1>4. ASSUME ~closed, closed' = closed PROVE Emptied'
  BY <1>4 DEF Emptied
<1>5. ASSUME NEW c,
             \/ SlotTaken(c) \/ SlotWait(c) \/ EnqueueWait(c) \/ EnqueueInline(c) \/ EnqueueChannel(c)
             \/ EnqueueChannelFull(c) \/ DrainNext(c) \/ \E p \in Requests : RecvResponse(c, p)
      PROVE  Emptied'
  BY <1>4, <1>5 DEF SlotTaken, SlotWait, EnqueueWait, EnqueueInline, EnqueueChannel, EnqueueChannelFull,
     DrainNext, RecvResponse, Enqueuing, OnlyCaller
<1>6. ASSUME NEW bytes \in Nat, NEW queue, ReleaseOutboundBytes(bytes, queue),
             UNCHANGED <<closed, pending, slotCont, inFlightWaiters, sendQueue>>
      PROVE  Emptied'
  BY <1>0, <1>6 DEF ReleaseOutboundBytes, Emptied
<1>7. ASSUME NEW c \in Callers, RunChanWaiter(c) PROVE Emptied'
  <2>1. UNCHANGED <<closed, pending, slotCont, inFlightWaiters, sendQueue>> /\ Bytes[c] \in Nat
    BY <1>0, <1>7 DEF RunChanWaiter, registryVars
  <2>2. CASE ReleaseOutboundBytes(Bytes[c], Tail(ready))
    BY <1>6, <2>1, <2>2
  <2>3. CASE UNCHANGED <<queuedBytes, roomWaiters>>
    BY <1>1, <2>1, <2>3
  <2> QED BY <1>7, <2>2, <2>3 DEF RunChanWaiter
<1>8. ASSUME NEW c \in Coroutines, WriteReturns(c) PROVE Emptied'
  <2>1. UNCHANGED <<closed, pending, slotCont, inFlightWaiters, sendQueue>>
    BY <1>8 DEF WriteReturns, registryVars
  <2>2. CASE WriteMode = "INLINE"
    BY <1>1, <1>8, <2>1, <2>2 DEF WriteReturns
  <2>3. CASE WriteMode = "CHANNEL"
    <3>1. c = Writer /\ loopPacket \in Callers
      BY <1>8, <2>3 DEF WriteReturns, WriteDone, ConnInv, WriteLoopAlone, Coroutines, TypeOK, PathType
    <3>2. ReleaseOutboundBytes(Bytes[loopPacket], ready)
      BY <1>8, <2>3 DEF WriteReturns
    <3>3. Bytes[loopPacket] \in Nat
      BY <1>0, <3>1
    <3> QED BY <1>6, <2>1, <3>2, <3>3
  <2> QED BY <2>2, <2>3, ModeAssumption
<1>9. ASSUME NEW c \in Callers, Finally(c) \/ (c \in Requests /\ Deadline(c)) \/ Cancel(c)
      PROVE  Emptied'
  <2>1. SUFFICES ASSUME closed
                 PROVE  /\ pending' = {} /\ slotCont' = {} /\ inFlightWaiters' = <<>>
                        /\ roomWaiters' = <<>> /\ sendQueue' = <<>> /\ queuedBytes' = 0
    <3>1. closed' = closed
      BY <1>9 DEF Finally, Deadline, Cancel
    <3> QED BY <3>1 DEF Emptied
  <2>2. /\ pending = {} /\ slotCont = {} /\ inFlightWaiters = <<>>
        /\ roomWaiters = <<>> /\ sendQueue = <<>> /\ queuedBytes = 0
    BY <2>1 DEF Emptied
  <2>3. CASE Finally(c)
    BY <2>2, <2>3, WithoutEmpty DEF Finally, roomVars, pathVars
  <2>4. CASE Deadline(c)
    BY <2>2, <2>4, WithoutEmpty DEF Deadline, WakeOneInFlightWaiter, roomVars
  <2>5. CASE Cancel(c)
    BY <2>2, <2>5, WithoutEmpty DEF Cancel
  <2> QED BY <1>9, <2>3, <2>4, <2>5
<1>10. ASSUME Close \/ \E c \in Coroutines : WriteFails(c) PROVE Emptied'
  <2>1. CASE Close
    BY <2>1, ShutdownEmpties DEF Close
  <2>2. ASSUME NEW c \in Coroutines, WriteFails(c) PROVE Emptied'
    <3>1. CASE closed
      BY <1>1, <2>2, <3>1 DEF WriteFails, registryVars, roomVars
    <3>2. CASE ~closed
      BY <2>2, <3>2, ShutdownEmpties DEF WriteFails
    <3> QED BY <3>1, <3>2
  <2> QED BY <1>10, <2>1, <2>2
<1>11. CASE Reactor
  BY <1>0, <1>2, <1>3, <1>5, <1>7, <1>9, <1>11 DEF Reactor
<1> QED BY <1>0, <1>2, <1>3, <1>5, <1>8, <1>9, <1>10, <1>11 DEF Next

(* "every one releases all resources exactly once": a call that returned,  *)
(* whether by response, deadline, cancellation, refusal, write failure or  *)
(* close(), is in no table and no queue of the connection and the reactor  *)
(* will not resume it; a closed connection has empty tables and no bytes   *)
(* counted.                                                                *)
THEOREM EveryExitReleases == Spec => []Released
<1>1. Init => Emptied
  BY DEF Init, Emptied
<1>2. ConnInv /\ QueueInv /\ RegInv /\ Emptied => Released
  <2>1. SUFFICES ASSUME ConnInv, QueueInv, RegInv, Emptied, NEW c \in Callers, pc[c] = "done"
                 PROVE  /\ c \notin pending /\ c \notin slotCont /\ c \notin ToSet(inFlightWaiters)
                        /\ c \notin ToSet(roomWaiters) /\ c \notin ToSet(chanSenders)
                        /\ c \notin ToSet(ready)
    BY DEF Released, Emptied
  <2>2. c \notin pending
    BY <2>1 DEF RegInv, PendingAt, InFlightPoints, BeforePoints, GatePoints, AfterPoints
  <2>3. c \notin slotCont /\ c \notin ToSet(inFlightWaiters)
    BY <2>1 DEF QueueInv, SlotQueue
  <2>4. c \notin ToSet(roomWaiters) /\ c \notin ToSet(chanSenders)
    BY <2>1 DEF QueueInv, RoomQueue, ChanQueue
  <2>5. c \notin ToSet(ready)
    BY <2>1 DEF QueueInv, ReadyQueue, Resumable
  <2> QED BY <2>2, <2>3, <2>4, <2>5
<1>3. Spec => []Emptied
  <2>1. ConnInv /\ QueueInv /\ Emptied /\ [Next]_vars => Emptied'
    BY EmptiedStep
  <2> QED BY <1>1, <2>1, RegInvariant, PTL DEF Spec
<1> QED BY <1>2, <1>3, RegInvariant, PTL

-----------------------------------------------------------------------------
(* One writer *)

(* The points of Draining. *)
WriterPoints == {"start", "drain", "write"}

(* Only the write loop is ever at the loop's points. *)
CallersAt == \A c \in Callers : pc[c] \notin {"start", "receive", "recvParked", "dead"}

(* INLINE: there is a writer exactly while writerActive is set, and no     *)
(* open connection is left with data and without one.                      *)
InlineWriter ==
  /\ pc[Writer] \in WriterPoints \cup {"idle"}
  /\ \A c, d \in Draining : c = d
  /\ writerActive <=> Draining # {}
  /\ ~closed /\ (sendQueue # <<>> \/ writeBuf # <<>>) => Draining # {}

WriterInv == CallersAt /\ (WriteMode = "INLINE" => InlineWriter)

(* The same coroutine, if any, writes before and after the step. *)
LEMMA SameWriter ==
  ASSUME ConnInv, InlineWriter, writerActive' = writerActive, closed => closed',
         \A d \in Coroutines : pc'[d] \in WriterPoints <=> pc[d] \in WriterPoints,
         pc'[Writer] = pc[Writer] \/ pc'[Writer] \in WriterPoints,
         Draining # {} \/ (sendQueue' \in {sendQueue, <<>>} /\ writeBuf' \in {writeBuf, <<>>})
  PROVE  InlineWriter'
<1>1. Draining' = Draining
  BY DEF Draining, WriterPoints
<1> QED BY <1>1 DEF InlineWriter

(* A caller c away from the writer's points goes to another such point. *)
LEMMA CallerKeepsWriter ==
  ASSUME ConnInv, InlineWriter, NEW c \in Callers, writerActive' = writerActive, closed' = closed,
         pc[c] \notin WriterPoints, pc'[c] \notin WriterPoints,
         \A d \in Coroutines \ {c} : pc'[d] = pc[d],
         Draining # {} \/ UNCHANGED <<sendQueue, writeBuf>>
  PROVE  InlineWriter'
<1>1. Writer # c /\ Writer \in Coroutines
  BY RegTypes
<1> QED BY <1>1, SameWriter

(* The writer c goes on writing. *)
LEMMA WriterGoesOn ==
  ASSUME ConnInv, InlineWriter, NEW c \in Coroutines, NEW p \in WriterPoints,
         writerActive' = writerActive, closed' = closed,
         pc[c] \in WriterPoints, pc' = [pc EXCEPT ![c] = p]
  PROVE  InlineWriter'
<1>1. pc \in [Coroutines -> Points] /\ Writer \in Coroutines
  BY RegTypes
<1>2. Draining # {}
  BY DEF Draining, WriterPoints
<1> QED BY <1>1, <1>2, SameWriter

(* The writer c stops: nothing is left to write, or the connection closed. *)
LEMMA WriterStops ==
  ASSUME ConnInv, InlineWriter, NEW c \in Coroutines, writerActive' = FALSE,
         pc[c] \in WriterPoints,
         \A d \in Coroutines : d # c => (pc'[d] \in WriterPoints => pc[d] \in WriterPoints),
         pc'[c] \notin WriterPoints,
         pc'[Writer] \in {pc[Writer], "idle"},
         closed' \/ (sendQueue' = <<>> /\ writeBuf' = <<>>)
  PROVE  InlineWriter'
<1>1. c \in Draining
  BY DEF Draining, WriterPoints
<1>2. Draining' = {}
  <2>1. SUFFICES ASSUME NEW d \in Coroutines, pc'[d] \in WriterPoints PROVE FALSE
    BY DEF Draining, WriterPoints
  <2>2. d \in Draining /\ d # c
    BY <2>1 DEF Draining, WriterPoints
  <2> QED BY <1>1, <2>2 DEF InlineWriter
<1> QED BY <1>2 DEF InlineWriter

LEMMA InlineCallerSteps ==
  ASSUME ConnInv, InlineWriter, WriteMode = "INLINE", CallersAt, NEW c \in Callers,
         \/ CallClosed(c) \/ Send(c) \/ Request(c) \/ SlotTaken(c) \/ SlotRefused(c) \/ SlotWait(c)
         \/ AwaitSettled(c) \/ AwaitParks(c) \/ Finally(c) \/ SendReturns(c)
         \/ EnqueueTooLarge(c) \/ EnqueueAborted(c) \/ EnqueueWait(c) \/ RunChanWaiter(c)
  PROVE  InlineWriter'
<1>0. pc \in [Coroutines -> Points] /\ Callers \subseteq Coroutines /\ c # Writer
  BY RegTypes
<1>1. UNCHANGED <<closed, writerActive, sendQueue, writeBuf>>
  BY DEF CallClosed, Send, Request, SlotTaken, SlotRefused, SlotWait, AwaitSettled, AwaitParks, Finally,
     SendReturns, EnqueueTooLarge, EnqueueAborted, EnqueueWait, RunChanWaiter, OnlyCaller, pathVars, ioVars
<1>2. \E p : pc' = [pc EXCEPT ![c] = p] /\ p \notin WriterPoints /\ pc[c] \notin WriterPoints
  BY <1>0 DEF CallClosed, Send, Request, SlotTaken, SlotRefused, SlotWait, AwaitSettled, AwaitParks, Finally,
     SendReturns, EnqueueTooLarge, EnqueueAborted, EnqueueWait, RunChanWaiter, Running, Enqueuing,
     AfterEnqueue, GoTo, Finish, Return, WriterPoints
<1> QED BY <1>0, <1>1, <1>2, CallerKeepsWriter

LEMMA InlineRunSteps ==
  ASSUME ConnInv, InlineWriter, CallersAt, NEW c \in Coroutines, Run(c) \/ RunDead(c)
  PROVE  InlineWriter'
<1>0. pc \in [Coroutines -> Points] /\ Callers \subseteq Coroutines /\ Writer \in Coroutines
  BY RegTypes
<1>1. UNCHANGED <<closed, writerActive, sendQueue, writeBuf>>
  BY DEF Run, RunDead, pathVars, ioVars
<1>2. CASE RunDead(c)
  BY <1>1, <1>2, SameWriter DEF RunDead
<1>3. CASE Run(c) /\ c = Writer
  <2>1. pc[c] = "start" /\ pc' = [pc EXCEPT ![c] = "drain"]
    BY <1>3 DEF Run, RunSlotWaiter, RunRoomWaiter, RunAwaiter, RunWriter, GoTo, InlineWriter, WriterPoints
  <2> QED BY <1>1, <2>1, WriterGoesOn DEF WriterPoints
<1>4. CASE Run(c) /\ c \in Callers /\ c # Writer
  <2>1. \E p : pc' = [pc EXCEPT ![c] = p] /\ p \notin WriterPoints /\ pc[c] \notin WriterPoints
    BY <1>4 DEF Run, RunSlotWaiter, RunRoomWaiter, RunAwaiter, RunWriter, GoTo, Finish, WriterPoints
  <2> QED BY <1>0, <1>1, <1>4, <2>1, CallerKeepsWriter
<1> QED BY <1>2, <1>3, <1>4 DEF Coroutines

LEMMA InlineEvents ==
  ASSUME ConnInv, InlineWriter, CallersAt, NEW c \in Callers,
         \/ c \in Requests /\ Deadline(c)
         \/ \E r \in Requests : c \in Requests /\ RecvResponse(r, c)
         \/ Cancel(c)
  PROVE  InlineWriter'
<1>0. pc \in [Coroutines -> Points] /\ Callers \subseteq Coroutines /\ c # Writer
  BY RegTypes
<1>1. UNCHANGED <<closed, writerActive, sendQueue, writeBuf>>
  BY DEF Deadline, RecvResponse, Cancel, ioVars
<1>2. pc' = pc \/ (pc[c] = "chanParked" /\ pc' = [pc EXCEPT ![c] = "chanGate"])
  BY DEF Deadline, RecvResponse, Cancel, GatedIn
<1>3. CASE pc' = pc
  BY <1>1, <1>3, SameWriter
<1>4. CASE pc[c] = "chanParked" /\ pc' = [pc EXCEPT ![c] = "chanGate"]
  BY <1>0, <1>1, <1>4, CallerKeepsWriter DEF WriterPoints
<1> QED BY <1>2, <1>3, <1>4

(* A caller that queues a packet becomes the writer when there is none. *)
LEMMA InlineEnqueueStep ==
  ASSUME ConnInv, InlineWriter, NEW c \in Callers, EnqueueInline(c)
  PROVE  InlineWriter'
<1>0. pc \in [Coroutines -> Points] /\ Callers \subseteq Coroutines /\ c # Writer /\ Writer \in Coroutines
  BY RegTypes
<1>1. pc[c] = "enqueue" /\ writerActive' = TRUE /\ UNCHANGED closed
  BY DEF EnqueueInline, Enqueuing, Running
<1>2. CASE writerActive
  <2>1. Draining # {}
    BY <1>2 DEF InlineWriter
  <2>2. \E p : pc' = [pc EXCEPT ![c] = p] /\ p \notin WriterPoints
    BY <1>0, <1>2 DEF EnqueueInline, AfterEnqueue, GoTo, Finish, WriterPoints
  <2> QED BY <1>0, <1>1, <1>2, <2>1, <2>2, CallerKeepsWriter DEF WriterPoints
<1>3. CASE ~writerActive
  <2>1. Draining = {}
    BY <1>3 DEF InlineWriter
  <2>2. pc' = [pc EXCEPT ![c] = "drain"]
    BY <1>3 DEF EnqueueInline, GoTo
  <2>3. Draining' = {c}
    BY <1>0, <2>1, <2>2 DEF Draining
  <2>4. pc'[Writer] = pc[Writer]
    BY <1>0, <2>2
  <2> QED BY <1>1, <2>3, <2>4 DEF InlineWriter
<1> QED BY <1>2, <1>3

LEMMA InlineWriterSteps ==
  ASSUME ConnInv, InlineWriter, WriteMode = "INLINE", NEW c \in Coroutines,
         \/ DrainLeftover(c) \/ DrainNext(c) \/ DrainDone(c) \/ WriteReturns(c)
         \/ c \in Callers /\ WriteCancelled(c)
  PROVE  InlineWriter'
<1>0. pc \in [Coroutines -> Points] /\ Callers \subseteq Coroutines /\ Writer \in Coroutines
      /\ Writer \notin Callers
  BY RegTypes
<1>1. CASE DrainLeftover(c) \/ DrainNext(c) \/ WriteReturns(c)
  <2>1. /\ pc[c] \in WriterPoints /\ UNCHANGED <<closed, writerActive>>
        /\ \E p \in WriterPoints : pc' = [pc EXCEPT ![c] = p]
    BY <1>1 DEF DrainLeftover, DrainNext, WriteReturns, WriteDone, Running, GoTo, pathVars, WriterPoints
  <2> QED BY <2>1, WriterGoesOn
<1>2. CASE DrainDone(c)
  <2>1. /\ pc[c] \in WriterPoints /\ writerActive' = FALSE
        /\ closed' \/ (sendQueue' = <<>> /\ writeBuf' = <<>>)
        /\ \E p : /\ pc' = [pc EXCEPT ![c] = p] /\ p \notin WriterPoints
                  /\ c = Writer => p = "idle"
    BY <1>0, <1>2, CallersAssumption DEF DrainDone, Running, AfterEnqueue, GoTo, Finish, ioVars,
       WriterPoints, Callers
  <2> QED BY <1>0, <2>1, WriterStops
<1>3. CASE c \in Callers /\ WriteCancelled(c)
  <2>1. pc[c] = "write" /\ UNCHANGED <<closed, sendQueue>>
    BY <1>3 DEF WriteCancelled, HandOff
  <2>2. CASE ~closed /\ (writeBuf # <<>> \/ sendQueue # <<>>)
    <3>1. pc' = [pc EXCEPT ![c] = "finally", ![Writer] = "start"] /\ UNCHANGED <<writerActive, writeBuf>>
      BY <1>3, <2>2 DEF WriteCancelled, HandOff
    <3>2. c \in Draining
      BY <1>0, <2>1 DEF Draining
    <3>3. writerActive /\ \A d \in Draining : d = c
      BY <3>2 DEF InlineWriter
    <3>4. pc'[Writer] = "start" /\ pc'[c] = "finally"
      BY <1>0, <1>3, <3>1
    <3>5. \A d \in Coroutines \ {c, Writer} : pc'[d] = pc[d]
      BY <1>0, <3>1
    <3>6. Draining' = {Writer}
      BY <1>0, <3>3, <3>4, <3>5 DEF Draining
    <3> QED BY <3>1, <3>3, <3>4, <3>6 DEF InlineWriter, WriterPoints
  <2>3. CASE ~(~closed /\ (writeBuf # <<>> \/ sendQueue # <<>>))
    <3>1. pc' = [pc EXCEPT ![c] = "finally"] /\ writerActive' = FALSE /\ UNCHANGED writeBuf
      BY <1>3, <2>3 DEF WriteCancelled, HandOff
    <3> QED BY <1>0, <1>3, <2>1, <2>3, <3>1, WriterStops DEF WriterPoints
  <2> QED BY <2>2, <2>3
<1> QED BY <1>1, <1>2, <1>3

LEMMA InlineCloseSteps ==
  ASSUME ConnInv, QueueInv, InlineWriter, WriteMode = "INLINE",
         Close \/ \E c \in Coroutines : WriteFails(c)
  PROVE  InlineWriter'
<1>0. pc \in [Coroutines -> Points] /\ Callers \subseteq Coroutines /\ Writer \in Coroutines
      /\ Writer \notin Callers
  BY RegTypes
<1>1. ASSUME NEW points, Shutdown(points)
      PROVE  /\ \A d \in Coroutines : \/ pc'[d] = points[d]
                                      \/ pc[d] \notin WriterPoints /\ pc'[d] \notin WriterPoints
             /\ pc'[Writer] = points[Writer]
             /\ closed' /\ sendQueue' = <<>> /\ writeBuf' = writeBuf
  <2>1. \A d \in ToSet(roomWaiters) : pc[d] = "roomParked" /\ d # Writer
    BY <1>0, QueueTypes DEF QueueInv, RoomQueue
  <2>2. \A d \in GatedIn(pending) : pc[d] = "chanParked" /\ d # Writer
    BY <1>0, QueueTypes DEF GatedIn
  <2>3. \A d \in Coroutines : pc'[d] = CASE d \in ToSet(roomWaiters) -> "roomFailed"
                                         [] d \in GatedIn(pending) -> "chanGate"
                                         [] d = Writer /\ WriteMode = "CHANNEL" -> "dead"
                                         [] OTHER -> points[d]
    BY <1>1 DEF Shutdown
  <2>4. closed' /\ sendQueue' = <<>> /\ writeBuf' = writeBuf
    BY <1>1 DEF Shutdown, ioVars
  <2> QED BY <1>0, <2>1, <2>2, <2>3, <2>4 DEF WriterPoints
<1>2. CASE Close
  <2>1. Shutdown(pc) /\ writerActive' = writerActive
    BY <1>2 DEF Close
  <2> QED BY <1>1, <2>1, SameWriter
<1>3. ASSUME NEW c \in Coroutines, WriteFails(c) PROVE InlineWriter'
  <2> DEFINE next == [pc EXCEPT ![c] = IF c = Writer THEN "idle" ELSE "finally"]
  <2>1. /\ pc[c] \in WriterPoints /\ writerActive' = FALSE
        /\ Shutdown(next) \/ (pc' = next /\ closed')
    BY <1>3 DEF WriteFails, WriterPoints
  <2>2. /\ next[c] \notin WriterPoints /\ next[Writer] \in {pc[Writer], "idle"}
        /\ \A d \in Coroutines : d # c => next[d] = pc[d]
    BY <1>0 DEF WriterPoints
  <2> HIDE DEF next
  <2>3. CASE Shutdown(next)
    BY <1>1, <1>3, <2>1, <2>2, <2>3, WriterStops
  <2>4. CASE pc' = next /\ closed'
    BY <1>3, <2>1, <2>2, <2>4, WriterStops
  <2> QED BY <2>1, <2>3, <2>4
<1> QED BY <1>2, <1>3

LEMMA WriterInvStep == ConnInv /\ QueueInv /\ WriterInv /\ [Next]_vars => WriterInv'
<1> SUFFICES ASSUME ConnInv, QueueInv, WriterInv, [Next]_vars PROVE WriterInv'
  OBVIOUS
<1>0. /\ Requests \subseteq Callers /\ Senders \subseteq Callers
  BY RegTypes
<1>1. CallersAt /\ CallersAt'
  BY CallerMoves DEF WriterInv, CallersAt, Move, InFlightPoints, BeforePoints, GatePoints, AfterPoints
<1>2. ASSUME WriteMode = "INLINE" PROVE InlineWriter'
  <2>0. InlineWriter /\ WriteMode # "CHANNEL" /\ pc[Writer] # "receive"
    BY <1>2 DEF WriterInv, InlineWriter, WriterPoints
  <2>1. CASE Reactor
    <3>1. ASSUME NEW c \in Coroutines, Run(c) \/ RunDead(c) PROVE InlineWriter'
      BY <1>1, <2>0, <3>1, InlineRunSteps
    <3>2. ASSUME NEW c \in Callers,
                 \/ SlotTaken(c) \/ SlotRefused(c) \/ SlotWait(c)
                 \/ EnqueueTooLarge(c) \/ EnqueueAborted(c) \/ EnqueueWait(c) \/ RunChanWaiter(c)
                 \/ AwaitSettled(c) \/ AwaitParks(c) \/ Finally(c) \/ SendReturns(c)
          PROVE  InlineWriter'
      BY <1>1, <1>2, <2>0, <3>2, InlineCallerSteps
    <3>3. ASSUME NEW c \in Callers, EnqueueInline(c) \/ EnqueueChannel(c) \/ EnqueueChannelFull(c)
          PROVE  InlineWriter'
      BY <2>0, <3>3, InlineEnqueueStep DEF EnqueueChannel, EnqueueChannelFull
    <3>4. ASSUME NEW c \in Coroutines, DrainLeftover(c) \/ DrainNext(c) \/ DrainDone(c)
          PROVE  InlineWriter'
      BY <1>2, <2>0, <3>4, InlineWriterSteps
    <3>5. ~LoopTakes /\ ~LoopParks
      BY <2>0 DEF LoopTakes, LoopParks, Running
    <3> QED BY <1>0, <2>1, <3>1, <3>2, <3>3, <3>4, <3>5 DEF Reactor
  <2>2. ASSUME NEW c \in Callers, CallClosed(c) \/ Send(c) \/ Request(c) PROVE InlineWriter'
    BY <1>1, <1>2, <2>0, <2>2, InlineCallerSteps
  <2>3. ASSUME NEW c \in Callers, Cancel(c) \/ (c \in Requests /\ Deadline(c))
        PROVE  InlineWriter'
    BY <1>1, <2>0, <2>3, InlineEvents
  <2>4. ASSUME NEW r \in Requests, NEW p \in Requests, RecvResponse(r, p) PROVE InlineWriter'
    BY <1>0, <1>1, <2>0, <2>4, InlineEvents
  <2>5. ASSUME NEW c \in Coroutines, WriteReturns(c) \/ (c \in Callers /\ WriteCancelled(c))
        PROVE  InlineWriter'
    BY <1>2, <2>0, <2>5, InlineWriterSteps
  <2>6. CASE SocketWrite \/ UNCHANGED vars
    <3>1. /\ UNCHANGED <<pc, closed, writerActive, sendQueue>>
          /\ Draining # {} \/ writeBuf' = writeBuf
      BY <2>6 DEF SocketWrite, vars, reactorVars, pathVars, ioVars, Draining
    <3> QED BY <2>0, <3>1, SameWriter
  <2>7. CASE Close \/ \E c \in Coroutines : WriteFails(c)
    BY <1>2, <2>0, <2>7, InlineCloseSteps
  <2>8. Callers \subseteq Coroutines
    BY RegTypes
  <2> QED BY <1>0, <2>1, <2>2, <2>3, <2>4, <2>5, <2>6, <2>7, <2>8 DEF Next
<1> QED BY <1>1, <1>2 DEF WriterInv

LEMMA WriterInvariant == Spec => [](ConnInv /\ WriterInv)
<1>1. Init => WriterInv
  <2>1. ASSUME Init PROVE CallersAt /\ (WriteMode = "INLINE" => InlineWriter)
    <3>1. \A c \in Callers : pc[c] = "idle"
      BY <2>1, CallersAssumption DEF Init, Callers, Coroutines
    <3>2. ASSUME WriteMode = "INLINE" PROVE InlineWriter
      <4>1. \A c \in Coroutines : pc[c] = "idle"
        BY <2>1, <3>2 DEF Init
      <4>2. Draining = {} /\ pc[Writer] = "idle"
        BY <4>1 DEF Draining, Coroutines
      <4> QED BY <2>1, <4>2 DEF Init, InlineWriter
    <3> QED BY <3>1, <3>2 DEF CallersAt
  <2> QED BY <2>1 DEF WriterInv
<1>2. ConnInv /\ QueueInv /\ WriterInv /\ [Next]_vars => WriterInv'
  BY WriterInvStep
<1> QED BY <1>1, <1>2, RegInvariant, PTL DEF Spec

(* "Exactly one coroutine drains sendQueue at a time": never two writers,  *)
(* also while a cancelled writer hands its half-written packet to a        *)
(* successor; writerActive tells whether there is one, and data queued on  *)
(* an open connection always has one.                                      *)
THEOREM OneWriter == Spec => []SingleWriter
<1>1. ConnInv /\ WriterInv => SingleWriter
  <2>1. SUFFICES ASSUME ConnInv, WriterInv PROVE SingleWriter
    OBVIOUS
  <2>2. CASE WriteMode = "INLINE"
    BY <2>1, <2>2 DEF WriterInv, InlineWriter, SingleWriter
  <2>3. CASE WriteMode = "CHANNEL"
    <3>1. \A c \in Draining : c = Writer
      BY <2>1, <2>3 DEF WriterInv, CallersAt, ConnInv, WriteLoopAlone, Draining, Coroutines
    <3> QED BY <2>3, <3>1 DEF SingleWriter
  <2> QED BY <2>2, <2>3, ModeAssumption
<1> QED BY <1>1, WriterInvariant, PTL

-----------------------------------------------------------------------------
(* The registry implements RequestLifecycle *)

(* Phase and Verdict as functions of what they are computed from. *)
PhaseAt(point, entry, settlement) ==
  IF point = "idle" THEN "idle"
  ELSE IF point = "done" THEN "returned"
  ELSE IF entry THEN "inFlight"
  ELSE IF settlement # "none" THEN "settled" ELSE "waiting"

VerdictAt(point, number, settlement, result) ==
  IF point # "done" THEN settlement ELSE IF number = 0 THEN "refused" ELSE result

LEMMA PhaseTable ==
  ASSUME NEW r \in Requests
  PROVE  /\ Phase(r) = PhaseAt(pc[r], r \in pending, settled[r])
         /\ Phase(r)' = PhaseAt(pc'[r], r \in pending', settled'[r])
         /\ Verdict(r) = VerdictAt(pc[r], id[r], settled[r], outcome[r])
         /\ Verdict(r)' = VerdictAt(pc'[r], id'[r], settled'[r], outcome'[r])
  BY DEF Phase, Verdict, PhaseAt, VerdictAt

LEMMA InFlightIsPending ==
  ASSUME ConnInv, RegInv
  PROVE  Lifecycle!InFlight = pending
<1>1. ASSUME NEW r \in Requests PROVE Phase(r) = "inFlight" <=> r \in pending
  BY PhaseTable DEF PhaseAt, RegInv, PendingAt, InFlightPoints, BeforePoints, GatePoints, AfterPoints
<1> QED BY <1>1, RegTypes DEF Lifecycle!InFlight

(* What the lifecycle sees when at most the request r changes. *)
LEMMA OneChanges ==
  ASSUME NEW r \in Requests,
         \A s \in Requests \ {r} : Phase(s)' = Phase(s) /\ Verdict(s)' = Verdict(s)
  PROVE  /\ [s \in Requests |-> Phase(s)]' = [[s \in Requests |-> Phase(s)] EXCEPT ![r] = Phase(r)']
         /\ [s \in Requests |-> Verdict(s)]' = [[s \in Requests |-> Verdict(s)] EXCEPT ![r] = Verdict(r)']
  OBVIOUS

LEMMA QuietIsStutter ==
  ASSUME QuietStep
  PROVE  UNCHANGED Lifecycle!lifeVars
<1>1. ASSUME NEW r \in Requests PROVE Phase(r)' = Phase(r) /\ Verdict(r)' = Verdict(r)
  BY PhaseTable DEF QuietStep, PhaseAt, VerdictAt
<1> QED BY <1>1 DEF Lifecycle!lifeVars

LEMMA CallIsBegin ==
  ASSUME ConnInv, RegInv, NEW r \in Requests, Request(r) \/ CallClosed(r)
  PROVE  Lifecycle!Next
<1>0. /\ pc \in [Coroutines -> Points] /\ Requests \subseteq Callers /\ Callers \subseteq Coroutines
      /\ id \in [Requests -> 0 .. IdMax] /\ requestId \in 0 .. IdMax /\ IdMax \in Nat
      /\ outcome \in [Callers -> Outcomes]
  BY RegTypes
<1>1. pc[r] = "idle" /\ UNCHANGED <<pending, settled>>
  BY DEF Request, CallClosed, registryVars
<1>2. r \notin pending /\ settled[r] = "none" /\ id[r] = 0
  BY <1>1 DEF RegInv, IdsGiven, PendingAt, FreshUnsettled, InFlightPoints, BeforePoints, GatePoints, AfterPoints
<1>3. \A s \in Requests \ {r} : pc'[s] = pc[s] /\ id'[s] = id[s] /\ outcome'[s] = outcome[s]
  BY <1>0 DEF Request, CallClosed, GoTo, registryVars
<1>4. \A s \in Requests \ {r} : Phase(s)' = Phase(s) /\ Verdict(s)' = Verdict(s)
  BY <1>1, <1>3, PhaseTable
<1>5. Phase(r) = "idle" /\ Verdict(r) = "none"
  BY <1>1, <1>2, PhaseTable DEF PhaseAt, VerdictAt
<1>6. CASE pc'[r] = "slot"
  <2>1. Phase(r)' = "waiting" /\ Verdict(r)' = "none"
    BY <1>1, <1>2, <1>6, PhaseTable DEF PhaseAt, VerdictAt
  <2>2. Lifecycle!Begin(r)
    BY <1>4, <1>5, <2>1, OneChanges DEF Lifecycle!Begin
  <2> QED BY <2>2 DEF Lifecycle!Next
<1>7. CASE pc'[r] = "done" /\ id' = id
  <2>1. Phase(r)' = "returned" /\ Verdict(r)' = "refused"
    BY <1>2, <1>7, PhaseTable DEF PhaseAt, VerdictAt
  <2>2. Lifecycle!Refuse(r)
    BY <1>4, <1>5, <2>1, OneChanges DEF Lifecycle!Refuse
  <2> QED BY <2>2 DEF Lifecycle!Next
<1>8. pc'[r] = "slot" \/ (pc'[r] = "done" /\ id' = id)
  BY <1>0 DEF Request, CallClosed, GoTo, registryVars
<1> QED BY <1>6, <1>7, <1>8

LEMMA SlotIsAdmit ==
  ASSUME ConnInv, RegInv, NEW r \in Requests, SlotTaken(r)
  PROVE  Lifecycle!Next
<1>1. /\ pending' = pending \cup {r} /\ pc'[r] = "enqueue"
      /\ \A s \in Callers \ {r} : pc'[s] = pc[s]
  BY EntryStep
<1>2. pc[r] = "slot" /\ settled[r] = "none" /\ UNCHANGED <<id, settled, outcome>>
      /\ Cardinality(pending) < MaxInFlight
  <2>1. pc[r] = "slot" /\ settled[r] = "none" /\ UNCHANGED <<id, settled, outcome>> /\ ~SlotsFull
    BY DEF SlotTaken, Running, GoTo, IsSettled
  <2>2. Cardinality(pending) \in Nat /\ MaxInFlight \in Nat
    <3>1. IsFiniteSet(pending)
      BY RegTypes, CallersAssumption, FS_Subset
    <3> QED BY <3>1, LimitsAssumption, FS_CardinalityType
  <2> QED BY <2>1, <2>2 DEF SlotsFull
<1>3. r \notin pending
  BY <1>2 DEF RegInv, PendingAt, InFlightPoints, BeforePoints, GatePoints, AfterPoints
<1>4. \A s \in Requests \ {r} : Phase(s)' = Phase(s) /\ Verdict(s)' = Verdict(s)
  BY <1>1, <1>2, PhaseTable, RegTypes
<1>5. Phase(r) = "waiting" /\ Phase(r)' = "inFlight" /\ Verdict(r)' = Verdict(r)
  BY <1>1, <1>2, <1>3, PhaseTable DEF PhaseAt, VerdictAt
<1>6. Lifecycle!Cardinality(pending) = Cardinality(pending)
  BY DEF Lifecycle!Cardinality, Cardinality
<1>7. Lifecycle!Cardinality(Lifecycle!InFlight) < MaxInFlight
  BY <1>2, <1>6, InFlightIsPending
<1>8. Lifecycle!Admit(r)
  BY <1>4, <1>5, <1>7, OneChanges DEF Lifecycle!Admit
<1> QED BY <1>8 DEF Lifecycle!Next

LEMMA ResponseIsAnswer ==
  ASSUME ConnInv, RegInv, NEW r \in Requests, NEW p \in Requests, RecvResponse(r, p)
  PROVE  Lifecycle!Next
<1>0. Requests \subseteq Callers /\ settled \in [Requests -> Settlements]
  BY RegTypes
<1>1. /\ \A d \in Callers : /\ pc[d] = "idle" <=> pc'[d] = "idle"
                            /\ pc[d] = "done" <=> pc'[d] = "done"
      /\ p \in pending /\ pc[p] \notin {"idle", "done"}
      /\ pending' = pending \ {p} /\ settled' = [settled EXCEPT ![p] = "response"]
      /\ UNCHANGED <<id, outcome>>
  BY ResponseStep
<1>2. \A s \in Requests \ {p} : Phase(s)' = Phase(s) /\ Verdict(s)' = Verdict(s)
  BY <1>0, <1>1, PhaseTable DEF PhaseAt, VerdictAt
<1>3. Phase(p) = "inFlight" /\ Phase(p)' = "settled" /\ Verdict(p)' = "response"
  BY <1>0, <1>1, PhaseTable DEF PhaseAt, VerdictAt
<1>4. Lifecycle!Answer(p)
  BY <1>2, <1>3, OneChanges DEF Lifecycle!Answer
<1> QED BY <1>4 DEF Lifecycle!Next

LEMMA DeadlineIsExpire ==
  ASSUME ConnInv, RegInv, NEW r \in Requests, Deadline(r)
  PROVE  Lifecycle!Next
<1>0. Requests \subseteq Callers /\ settled \in [Requests -> Settlements]
  BY RegTypes
<1>1. /\ \A d \in Callers : /\ pc[d] = "idle" <=> pc'[d] = "idle"
                            /\ pc[d] = "done" <=> pc'[d] = "done"
      /\ pc[r] \notin {"idle", "done"} /\ settled[r] = "none"
      /\ pending' = pending \ {r} /\ settled' = [settled EXCEPT ![r] = "timeout"]
      /\ UNCHANGED <<id, outcome>>
  BY DeadlineStep
<1>2. \A s \in Requests \ {r} : Phase(s)' = Phase(s) /\ Verdict(s)' = Verdict(s)
  BY <1>0, <1>1, PhaseTable DEF PhaseAt, VerdictAt
<1>3. Phase(r) \in {"waiting", "inFlight"} /\ Phase(r)' = "settled" /\ Verdict(r)' = "timeout"
  BY <1>0, <1>1, PhaseTable DEF PhaseAt, VerdictAt
<1>4. Lifecycle!Expire(r)
  BY <1>2, <1>3, OneChanges DEF Lifecycle!Expire
<1> QED BY <1>4 DEF Lifecycle!Next

LEMMA FinallyIsReturn ==
  ASSUME ConnInv, RegInv, NEW r \in Requests, Finally(r)
  PROVE  Lifecycle!Next
<1>0. Requests \subseteq Callers
  BY RegTypes
<1>1. pc[r] = "finally" /\ UNCHANGED <<id, settled, outcome>> /\ ~SlotTaken(r)
  BY DEF Finally, SlotTaken, Running
<1>2. pending' = pending \ {r} /\ pc'[r] = "done" /\ \A s \in Callers \ {r} : pc'[s] = pc[s]
  BY <1>1, EntryStep
<1>3. id[r] # 0 /\ GoodExit(r, outcome[r]) /\ (r \in pending => settled[r] = "none")
  BY <1>1 DEF RegInv, IdsGiven, ExitAt, PendingAt
<1>4. \A s \in Requests \ {r} : Phase(s)' = Phase(s) /\ Verdict(s)' = Verdict(s)
  BY <1>0, <1>1, <1>2, PhaseTable
<1>5. /\ Phase(r)' = "returned" /\ Verdict(r)' = outcome[r] /\ Verdict(r) = settled[r]
      /\ Phase(r) = IF r \in pending THEN "inFlight" ELSE IF settled[r] # "none" THEN "settled" ELSE "waiting"
  BY <1>1, <1>2, <1>3, PhaseTable DEF PhaseAt, VerdictAt
<1>6. \/ Phase(r) = "settled" /\ outcome[r] \in {Verdict(r), "cancelled", "closed"}
      \/ Phase(r) \in {"waiting", "inFlight"} /\ outcome[r] \in {"cancelled", "closed", "tooLarge"}
  BY <1>3, <1>5 DEF GoodExit
<1>7. Lifecycle!Return(r, outcome[r])
  BY <1>4, <1>5, <1>6, OneChanges DEF Lifecycle!Return
<1>8. outcome[r] \in {"response", "timeout", "closed", "cancelled", "tooLarge"}
  <2>1. settled[r] \in Settlements
    BY RegTypes
  <2> QED BY <1>3, <2>1 DEF GoodExit, Settlements
<1> QED BY <1>7, <1>8 DEF Lifecycle!Next

LEMMA CloseIsShutdown ==
  ASSUME ConnInv, QueueInv, RegInv, ClosesRegistry
  PROVE  Lifecycle!Next
<1> DEFINE W == {r \in ToSet(inFlightWaiters) : settled[r] = "none"}
<1>0. W \subseteq Requests /\ pending \subseteq Requests
  BY QueueTypes
<1>1. Lifecycle!InFlight = pending
  BY InFlightIsPending
<1>2. ASSUME NEW r \in W PROVE r \notin pending /\ pc[r] \notin {"idle", "done"} /\ Phase(r) = "waiting"
  <2>1. pc[r] \in {"slotParked", "slot", "finally"} /\ settled[r] = "none" /\ r \in slotCont
    BY <1>2 DEF QueueInv, SlotQueue
  <2>2. pc[r] = "slotParked"
    BY <2>1 DEF QueueInv, SlotQueue
  <2>3. r \notin pending
    BY <2>2 DEF RegInv, PendingAt, InFlightPoints, BeforePoints, GatePoints, AfterPoints
  <2> QED BY <1>0, <1>2, <2>1, <2>2, <2>3, PhaseTable DEF PhaseAt
<1>3. ASSUME NEW r \in Requests
      PROVE  /\ Phase(r)' = IF r \in W \cup pending THEN "settled" ELSE Phase(r)
             /\ Verdict(r)' = IF r \in W \cup pending THEN "closed" ELSE Verdict(r)
  <2>1. r \in pending => pc[r] \notin {"idle", "done"} /\ settled[r] = "none"
    BY DEF RegInv, PendingAt, InFlightPoints, BeforePoints, GatePoints, AfterPoints
  <2>2. CASE r \in W \cup pending
    <3>1. settled'[r] = "closed" /\ pc'[r] \notin {"idle", "done"} /\ r \notin pending'
      BY <1>2, <2>1, <2>2 DEF ClosesRegistry
    <3> QED BY <2>2, <3>1, PhaseTable DEF PhaseAt, VerdictAt
  <2>3. CASE r \notin W \cup pending
    <3>1. settled'[r] = settled[r] /\ id'[r] = id[r] /\ r \notin pending'
      BY <2>3 DEF ClosesRegistry
    <3> QED BY <2>3, <3>1, PhaseTable DEF PhaseAt, VerdictAt, ClosesRegistry
  <2> QED BY <2>2, <2>3
<1> HIDE DEF W
<1>4. Lifecycle!Shutdown(W)
  BY <1>0, <1>1, <1>2, <1>3 DEF Lifecycle!Shutdown
<1> QED BY <1>0, <1>4 DEF Lifecycle!Next

LEMMA LifecycleInit == Init => Lifecycle!Init
<1> SUFFICES ASSUME Init PROVE Lifecycle!Init
  OBVIOUS
<1>1. ASSUME NEW r \in Requests PROVE Phase(r) = "idle" /\ Verdict(r) = "none"
  <2>1. pc[r] = "idle" /\ settled[r] = "none"
    BY CallersAssumption DEF Init, Callers, Coroutines
  <2> QED BY <2>1, PhaseTable DEF PhaseAt, VerdictAt
<1> QED BY <1>1 DEF Lifecycle!Init

LEMMA LifecycleStep ==
  ConnInv /\ QueueInv /\ RegInv /\ [Next]_vars => [Lifecycle!Next]_(Lifecycle!lifeVars)
<1> SUFFICES ASSUME ConnInv, QueueInv, RegInv, [Next]_vars
             PROVE  Lifecycle!Next \/ UNCHANGED Lifecycle!lifeVars
  OBVIOUS
<1>0. Requests \subseteq Callers /\ Senders \subseteq Callers /\ Callers \subseteq Coroutines
      /\ Writer \in Coroutines /\ Callers = Requests \cup Senders
  BY RegTypes DEF Callers
<1>1. ASSUME NEW r \in Requests,
             Request(r) \/ CallClosed(r) \/ SlotTaken(r) \/ Deadline(r) \/ Finally(r)
      PROVE  Lifecycle!Next
  BY <1>1, CallIsBegin, SlotIsAdmit, DeadlineIsExpire, FinallyIsReturn
<1>2. ASSUME NEW r \in Requests, NEW p \in Requests, RecvResponse(r, p) PROVE Lifecycle!Next
  BY <1>2, ResponseIsAnswer
<1>3. CASE Close \/ \E c \in Coroutines : WriteFails(c)
  BY <1>3, CloseStep, CloseIsShutdown, QuietIsStutter
<1>4. ASSUME NEW c \in Callers,
             \/ c \in Senders /\ (CallClosed(c) \/ Send(c) \/ SendReturns(c))
             \/ c \in Requests /\ (SlotRefused(c) \/ SlotWait(c) \/ AwaitSettled(c) \/ AwaitParks(c))
      PROVE  QuietStep
  BY <1>4, QuietCallerSteps
<1>5. ASSUME NEW c \in Callers,
             \/ EnqueueTooLarge(c) \/ EnqueueAborted(c) \/ EnqueueWait(c)
             \/ EnqueueInline(c) \/ EnqueueChannel(c) \/ EnqueueChannelFull(c)
      PROVE  QuietStep
  BY <1>5, QuietEnqueueSteps
<1>6. ASSUME NEW c \in Coroutines, Run(c) \/ RunDead(c) \/ (c \in Callers /\ RunChanWaiter(c))
      PROVE  QuietStep
  BY <1>6, QuietRunSteps
<1>7. ASSUME NEW c \in Coroutines,
             \/ DrainLeftover(c) \/ DrainNext(c) \/ DrainDone(c) \/ WriteReturns(c)
             \/ c \in Callers /\ WriteCancelled(c)
             \/ c = Writer /\ LoopParks
      PROVE  QuietStep
  BY <1>7, QuietWriterSteps
<1>8. CASE LoopTakes
  BY <1>8, QuietLoopTakes, QuietIsStutter
<1>9. CASE SocketWrite \/ UNCHANGED vars \/ \E c \in Callers : Cancel(c)
  BY <1>9, QuietEvents, QuietIsStutter
<1>10. CASE Reactor
  <2>1. Lifecycle!Next \/ QuietStep \/ LoopTakes
    BY <1>0, <1>1, <1>4, <1>5, <1>6, <1>7, <1>10 DEF Reactor
  <2> QED BY <1>8, <2>1, QuietIsStutter
<1>11. Next => Lifecycle!Next \/ QuietStep \/ Reactor \/ SocketWrite \/ Close
               \/ (\E c \in Callers : Cancel(c)) \/ \E c \in Coroutines : WriteFails(c)
  BY <1>0, <1>1, <1>2, <1>4, <1>7 DEF Next
<1> QED BY <1>3, <1>9, <1>10, <1>11, QuietIsStutter

(* The registry keeps the lifecycle contract: with deadlines, responses,   *)
(* cancellations, write failures and close() in any order, a request is    *)
(* admitted only to a free slot, settles at most once, gives its slot back *)
(* when it does, and returns once, with what settled it or an overtaking   *)
(* cancellation or close.                                                  *)
THEOREM ConnectionKeepsContract == Spec => RequestContract
<1>1. Init => Lifecycle!Init
  BY LifecycleInit
<1>2. ConnInv /\ QueueInv /\ RegInv /\ [Next]_vars => [Lifecycle!Next]_(Lifecycle!lifeVars)
  BY LifecycleStep
<1> QED BY <1>1, <1>2, RegInvariant, PTL DEF Spec, RequestContract, Lifecycle!Spec

-----------------------------------------------------------------------------
(* Induction over a set of numbers *)

LEMMA LeastNumber ==
  ASSUME NEW T, T \subseteq Nat, T # {}
  PROVE  \E n \in T : \A m \in T : ~(m < n)
<1> DEFINE R == OpToRel(<, Nat)
<1>1. IsWellFoundedOn(R, Nat)
  BY NatLessThanWellFounded DEF OpToRel
<1>2. R = {ss \in Nat \X Nat : ss[1] < ss[2]}
  BY DEF OpToRel
<1> HIDE DEF R
<1>3. \E x \in T : \A y \in T : ~(<<y, x>> \in R)
  BY <1>1, WFMin
<1> QED BY <1>2, <1>3

LEMMA NumberInduction ==
  ASSUME NEW G, 0 \in G, \A n \in Nat : n \in G => n + 1 \in G
  PROVE  Nat \subseteq G
<1> SUFFICES ASSUME ~(Nat \subseteq G) PROVE FALSE
  OBVIOUS
<1> DEFINE T == Nat \ G
<1>1. T \subseteq Nat /\ T # {}
  OBVIOUS
<1>2. PICK n \in T : \A m \in T : ~(m < n)
  BY <1>1, LeastNumber
<1>3. n # 0 /\ n - 1 \in Nat
  BY <1>2
<1>4. n - 1 \in G
  BY <1>2, <1>3
<1> QED BY <1>2, <1>3, <1>4

-----------------------------------------------------------------------------
(* The chunks of a sequence of packets *)

Chunks == Callers \X {1, 2}

(* Chunk k of the packets s, two chunks per packet, and the chunks of the  *)
(* first n packets.                                                        *)
Chunk(s, k) == <<s[(k + 1) \div 2], IF k % 2 = 1 THEN 1 ELSE 2>>
ChunksOf(s, n) == [k \in 1 .. 2 * n |-> Chunk(s, k)]

LEMMA EncodeChunks ==
  ASSUME NEW c \in Callers
  PROVE  /\ Encode(c) \in Seq(Chunks) /\ Len(Encode(c)) = 2
         /\ Encode(c)[1] = <<c, 1>> /\ Encode(c)[2] = <<c, 2>>
<1>1. PICK x, y : x = <<c, 1>> /\ y = <<c, 2>>
  OBVIOUS
<1>2. x \in Chunks /\ y \in Chunks /\ Encode(c) = <<x, y>>
  BY <1>1 DEF Encode, Chunks
<1>3. <<x, y>> \in Seq(Chunks) /\ Len(<<x, y>>) = 2 /\ <<x, y>>[1] = x /\ <<x, y>>[2] = y
  BY <1>2
<1> QED BY <1>1, <1>2, <1>3

LEMMA ChunksType ==
  ASSUME NEW s \in Seq(Callers), NEW n \in 0 .. Len(s)
  PROVE  /\ ChunksOf(s, n) \in Seq(Chunks) /\ Len(ChunksOf(s, n)) = 2 * n
         /\ \A k \in 1 .. 2 * n : ChunksOf(s, n)[k] = Chunk(s, k)
<1>1. Len(s) \in Nat /\ n \in Nat /\ \A i \in 1 .. Len(s) : s[i] \in Callers
  OBVIOUS
<1>2. ASSUME NEW k \in 1 .. 2 * n PROVE Chunk(s, k) \in Chunks
  <2>1. (k + 1) \div 2 \in 1 .. Len(s)
    BY <1>1
  <2> QED BY <1>1, <2>1 DEF Chunk, Chunks
<1>3. ChunksOf(s, n) \in [1 .. 2 * n -> Chunks]
  BY <1>2 DEF ChunksOf
<1>4. 2 * n \in Nat
  BY <1>1
<1> QED BY <1>3, <1>4 DEF ChunksOf

LEMMA ChunksGrow ==
  ASSUME NEW s \in Seq(Callers), NEW n \in 1 .. Len(s)
  PROVE  ChunksOf(s, n) = ChunksOf(s, n - 1) \o Encode(s[n])
<1> DEFINE a == ChunksOf(s, n - 1)
           b == Encode(s[n])
           t == ChunksOf(s, n)
<1>1. Len(s) \in Nat /\ n - 1 \in 0 .. Len(s) /\ n \in 0 .. Len(s) /\ s[n] \in Callers
  OBVIOUS
<1>2. /\ a \in Seq(Chunks) /\ Len(a) = 2 * (n - 1)
      /\ \A k \in 1 .. 2 * (n - 1) : a[k] = Chunk(s, k)
  BY <1>1, ChunksType
<1>3. t \in Seq(Chunks) /\ Len(t) = 2 * n /\ \A k \in 1 .. 2 * n : t[k] = Chunk(s, k)
  BY <1>1, ChunksType
<1>4. b \in Seq(Chunks) /\ Len(b) = 2 /\ b[1] = <<s[n], 1>> /\ b[2] = <<s[n], 2>>
  <2>1. PICK c \in Callers : c = s[n]
    BY <1>1
  <2> QED BY <2>1, EncodeChunks
<1> HIDE DEF a, b, t
<1>5. /\ a \o b \in Seq(Chunks) /\ Len(a \o b) = Len(a) + Len(b)
      /\ \A i \in 1 .. Len(a) + Len(b) : (a \o b)[i] = IF i <= Len(a) THEN a[i] ELSE b[i - Len(a)]
  BY <1>2, <1>4, ConcatProperties
<1>6. Len(a) + Len(b) = 2 * n
  BY <1>1, <1>2, <1>4
<1>7. ASSUME NEW k \in 1 .. 2 * n PROVE t[k] = (a \o b)[k]
  <2>1. CASE k <= 2 * (n - 1)
    <3>1. k \in 1 .. 2 * (n - 1)
      BY <1>1, <2>1
    <3> QED BY <1>2, <1>3, <1>5, <1>6, <2>1, <3>1
  <2>2. CASE k = 2 * (n - 1) + 1
    <3>1. (k + 1) \div 2 = n /\ k % 2 = 1 /\ ~(k <= 2 * (n - 1)) /\ k - 2 * (n - 1) = 1
      BY <1>1, <2>2
    <3>2. (a \o b)[k] = b[1]
      BY <1>2, <1>5, <1>6, <3>1
    <3>3. t[k] = <<s[n], 1>>
      BY <1>3, <3>1 DEF Chunk
    <3> QED BY <1>4, <3>2, <3>3
  <2>3. CASE k = 2 * (n - 1) + 2
    <3>1. (k + 1) \div 2 = n /\ k % 2 # 1 /\ ~(k <= 2 * (n - 1)) /\ k - 2 * (n - 1) = 2
      BY <1>1, <2>3
    <3>2. (a \o b)[k] = b[2]
      BY <1>2, <1>5, <1>6, <3>1
    <3>3. t[k] = <<s[n], 2>>
      BY <1>3, <3>1 DEF Chunk
    <3> QED BY <1>4, <3>2, <3>3
  <2>4. k <= 2 * (n - 1) \/ k = 2 * (n - 1) + 1 \/ k = 2 * (n - 1) + 2
    BY <1>1
  <2> QED BY <2>1, <2>2, <2>3, <2>4
<1>8. Len(t) = Len(a \o b) /\ \A k \in 1 .. Len(t) : t[k] = (a \o b)[k]
  BY <1>3, <1>5, <1>6, <1>7
<1>9. t = a \o b
  BY <1>3, <1>5, <1>8, SeqEqual
<1> QED BY <1>9 DEF a, b, t

(* FlattenSeq in closed form: EncodeAll(s) is all the chunks of s. *)
LEMMA EncodeAllForm ==
  ASSUME NEW s \in Seq(Callers)
  PROVE  EncodeAll(s) = ChunksOf(s, Len(s))
<1> DEFINE n == Len(s)
           e == [i \in DOMAIN s |-> Encode(s[i])]
           h == [i \in 1 .. n |-> ChunksOf(s, i)]
           step(g) == [i \in 1 .. n |-> IF i = 1 THEN e[i] ELSE g[i - 1] \o e[i]]
           flatten == CHOOSE g : g = step(g)
<1>1. n \in Nat /\ DOMAIN s = 1 .. n /\ DOMAIN e = 1 .. n /\ Len(e) = n
  OBVIOUS
<1>2. CASE n = 0
  <2>1. EncodeAll(s) = e
    BY <1>1, <1>2 DEF EncodeAll, FlattenSeq
  <2>2. 1 .. 2 * n = {} /\ DOMAIN e = {}
    BY <1>1, <1>2
  <2>3. e = ChunksOf(s, n)
    BY <1>1, <2>2 DEF ChunksOf
  <2> QED BY <2>1, <2>3
<1>3. CASE n # 0
  <2>1. EncodeAll(s) = flatten[n]
    BY <1>1, <1>3 DEF EncodeAll, FlattenSeq
  <2>2. ASSUME NEW i \in 1 .. n
        PROVE  h[i] = IF i = 1 THEN e[i] ELSE h[i - 1] \o e[i]
    <3>1. ChunksOf(s, i) = ChunksOf(s, i - 1) \o Encode(s[i])
      BY ChunksGrow
    <3>2. CASE i = 1
      <4>1. ChunksOf(s, i - 1) = <<>>
        BY <3>2 DEF ChunksOf
      <4>2. Encode(s[1]) \in Seq(Chunks)
        <5>1. PICK c \in Callers : c = s[1]
          BY <1>1, <3>2
        <5> QED BY <5>1, EncodeChunks
      <4>3. <<>> \o Encode(s[1]) = Encode(s[1])
        BY <4>2, ConcatEmptySeq
      <4>4. ChunksOf(s, 1) = Encode(s[1])
        BY <3>1, <3>2, <4>1, <4>3
      <4>5. 1 \in 1 .. n /\ h[1] = ChunksOf(s, 1) /\ e[1] = Encode(s[1])
        BY <1>1, <3>2
      <4> QED BY <3>2, <4>4, <4>5
    <3>3. CASE i # 1
      <4>1. i - 1 \in 1 .. n
        BY <1>1, <3>3
      <4> QED BY <1>1, <3>1, <3>3, <4>1
    <3> QED BY <3>2, <3>3
  <2>3. h = step(h)
    BY <2>2
  <2>4. flatten = step(flatten)
    BY <2>3
  <2> DEFINE G == {m \in Nat : m \in 1 .. n => flatten[m] = h[m]}
  <2> HIDE DEF flatten, h
  <2>5. 0 \in G
    BY <1>1
  <2>6. ASSUME NEW m \in Nat, m \in G PROVE m + 1 \in G
    <3>1. SUFFICES ASSUME m + 1 \in 1 .. n PROVE flatten[m + 1] = h[m + 1]
      OBVIOUS
    <3>2. flatten[m + 1] = IF m + 1 = 1 THEN e[m + 1] ELSE flatten[(m + 1) - 1] \o e[m + 1]
      BY <2>4, <3>1
    <3>3. h[m + 1] = IF m + 1 = 1 THEN e[m + 1] ELSE h[(m + 1) - 1] \o e[m + 1]
      BY <2>2, <3>1
    <3>4. m + 1 # 1 => (m + 1) - 1 = m /\ m \in 1 .. n
      BY <1>1, <3>1
    <3>5. m \in 1 .. n => flatten[m] = h[m]
      BY <2>6
    <3> QED BY <3>2, <3>3, <3>4, <3>5
  <2>7. n \in G
    <3> HIDE DEF G, n
    <3>1. Nat \subseteq G
      BY <2>5, <2>6, NumberInduction
    <3> QED BY <1>1, <3>1
  <2>8. flatten[n] = h[n]
    BY <1>1, <1>3, <2>7
  <2> QED BY <1>1, <1>3, <2>1, <2>8 DEF h
<1> QED BY <1>2, <1>3

LEMMA EncodeAllChunks ==
  ASSUME NEW s \in Seq(Callers)
  PROVE  /\ EncodeAll(s) \in Seq(Chunks) /\ Len(EncodeAll(s)) = 2 * Len(s)
         /\ \A k \in 1 .. 2 * Len(s) : EncodeAll(s)[k] = Chunk(s, k)
<1>1. Len(s) \in 0 .. Len(s)
  OBVIOUS
<1>2. PICK n \in 0 .. Len(s) : n = Len(s)
  BY <1>1
<1>3. /\ ChunksOf(s, n) \in Seq(Chunks) /\ Len(ChunksOf(s, n)) = 2 * n
      /\ \A k \in 1 .. 2 * n : ChunksOf(s, n)[k] = Chunk(s, k)
  BY ChunksType
<1>4. EncodeAll(s) = ChunksOf(s, n)
  BY <1>2, EncodeAllForm
<1> QED BY <1>2, <1>3, <1>4

LEMMA EncodeNone == EncodeAll(<<>>) = <<>>
<1>1. <<>> \in Seq(Callers) /\ Len(<<>>) = 0
  OBVIOUS
<1>2. EncodeAll(<<>>) \in Seq(Chunks) /\ Len(EncodeAll(<<>>)) = 0
  <2>1. PICK s \in Seq(Callers) : s = <<>>
    BY <1>1
  <2>2. EncodeAll(s) \in Seq(Chunks) /\ Len(EncodeAll(s)) = 2 * Len(s)
    BY EncodeAllChunks
  <2> QED BY <2>1, <2>2
<1> QED BY <1>2

LEMMA EncodeOne ==
  ASSUME NEW c \in Callers
  PROVE  EncodeAll(<<c>>) = Encode(c)
<1>1. PICK s : s = <<c>>
  OBVIOUS
<1>2. s \in Seq(Callers) /\ Len(s) = 1 /\ s[1] = c
  BY <1>1
<1>3. EncodeAll(s) = ChunksOf(s, 1)
  BY <1>2, EncodeAllForm
<1>4. ChunksOf(s, 1) = ChunksOf(s, 1 - 1) \o Encode(c)
  <2>1. PICK n \in 1 .. Len(s) : n = 1
    BY <1>2
  <2>2. ChunksOf(s, n) = ChunksOf(s, n - 1) \o Encode(s[n])
    BY <1>2, ChunksGrow
  <2> QED BY <1>2, <2>1, <2>2
<1>5. ChunksOf(s, 1 - 1) = <<>>
  BY DEF ChunksOf
<1>6. Encode(c) \in Seq(Chunks)
  BY EncodeChunks
<1>7. <<>> \o Encode(c) = Encode(c)
  BY <1>6, ConcatEmptySeq
<1> QED BY <1>1, <1>3, <1>4, <1>5, <1>7

(* Packets one after the other are chunks one after the other. *)
LEMMA EncodeConcat ==
  ASSUME NEW s \in Seq(Callers), NEW t \in Seq(Callers)
  PROVE  EncodeAll(s \o t) = EncodeAll(s) \o EncodeAll(t)
<1>1. PICK u : u = s \o t
  OBVIOUS
<1>2. /\ u \in Seq(Callers) /\ Len(u) = Len(s) + Len(t) /\ Len(s) \in Nat /\ Len(t) \in Nat
      /\ \A i \in 1 .. Len(s) + Len(t) : u[i] = IF i <= Len(s) THEN s[i] ELSE t[i - Len(s)]
  BY <1>1, ConcatProperties, LenProperties
<1>3. PICK a, b, d : a = EncodeAll(s) /\ b = EncodeAll(t) /\ d = EncodeAll(u)
  OBVIOUS
<1>4. a \in Seq(Chunks) /\ Len(a) = 2 * Len(s) /\ \A k \in 1 .. 2 * Len(s) : a[k] = Chunk(s, k)
  BY <1>3, EncodeAllChunks
<1>5. b \in Seq(Chunks) /\ Len(b) = 2 * Len(t) /\ \A k \in 1 .. 2 * Len(t) : b[k] = Chunk(t, k)
  BY <1>3, EncodeAllChunks
<1>6. d \in Seq(Chunks) /\ Len(d) = 2 * Len(u) /\ \A k \in 1 .. 2 * Len(u) : d[k] = Chunk(u, k)
  BY <1>2, <1>3, EncodeAllChunks
<1>7. /\ a \o b \in Seq(Chunks) /\ Len(a \o b) = Len(a) + Len(b)
      /\ \A i \in 1 .. Len(a) + Len(b) : (a \o b)[i] = IF i <= Len(a) THEN a[i] ELSE b[i - Len(a)]
  BY <1>4, <1>5, ConcatProperties
<1>8. Len(a) + Len(b) = 2 * Len(u)
  BY <1>2, <1>4, <1>5
<1>9. ASSUME NEW k \in 1 .. 2 * Len(u) PROVE d[k] = (a \o b)[k]
  <2>1. PICK i : i = (k + 1) \div 2
    OBVIOUS
  <2>2. i \in 1 .. Len(s) + Len(t)
    BY <1>2, <2>1
  <2>3. CASE k <= 2 * Len(s)
    <3>1. k \in 1 .. 2 * Len(s) /\ i <= Len(s)
      BY <1>2, <2>1, <2>3
    <3>2. (a \o b)[k] = Chunk(s, k)
      BY <1>4, <1>7, <1>8, <2>3, <3>1
    <3>3. Chunk(u, k) = Chunk(s, k)
      BY <1>2, <2>1, <2>2, <3>1 DEF Chunk
    <3> QED BY <1>6, <3>2, <3>3
  <2>4. CASE ~(k <= 2 * Len(s))
    <3>1. PICK j : j = k - 2 * Len(s)
      OBVIOUS
    <3>2. j \in 1 .. 2 * Len(t) /\ ~(i <= Len(s)) /\ (j + 1) \div 2 = i - Len(s) /\ j % 2 = k % 2
      <4>1. PICK m \in Nat : m = Len(s)
        BY <1>2
      <4>2. j \in 1 .. 2 * Len(t)
        BY <1>2, <2>4, <3>1
      <4>3. k \in Nat /\ k > 2 * m
        BY <2>4, <4>1
      <4>4. j = k - 2 * m
        BY <3>1, <4>1
      <4>5. (j + 1) \div 2 = ((k + 1) \div 2) - m /\ j % 2 = k % 2 /\ (k + 1) \div 2 > m
        BY <4>3, <4>4
      <4> QED BY <2>1, <4>1, <4>2, <4>5
    <3>3. (a \o b)[k] = Chunk(t, j)
      BY <1>4, <1>5, <1>7, <1>8, <2>4, <3>1, <3>2
    <3>4. Chunk(u, k) = Chunk(t, j)
      BY <1>2, <2>1, <2>2, <3>2 DEF Chunk
    <3> QED BY <1>6, <3>3, <3>4
  <2> QED BY <2>3, <2>4
<1>10. d = a \o b
  <2>1. Len(d) = Len(a \o b) /\ \A k \in 1 .. Len(d) : d[k] = (a \o b)[k]
    BY <1>6, <1>7, <1>8, <1>9
  <2> QED BY <1>6, <1>7, <2>1, SeqEqual
<1> QED BY <1>1, <1>3, <1>10

-----------------------------------------------------------------------------
(* What is on the wire, in the write buffer and on the path is what was    *)
(* accepted                                                                *)

Conserved(out, rest, path, all) == out \o rest \o EncodeAll(path) = EncodeAll(all)

LEMMA OnePacket ==
  ASSUME NEW T, NEW e \in T
  PROVE  <<e>> \in Seq(T)
  OBVIOUS

LEMMA ChunksAssociate ==
  \A a, b, d \in Seq(Chunks) : (a \o b) \o d = a \o (b \o d)
<1> TAKE a, b, d \in Seq(Chunks)
<1> QED BY ConcatAssociative

(* A packet is accepted and queued. *)
LEMMA AcceptConserves ==
  ASSUME NEW out \in Seq(Chunks), NEW rest \in Seq(Chunks), NEW path \in Seq(Callers),
         NEW all \in Seq(Callers), NEW c \in Callers, Conserved(out, rest, path, all)
  PROVE  Conserved(out, rest, Append(path, c), Append(all, c))
<1>1. PICK one \in Seq(Callers) : one = <<c>>
  BY OnePacket
<1>2. Append(path, c) = path \o one /\ Append(all, c) = all \o one
  BY <1>1, AppendIsConcat
<1>3. /\ EncodeAll(path \o one) = EncodeAll(path) \o EncodeAll(one)
      /\ EncodeAll(all \o one) = EncodeAll(all) \o EncodeAll(one)
  BY EncodeConcat
<1>4. out \o rest \in Seq(Chunks) /\ EncodeAll(path) \in Seq(Chunks) /\ EncodeAll(one) \in Seq(Chunks)
  BY EncodeAllChunks, ConcatProperties
<1>5. PICK a \in Seq(Chunks), b \in Seq(Chunks), d \in Seq(Chunks) :
        a = out \o rest /\ b = EncodeAll(path) /\ d = EncodeAll(one)
  BY <1>4
<1>6. (a \o b) \o d = a \o (b \o d)
  BY ChunksAssociate, Zenon
<1>7. a \o b = EncodeAll(all)
  BY <1>5 DEF Conserved
<1> QED BY <1>2, <1>3, <1>5, <1>6, <1>7 DEF Conserved

(* The writer, with an empty write buffer, encodes the next packet. *)
LEMMA TakeConserves ==
  ASSUME NEW out \in Seq(Chunks), NEW path \in Seq(Callers), NEW all \in Seq(Callers),
         NEW c \in Callers, Conserved(out, <<>>, <<c>> \o path, all)
  PROVE  Conserved(out, Encode(c), path, all)
<1>1. PICK one \in Seq(Callers) : one = <<c>>
  BY OnePacket
<1>2. EncodeAll(one \o path) = EncodeAll(one) \o EncodeAll(path) /\ EncodeAll(one) = Encode(c)
  BY <1>1, EncodeConcat, EncodeOne
<1>3. PICK x, p : x = Encode(c) /\ p = EncodeAll(path)
  OBVIOUS
<1>4. x \in Seq(Chunks) /\ p \in Seq(Chunks)
  BY <1>3, EncodeChunks, EncodeAllChunks
<1>5. (out \o x) \o p = out \o (x \o p) /\ out \o <<>> = out
  BY <1>4, ConcatAssociative, ConcatEmptySeq
<1>6. (out \o <<>>) \o EncodeAll(one \o path) = EncodeAll(all)
  BY <1>1 DEF Conserved
<1> QED BY <1>2, <1>3, <1>5, <1>6 DEF Conserved

(* The socket takes a chunk. *)
LEMMA WriteConserves ==
  ASSUME NEW out \in Seq(Chunks), NEW rest \in Seq(Chunks), NEW path \in Seq(Callers),
         NEW all \in Seq(Callers), rest # <<>>, Conserved(out, rest, path, all)
  PROVE  Conserved(Append(out, Head(rest)), Tail(rest), path, all)
<1>1. PICK h \in Chunks, t \in Seq(Chunks) : h = Head(rest) /\ t = Tail(rest)
  BY HeadTailProperties
<1>2. PICK one \in Seq(Chunks) : one = <<h>>
  BY OnePacket
<1>3. rest = one \o t
  BY <1>1, <1>2
<1>4. Append(out, h) = out \o one
  BY <1>2, AppendIsConcat
<1>5. (out \o one) \o t = out \o (one \o t)
  BY ConcatAssociative
<1> QED BY <1>1, <1>3, <1>4, <1>5 DEF Conserved

LEMMA ConcatPrefix ==
  ASSUME NEW a \in Seq(Chunks), NEW b \in Seq(Chunks)
  PROVE  IsPrefix(a, a \o b)
<1>1. PICK t : t = a \o b
  OBVIOUS
<1>2. /\ t \in Seq(Chunks) /\ Len(t) = Len(a) + Len(b) /\ Len(a) \in Nat /\ Len(b) \in Nat
      /\ \A i \in 1 .. Len(a) + Len(b) : t[i] = IF i <= Len(a) THEN a[i] ELSE b[i - Len(a)]
  BY <1>1, ConcatProperties, LenProperties
<1>3. SubSeq(a, 1, Len(a)) = SubSeq(t, 1, Len(a))
  BY <1>2
<1> QED BY <1>1, <1>2, <1>3 DEF IsPrefix

LEMMA ConservedPrefix ==
  ASSUME NEW out \in Seq(Chunks), NEW rest \in Seq(Chunks), NEW path \in Seq(Callers),
         NEW all \in Seq(Callers), Conserved(out, rest, path, all)
  PROVE  IsPrefix(out, EncodeAll(all))
<1>1. PICK p \in Seq(Chunks) : p = EncodeAll(path)
  BY EncodeAllChunks
<1>2. rest \o p \in Seq(Chunks)
  BY ConcatProperties
<1>3. (out \o rest) \o p = out \o (rest \o p)
  BY ConcatAssociative
<1> QED BY <1>1, <1>2, <1>3, ConcatPrefix DEF Conserved

LEMMA PrefixGrows ==
  ASSUME NEW out \in Seq(Chunks), NEW all \in Seq(Callers), NEW c \in Callers,
         IsPrefix(out, EncodeAll(all))
  PROVE  IsPrefix(out, EncodeAll(Append(all, c)))
<1>1. PICK one \in Seq(Callers) : one = <<c>>
  BY OnePacket
<1>2. Append(all, c) = all \o one
  BY <1>1, AppendIsConcat
<1>3. PICK a \in Seq(Chunks), b \in Seq(Chunks) : a = EncodeAll(all) /\ b = EncodeAll(one)
  BY EncodeAllChunks
<1>4. EncodeAll(Append(all, c)) = a \o b
  BY <1>2, <1>3, EncodeConcat
<1>5. PICK t : t = a \o b
  OBVIOUS
<1>6. /\ t \in Seq(Chunks) /\ Len(t) = Len(a) + Len(b) /\ Len(a) \in Nat /\ Len(b) \in Nat
      /\ \A i \in 1 .. Len(a) + Len(b) : t[i] = IF i <= Len(a) THEN a[i] ELSE b[i - Len(a)]
  BY <1>5, ConcatProperties, LenProperties
<1>7. Len(out) \in Nat /\ Len(out) <= Len(a) /\ SubSeq(out, 1, Len(out)) = SubSeq(a, 1, Len(out))
  BY <1>3 DEF IsPrefix
<1>8. SubSeq(a, 1, Len(out)) = SubSeq(t, 1, Len(out))
  BY <1>6, <1>7
<1> QED BY <1>4, <1>5, <1>6, <1>7, <1>8 DEF IsPrefix

-----------------------------------------------------------------------------
(* WireIntact *)

(* The packets on the outbound path that are not being written. *)
Handed == IF pc[Writer] # "write" /\ loopPacket # Nobody THEN <<loopPacket>> ELSE <<>>
Path == Handed \o buffer \o sendQueue

(* Each write mode leaves the structures of the other one alone. *)
PathModes ==
  /\ WriteMode = "INLINE" => buffer = <<>> /\ loopPacket = Nobody
  /\ WriteMode = "CHANNEL" => sendQueue = <<>>

(* CHANNEL: between two packets the write buffer is empty, and a write     *)
(* loop that waits for a packet has an empty Channel behind it, so a       *)
(* hand-off overtakes nothing.                                             *)
LoopClear ==
  WriteMode = "CHANNEL" /\ ~closed =>
    /\ pc[Writer] # "write" => writeBuf = <<>>
    /\ pc[Writer] = "recvParked" /\ loopPacket = Nobody => buffer = <<>>

PathInv == PathModes /\ LoopClear /\ WireIntact

LEMMA PathTypes ==
  ASSUME ConnInv
  PROVE  /\ sendQueue \in Seq(Callers) /\ buffer \in Seq(Callers) /\ accepted \in Seq(Callers)
         /\ loopPacket \in Callers \cup {Nobody} /\ Handed \in Seq(Callers)
         /\ writeBuf \in Seq(Chunks) /\ wire \in Seq(Chunks) /\ closed \in BOOLEAN
         /\ pc \in [Coroutines -> Points] /\ Callers \subseteq Coroutines
         /\ Writer \in Coroutines /\ Writer \notin Callers /\ Nobody \notin Callers
<1>1. /\ sendQueue \in Seq(Callers) /\ buffer \in Seq(Callers) /\ accepted \in Seq(Callers)
      /\ loopPacket \in Callers \cup {Nobody} /\ pc \in [Coroutines -> Points]
      /\ writeBuf \in Seq(Chunks) /\ wire \in Seq(Chunks) /\ closed \in BOOLEAN
  BY DEF ConnInv, TypeOK, ReactorType, PathType, IoType, FlagType, Chunks
<1>2. Handed \in Seq(Callers)
  BY <1>1 DEF Handed
<1> QED BY <1>1, <1>2, CallersAssumption DEF Coroutines

(* The path per mode. *)
LEMMA PathIs ==
  ASSUME ConnInv, PathModes
  PROVE  /\ WriteMode = "INLINE" => Path = sendQueue
         /\ WriteMode = "CHANNEL" => Path = Handed \o buffer
         /\ Path \in Seq(Callers)
<1>1. sendQueue \in Seq(Callers) /\ buffer \in Seq(Callers) /\ Handed \in Seq(Callers)
  BY PathTypes
<1>2. CASE WriteMode = "INLINE"
  <2>1. Handed = <<>> /\ buffer = <<>>
    BY <1>2 DEF PathModes, Handed
  <2> QED BY <1>1, <1>2, <2>1 DEF Path
<1>3. CASE WriteMode = "CHANNEL"
  <2>1. PICK p \in Seq(Callers) : p = Handed \o buffer
    BY <1>1, ConcatProperties
  <2>2. p \o <<>> = p
    BY ConcatEmptySeq
  <2> QED BY <1>3, <2>1, <2>2 DEF Path, PathModes
<1> QED BY <1>2, <1>3, ModeAssumption

LEMMA WireIs ==
  WireIntact <=> /\ IsPrefix(wire, EncodeAll(accepted))
                 /\ ~closed => Conserved(wire, writeBuf, Path, accepted)
  BY DEF WireIntact, Conserved, Path, Handed

(* What the connection keeps open for the socket is kept by the next state *)
(* when its own account balances.                                          *)
LEMMA WireStep ==
  ASSUME ConnInv, ConnInv', PathInv, closed => closed',
         ~closed' => Conserved(wire', writeBuf', Path', accepted'),
         closed' => wire' = wire /\ (accepted' = accepted \/ \E c \in Callers : accepted' = Append(accepted, c))
  PROVE  WireIntact'
<1>1. IsPrefix(wire, EncodeAll(accepted)) /\ wire \in Seq(Chunks) /\ accepted \in Seq(Callers)
  BY WireIs, PathTypes DEF PathInv
<1>2. CASE closed'
  <2>1. IsPrefix(wire, EncodeAll(accepted))'
    BY <1>1, <1>2, PrefixGrows
  <2> QED BY <1>2, <2>1 DEF WireIntact
<1>3. CASE ~closed'
  <2>1. Conserved(wire, writeBuf, Path, accepted)'
    BY <1>3
  <2>2. /\ wire' \in Seq(Chunks) /\ writeBuf' \in Seq(Chunks) /\ accepted' \in Seq(Callers)
        /\ Path' \in Seq(Callers)
    <3>1. /\ wire' \in Seq(Chunks) /\ writeBuf' \in Seq(Chunks) /\ accepted' \in Seq(Callers)
          /\ sendQueue' \in Seq(Callers) /\ buffer' \in Seq(Callers)
          /\ loopPacket' \in Callers \cup {Nobody}
      BY DEF ConnInv, TypeOK, PathType, IoType, Chunks
    <3>2. Handed' \in Seq(Callers)
      BY <3>1 DEF Handed
    <3>3. (Handed \o buffer)' \in Seq(Callers)
      BY <3>1, <3>2, ConcatProperties
    <3>4. (Handed \o buffer \o sendQueue)' \in Seq(Callers)
      BY <3>1, <3>3, ConcatProperties
    <3> QED BY <3>1, <3>4 DEF Path
  <2>3. IsPrefix(wire, EncodeAll(accepted))'
    BY <2>1, <2>2, ConservedPrefix
  <2> QED BY <2>1, <2>3 DEF WireIntact, Conserved, Path, Handed
<1> QED BY <1>2, <1>3

(* The step leaves the path, the write buffer and the socket alone, and    *)
(* the write loop neither begins nor ends a write.                         *)
PathStill ==
  /\ UNCHANGED <<closed, ioVars, sendQueue, buffer, loopPacket>>
  /\ WriteMode = "CHANNEL" =>
       \/ pc'[Writer] = pc[Writer]
       \/ pc[Writer] # "write" /\ pc'[Writer] \notin {"write", "recvParked"}

LEMMA StillPath ==
  ASSUME ConnInv, ConnInv', PathInv, PathStill
  PROVE  PathInv'
<1>1. PathModes' /\ LoopClear'
  BY DEF PathInv, PathModes, LoopClear, PathStill, ioVars
<1>2. Handed' = Handed
  BY ModeAssumption DEF PathInv, PathModes, PathStill, Handed
<1>3. UNCHANGED <<closed, wire, writeBuf, accepted, sendQueue, buffer, Path>>
  BY <1>2 DEF PathStill, ioVars, Path
<1>4. WireIntact'
  BY <1>3, WireIs, WireStep DEF PathInv
<1> QED BY <1>1, <1>4 DEF PathInv

LEMMA StillCallerSteps ==
  ASSUME ConnInv, NEW c \in Callers,
         \/ CallClosed(c) \/ Send(c) \/ Request(c) \/ SlotTaken(c) \/ SlotRefused(c) \/ SlotWait(c)
         \/ AwaitSettled(c) \/ AwaitParks(c) \/ Finally(c) \/ SendReturns(c)
         \/ EnqueueTooLarge(c) \/ EnqueueAborted(c) \/ EnqueueWait(c) \/ EnqueueChannelFull(c)
         \/ RunChanWaiter(c)
  PROVE  PathStill
<1>0. pc \in [Coroutines -> Points] /\ c # Writer /\ Writer \in Coroutines
  BY PathTypes
<1>1. UNCHANGED <<closed, ioVars, sendQueue, buffer, loopPacket>>
  BY DEF CallClosed, Send, Request, SlotTaken, SlotRefused, SlotWait, AwaitSettled, AwaitParks, Finally,
     SendReturns, EnqueueTooLarge, EnqueueAborted, EnqueueWait, EnqueueChannelFull, RunChanWaiter,
     OnlyCaller, pathVars, ioVars
<1>2. \E p : pc' = [pc EXCEPT ![c] = p]
  BY <1>0 DEF CallClosed, Send, Request, SlotTaken, SlotRefused, SlotWait, AwaitSettled, AwaitParks,
     Finally, SendReturns, EnqueueTooLarge, EnqueueAborted, EnqueueWait, EnqueueChannelFull,
     RunChanWaiter, AfterEnqueue, GoTo, Finish, Return
<1>3. pc'[Writer] = pc[Writer]
  BY <1>0, <1>2
<1> QED BY <1>1, <1>3 DEF PathStill

LEMMA StillRunSteps ==
  ASSUME ConnInv, NEW c \in Coroutines, Run(c) \/ RunDead(c)
  PROVE  PathStill
<1>0. pc \in [Coroutines -> Points] /\ Writer \in Coroutines
  BY PathTypes
<1>1. UNCHANGED <<closed, ioVars, sendQueue, buffer, loopPacket>>
  BY DEF Run, RunDead, pathVars, ioVars
<1>2. CASE RunDead(c)
  BY <1>1, <1>2 DEF RunDead, PathStill
<1>3. CASE Run(c) /\ c = Writer
  <2>1. \E p : pc' = [pc EXCEPT ![c] = p] /\ p \notin {"write", "recvParked"} /\ pc[c] # "write"
    BY <1>3 DEF Run, RunSlotWaiter, RunRoomWaiter, RunAwaiter, RunWriter, GoTo, Finish
  <2> QED BY <1>0, <1>1, <1>3, <2>1 DEF PathStill
<1>4. CASE Run(c) /\ c # Writer
  <2>1. \E p : pc' = [pc EXCEPT ![c] = p]
    BY <1>4 DEF Run, RunSlotWaiter, RunRoomWaiter, RunAwaiter, RunWriter, GoTo, Finish
  <2>2. pc'[Writer] = pc[Writer]
    BY <1>0, <1>4, <2>1
  <2> QED BY <1>1, <2>2 DEF PathStill
<1> QED BY <1>2, <1>3, <1>4

LEMMA StillEvents ==
  ASSUME ConnInv, NEW c \in Callers,
         \/ c \in Requests /\ Deadline(c)
         \/ \E r \in Requests : c \in Requests /\ RecvResponse(r, c)
         \/ Cancel(c)
  PROVE  PathStill
<1>0. pc \in [Coroutines -> Points] /\ c # Writer /\ Writer \in Coroutines
  BY PathTypes
<1>1. UNCHANGED <<closed, ioVars, sendQueue, buffer, loopPacket>>
  BY DEF Deadline, RecvResponse, Cancel, ioVars
<1>2. pc' = pc \/ pc' = [pc EXCEPT ![c] = "chanGate"]
  BY DEF Deadline, RecvResponse, Cancel
<1>3. pc'[Writer] = pc[Writer]
  BY <1>0, <1>2
<1> QED BY <1>1, <1>3 DEF PathStill

(* INLINE: the writer's steps that take no packet. *)
LEMMA StillWriterSteps ==
  ASSUME ConnInv, NEW c \in Coroutines,
         \/ DrainLeftover(c) \/ DrainDone(c)
         \/ WriteReturns(c) /\ WriteMode = "INLINE"
         \/ c \in Callers /\ WriteCancelled(c)
  PROVE  PathStill
<1>1. UNCHANGED <<closed, ioVars, sendQueue, buffer, loopPacket>>
  BY DEF DrainLeftover, DrainDone, WriteReturns, WriteDone, WriteCancelled, HandOff, pathVars, ioVars
<1>2. WriteMode # "CHANNEL"
  BY DEF DrainLeftover, DrainDone, WriteCancelled, HandOff, Running, ConnInv, WriteLoopAlone, Coroutines
<1> QED BY <1>1, <1>2 DEF PathStill

LEMMA AcceptedOnPath ==
  ASSUME ConnInv, PathInv, ~closed, NEW c \in Callers,
         UNCHANGED <<wire, writeBuf>>, accepted' = Append(accepted, c), Path' = Append(Path, c)
  PROVE  Conserved(wire', writeBuf', Path', accepted')
<1>1. Conserved(wire, writeBuf, Path, accepted)
  BY WireIs DEF PathInv
<1>2. /\ wire \in Seq(Chunks) /\ writeBuf \in Seq(Chunks) /\ accepted \in Seq(Callers)
      /\ Path \in Seq(Callers)
  BY PathTypes, PathIs DEF PathInv
<1>3. Conserved(wire, writeBuf, Append(Path, c), Append(accepted, c))
  BY <1>1, <1>2, AcceptConserves
<1> QED BY <1>3

(* INLINE: the packet goes to the end of the mailbox. *)
LEMMA PathEnqueueInline ==
  ASSUME ConnInv, ConnInv', PathInv, NEW c \in Callers, EnqueueInline(c)
  PROVE  PathInv'
<1>1. /\ WriteMode = "INLINE" /\ ~closed /\ closed' = closed
      /\ sendQueue' = Append(sendQueue, c) /\ accepted' = Append(accepted, c)
      /\ UNCHANGED <<wire, writeBuf, buffer, loopPacket>>
  BY DEF EnqueueInline, Enqueuing
<1>2. PathModes' /\ LoopClear'
  BY <1>1 DEF PathInv, PathModes, LoopClear
<1>3. Path = sendQueue
  BY <1>1, PathIs DEF PathInv
<1>4. Path' = sendQueue'
  <2>1. Handed' = <<>> /\ buffer' = <<>> /\ sendQueue' \in Seq(Callers)
    BY <1>1, <1>2 DEF PathModes, Handed, ConnInv, TypeOK, PathType
  <2> QED BY <2>1 DEF Path
<1>5. Conserved(wire', writeBuf', Path', accepted')
  BY <1>1, <1>3, <1>4, AcceptedOnPath
<1>6. WireIntact'
  BY <1>1, <1>5, WireStep
<1> QED BY <1>2, <1>6 DEF PathInv

(* CHANNEL: the packet goes to the end of the buffer, or past the empty    *)
(* buffer to the parked write loop.                                        *)
LEMMA PathEnqueueChannel ==
  ASSUME ConnInv, ConnInv', PathInv, NEW c \in Callers, EnqueueChannel(c)
  PROVE  PathInv'
<1>0. /\ pc \in [Coroutines -> Points] /\ c # Writer /\ Writer \in Coroutines /\ c # Nobody
      /\ buffer \in Seq(Callers) /\ Handed \in Seq(Callers)
  BY PathTypes
<1>1. /\ WriteMode = "CHANNEL" /\ ~closed /\ closed' = closed /\ accepted' = Append(accepted, c)
      /\ UNCHANGED <<wire, writeBuf, sendQueue>> /\ sendQueue = <<>>
  BY DEF EnqueueChannel, Enqueuing, PathInv, PathModes
<1>2. pc'[Writer] = pc[Writer]
  <2>1. \E p : pc' = [pc EXCEPT ![c] = p]
    BY DEF EnqueueChannel, AfterEnqueue, GoTo, Finish
  <2> QED BY <1>0, <2>1
<1>3. /\ Path = Handed \o buffer
      /\ \A q \in Seq(Callers) : q \o <<>> = q
  BY <1>1, PathIs, ConcatEmptySeq DEF PathInv
<1>4. CASE pc[Writer] = "recvParked" /\ loopPacket = Nobody
  <2>1. loopPacket' = c /\ buffer' = buffer
    BY <1>4 DEF EnqueueChannel
  <2>2. buffer = <<>> /\ Handed = <<>> /\ Handed' = <<c>>
    BY <1>0, <1>1, <1>2, <1>4, <2>1 DEF PathInv, LoopClear, Handed
  <2>3. Path = <<>> /\ Path' = <<c>>
    <3>1. <<c>> \in Seq(Callers)
      BY OnePacket
    <3>2. <<c>> \o <<>> = <<c>>
      BY <1>3, <3>1
    <3> QED BY <1>1, <1>3, <2>1, <2>2, <3>2 DEF Path
  <2>4. Path' = Append(Path, c)
    BY <2>3
  <2>5. PathModes' /\ LoopClear'
    BY <1>0, <1>1, <1>2, <1>4, <2>1 DEF PathInv, PathModes, LoopClear
  <2>6. WireIntact'
    BY <1>1, <2>4, AcceptedOnPath, WireStep
  <2> QED BY <2>5, <2>6 DEF PathInv
<1>5. CASE ~(pc[Writer] = "recvParked" /\ loopPacket = Nobody)
  <2>1. loopPacket' = loopPacket /\ buffer' = Append(buffer, c)
    BY <1>5 DEF EnqueueChannel
  <2>2. Handed' = Handed
    BY <1>2, <2>1 DEF Handed
  <2>3. Path' = Append(Path, c)
    <3>1. Handed \o Append(buffer, c) = Append(Handed \o buffer, c)
      BY <1>0
    <3>2. Append(Handed \o buffer, c) \in Seq(Callers)
      BY <1>0, ConcatProperties, AppendProperties
    <3>3. Path' = Append(Handed \o buffer, c) \o <<>>
      BY <1>1, <2>1, <2>2, <3>1 DEF Path
    <3> QED BY <1>3, <3>2, <3>3
  <2>4. PathModes' /\ LoopClear'
    BY <1>1, <1>2, <1>5, <2>1 DEF PathInv, PathModes, LoopClear
  <2>5. WireIntact'
    BY <1>1, <2>3, AcceptedOnPath, WireStep
  <2> QED BY <2>4, <2>5 DEF PathInv
<1> QED BY <1>4, <1>5

LEMMA TakenFromPath ==
  ASSUME ConnInv, PathInv, ~closed, writeBuf = <<>>, NEW c \in Callers, NEW rest \in Seq(Callers),
         Path = <<c>> \o rest
  PROVE  Conserved(wire, Encode(c), rest, accepted)
<1>1. Conserved(wire, <<>>, <<c>> \o rest, accepted)
  BY WireIs DEF PathInv
<1>2. wire \in Seq(Chunks) /\ accepted \in Seq(Callers)
  BY PathTypes
<1> QED BY <1>1, <1>2, TakeConserves

(* INLINE: the writer takes the first packet of the mailbox. *)
LEMMA PathDrainNext ==
  ASSUME ConnInv, ConnInv', PathInv, NEW c \in Coroutines, DrainNext(c)
  PROVE  PathInv'
<1>0. sendQueue \in Seq(Callers) /\ buffer \in Seq(Callers)
  BY PathTypes
<1>1. /\ WriteMode = "INLINE" /\ ~closed /\ closed' = closed /\ writeBuf = <<>> /\ sendQueue # <<>>
      /\ sendQueue' = Tail(sendQueue) /\ writeBuf' = Encode(Head(sendQueue))
      /\ UNCHANGED <<wire, accepted, buffer, loopPacket>>
  BY ModeAssumption DEF DrainNext, Running, ConnInv, WriteLoopAlone, Coroutines
<1>2. PathModes' /\ LoopClear'
  BY <1>1 DEF PathInv, PathModes, LoopClear
<1>3. PICK h \in Callers, rest \in Seq(Callers) : h = Head(sendQueue) /\ rest = Tail(sendQueue)
  BY <1>0, <1>1, HeadTailProperties
<1>4. sendQueue = <<h>> \o rest
  BY <1>0, <1>1, <1>3
<1>5. Path = <<h>> \o rest
  BY <1>1, <1>4, PathIs DEF PathInv
<1>6. Path' = rest
  <2>1. Handed' = <<>> /\ buffer' = <<>> /\ sendQueue' = rest
    BY <1>1, <1>2, <1>3 DEF PathModes, Handed
  <2> QED BY <2>1 DEF Path
<1>7. Conserved(wire, Encode(h), rest, accepted)
  BY <1>1, <1>5, TakenFromPath
<1>8. Conserved(wire', writeBuf', Path', accepted')
  BY <1>1, <1>3, <1>6, <1>7
<1>9. WireIntact'
  BY <1>1, <1>8, WireStep
<1> QED BY <1>2, <1>9 DEF PathInv

(* CHANNEL: the write loop takes the packet handed to it, or the first one *)
(* of the buffer, behind which the first suspended sender moves up.        *)
LEMMA PathLoopTakes ==
  ASSUME ConnInv, ConnInv', PathInv, WriteMode = "CHANNEL", LoopTakes
  PROVE  PathInv'
<1>0. /\ pc \in [Coroutines -> Points] /\ Writer \in Coroutines /\ Writer \notin Callers
      /\ Nobody \notin Callers /\ Callers \subseteq Coroutines
      /\ buffer \in Seq(Callers) /\ loopPacket \in Callers \cup {Nobody}
  BY PathTypes
<1>1. /\ pc[Writer] = "receive" /\ closed' = closed /\ UNCHANGED <<wire, sendQueue>>
      /\ sendQueue = <<>>
  BY DEF LoopTakes, Running, PathInv, PathModes
<1>2. closed \in BOOLEAN /\ (~closed => writeBuf = <<>>)
  BY <1>1, PathTypes DEF PathInv, LoopClear
<1>3. pc'[Writer] = "write"
  <2>1. chanSenders # <<>> => Head(chanSenders) \in Callers
    <3>1. chanSenders \in Seq(Callers)
      BY QueueTypes
    <3> QED BY <3>1, HeadTailProperties
  <2>2. \/ pc' = [pc EXCEPT ![Writer] = "write"]
        \/ /\ chanSenders # <<>>
           /\ pc' = [pc EXCEPT ![Writer] = "write", ![Head(chanSenders)] = "chanSent"]
    BY DEF LoopTakes, GoTo
  <2> QED BY <1>0, <2>1, <2>2
<1>4. PathModes' /\ LoopClear' /\ Handed' = <<>> /\ Path' = <<>> \o buffer' \o <<>>
  BY <1>1, <1>3 DEF PathInv, PathModes, LoopClear, Handed, Path
<1>5. Path' = buffer' /\ Path = Handed \o buffer
  <2>1. buffer' \in Seq(Callers)
    BY DEF ConnInv, TypeOK, PathType
  <2>2. <<>> \o buffer' = buffer' /\ buffer' \o <<>> = buffer'
    BY <2>1, ConcatEmptySeq
  <2> QED BY <1>4, <2>2, PathIs DEF PathInv
<1>6. CASE loopPacket # Nobody
  <2>1. writeBuf' = Encode(loopPacket) /\ UNCHANGED <<buffer, accepted>>
    BY <1>6 DEF LoopTakes
  <2>2. Path = <<loopPacket>> \o buffer
    BY <1>1, <1>5, <1>6 DEF Handed
  <2>3. ~closed => Conserved(wire', writeBuf', Path', accepted')
    BY <1>0, <1>1, <1>2, <1>5, <1>6, <2>1, <2>2, TakenFromPath
  <2>4. WireIntact'
    BY <1>1, <2>1, <2>3, WireStep
  <2> QED BY <1>4, <2>4 DEF PathInv
<1>7. CASE loopPacket = Nobody
  <2>1. /\ buffer # <<>> /\ writeBuf' = Encode(Head(buffer))
        /\ \/ buffer' = Tail(buffer) /\ accepted' = accepted
           \/ /\ chanSenders # <<>>
              /\ buffer' = Append(Tail(buffer), Head(chanSenders))
              /\ accepted' = Append(accepted, Head(chanSenders))
    BY <1>7 DEF LoopTakes
  <2>2. PICK h \in Callers, rest \in Seq(Callers) : h = Head(buffer) /\ rest = Tail(buffer)
    BY <1>0, <2>1, HeadTailProperties
  <2>3. Path = <<h>> \o rest
    <3>1. Handed = <<>> /\ <<>> \o buffer = buffer
      BY <1>0, <1>7, ConcatEmptySeq DEF Handed
    <3>2. buffer = <<h>> \o rest
      BY <1>0, <2>1, <2>2
    <3> QED BY <1>5, <3>1, <3>2
  <2>4. ~closed => Conserved(wire, Encode(h), rest, accepted)
    BY <1>2, <2>3, TakenFromPath
  <2>5. CASE buffer' = Tail(buffer) /\ accepted' = accepted
    <3>1. ~closed => Conserved(wire', writeBuf', Path', accepted')
      BY <1>1, <1>5, <2>1, <2>2, <2>4, <2>5
    <3>2. WireIntact'
      BY <1>1, <2>5, <3>1, WireStep
    <3> QED BY <1>4, <3>2 DEF PathInv
  <2>6. CASE /\ chanSenders # <<>>
             /\ buffer' = Append(Tail(buffer), Head(chanSenders))
             /\ accepted' = Append(accepted, Head(chanSenders))
    <3>1. PICK d \in Callers : d = Head(chanSenders)
      <4>1. chanSenders \in Seq(Callers)
        BY QueueTypes
      <4> QED BY <2>6, <4>1, HeadTailProperties
    <3>2. Encode(h) \in Seq(Chunks) /\ wire \in Seq(Chunks) /\ accepted \in Seq(Callers)
      BY EncodeChunks, PathTypes
    <3>3. ~closed => Conserved(wire, Encode(h), Append(rest, d), Append(accepted, d))
      BY <2>4, <3>2, AcceptConserves
    <3>4. ~closed => Conserved(wire', writeBuf', Path', accepted')
      BY <1>1, <1>5, <2>1, <2>2, <2>6, <3>1, <3>3
    <3>5. WireIntact'
      BY <1>1, <2>6, <3>1, <3>4, WireStep
    <3> QED BY <1>4, <3>5 DEF PathInv
  <2> QED BY <2>1, <2>5, <2>6
<1> QED BY <1>6, <1>7

(* CHANNEL: the write loop has written its packet, or parks. *)
LEMMA PathLoopReturns ==
  ASSUME ConnInv, ConnInv', PathInv, WriteMode = "CHANNEL",
         LoopParks \/ \E c \in Coroutines : WriteReturns(c)
  PROVE  PathInv'
<1>0. /\ pc \in [Coroutines -> Points] /\ Writer \in Coroutines
  BY PathTypes
<1>1. UNCHANGED <<closed, wire, accepted, buffer, sendQueue, writeBuf>>
  BY DEF LoopParks, WriteReturns, WriteDone, pathVars, ioVars
<1>2. /\ Handed = <<>> /\ Handed' = <<>> /\ pc'[Writer] # "write"
      /\ closed \/ writeBuf = <<>>
      /\ pc'[Writer] = "recvParked" => buffer = <<>>
  <2>1. CASE LoopParks
    BY <1>0, <2>1 DEF LoopParks, Running, GoTo, Handed, pathVars, PathInv, LoopClear
  <2>2. ASSUME NEW c \in Coroutines, WriteReturns(c)
        PROVE  Handed = <<>> /\ Handed' = <<>> /\ pc'[Writer] = "receive" /\ writeBuf = <<>>
    <3>1. c = Writer /\ pc[c] = "write" /\ writeBuf = <<>>
      BY <2>2 DEF WriteReturns, WriteDone, ConnInv, WriteLoopAlone, Coroutines
    <3> QED BY <1>0, <2>2, <3>1 DEF WriteReturns, GoTo, Handed
  <2> QED BY <2>1, <2>2
<1>3. PathModes' /\ LoopClear'
  BY <1>1, <1>2 DEF PathInv, PathModes, LoopClear
<1>4. UNCHANGED Path
  BY <1>1, <1>2 DEF Path
<1>5. WireIntact'
  BY <1>1, <1>4, WireIs, WireStep DEF PathInv
<1> QED BY <1>3, <1>5 DEF PathInv

(* The socket takes a chunk of the packet that is being written. *)
LEMMA PathSocketWrite ==
  ASSUME ConnInv, ConnInv', PathInv, SocketWrite
  PROVE  PathInv'
<1>1. /\ ~closed /\ writeBuf # <<>> /\ wire' = Append(wire, Head(writeBuf))
      /\ writeBuf' = Tail(writeBuf)
      /\ UNCHANGED <<closed, pc, sendQueue, buffer, loopPacket, accepted>>
  BY DEF SocketWrite, reactorVars, pathVars
<1>2. WriteMode = "CHANNEL" => pc[Writer] = "write"
  BY DEF SocketWrite, ConnInv, WriteLoopAlone, Coroutines
<1>3. PathModes' /\ LoopClear'
  BY <1>1, <1>2 DEF PathInv, PathModes, LoopClear
<1>4. UNCHANGED Path
  BY <1>1 DEF Path, Handed
<1>5. /\ wire \in Seq(Chunks) /\ writeBuf \in Seq(Chunks) /\ accepted \in Seq(Callers)
      /\ Path \in Seq(Callers)
  BY PathTypes, PathIs DEF PathInv
<1>6. Conserved(wire, writeBuf, Path, accepted)
  BY <1>1, WireIs DEF PathInv
<1>7. Conserved(wire', writeBuf', Path', accepted')
  BY <1>1, <1>4, <1>5, <1>6, WriteConserves
<1>8. WireIntact'
  BY <1>1, <1>7, WireStep
<1> QED BY <1>3, <1>8 DEF PathInv

(* shutdown() drops what is queued; what was written stays a prefix. *)
LEMMA PathCloses ==
  ASSUME ConnInv, ConnInv', PathInv, Close \/ \E c \in Coroutines : WriteFails(c)
  PROVE  PathInv'
<1>1. /\ closed' /\ UNCHANGED <<wire, accepted, buffer>>
      /\ sendQueue' \in {sendQueue, <<>>} /\ loopPacket' \in {loopPacket, Nobody}
  BY DEF Close, WriteFails, Shutdown, ioVars
<1>2. PathModes' /\ LoopClear'
  BY <1>1 DEF PathInv, PathModes, LoopClear
<1>3. WireIntact'
  BY <1>1, WireStep
<1> QED BY <1>2, <1>3 DEF PathInv

LEMMA PathInvInit == Init => PathInv
<1> SUFFICES ASSUME Init PROVE PathInv
  OBVIOUS
<1>1. /\ buffer = <<>> /\ sendQueue = <<>> /\ loopPacket = Nobody /\ writeBuf = <<>>
      /\ accepted = <<>> /\ wire = <<>>
  BY DEF Init
<1>2. PathModes /\ LoopClear
  BY <1>1 DEF PathModes, LoopClear
<1>3. Path = <<>>
  BY <1>1 DEF Path, Handed
<1>4. EncodeAll(accepted) = <<>> /\ EncodeAll(Path) = <<>>
  BY <1>1, <1>3, EncodeNone
<1>5. Conserved(wire, writeBuf, Path, accepted) /\ IsPrefix(wire, EncodeAll(accepted))
  BY <1>1, <1>4 DEF Conserved, IsPrefix
<1> QED BY <1>2, <1>5, WireIs DEF PathInv

LEMMA PathInvStep ==
  ConnInv /\ ConnInv' /\ WriterInv /\ PathInv /\ [Next]_vars => PathInv'
<1> SUFFICES ASSUME ConnInv, ConnInv', WriterInv, PathInv, [Next]_vars PROVE PathInv'
  OBVIOUS
<1>0. Requests \subseteq Callers /\ Senders \subseteq Callers /\ Callers \subseteq Coroutines
  BY RegTypes
<1>1. CASE Reactor
  <2>1. ASSUME NEW c \in Coroutines, Run(c) \/ RunDead(c) PROVE PathInv'
    BY <2>1, StillRunSteps, StillPath
  <2>2. ASSUME NEW c \in Callers,
               \/ SlotTaken(c) \/ SlotRefused(c) \/ SlotWait(c)
               \/ EnqueueTooLarge(c) \/ EnqueueAborted(c) \/ EnqueueWait(c)
               \/ EnqueueChannelFull(c) \/ RunChanWaiter(c)
               \/ AwaitSettled(c) \/ AwaitParks(c) \/ Finally(c) \/ SendReturns(c)
        PROVE  PathInv'
    BY <2>2, StillCallerSteps, StillPath
  <2>3. ASSUME NEW c \in Callers, EnqueueInline(c) \/ EnqueueChannel(c) PROVE PathInv'
    BY <2>3, PathEnqueueInline, PathEnqueueChannel
  <2>4. ASSUME NEW c \in Coroutines, DrainLeftover(c) \/ DrainNext(c) \/ DrainDone(c) PROVE PathInv'
    BY <2>4, StillWriterSteps, StillPath, PathDrainNext
  <2>5. CASE LoopTakes \/ LoopParks
    <3>1. WriteMode = "CHANNEL"
      BY <2>5, ModeAssumption DEF LoopTakes, LoopParks, Running, WriterInv, InlineWriter, WriterPoints
    <3> QED BY <2>5, <3>1, PathLoopTakes, PathLoopReturns
  <2> QED BY <1>0, <1>1, <2>1, <2>2, <2>3, <2>4, <2>5 DEF Reactor
<1>2. ASSUME NEW c \in Callers, CallClosed(c) \/ Send(c) \/ Request(c) PROVE PathInv'
  BY <1>2, StillCallerSteps, StillPath
<1>3. ASSUME NEW c \in Callers, Cancel(c) \/ (c \in Requests /\ Deadline(c)) PROVE PathInv'
  BY <1>3, StillEvents, StillPath
<1>4. ASSUME NEW r \in Requests, NEW p \in Requests, RecvResponse(r, p) PROVE PathInv'
  BY <1>0, <1>4, StillEvents, StillPath
<1>5. ASSUME NEW c \in Callers, WriteCancelled(c) PROVE PathInv'
  BY <1>0, <1>5, StillWriterSteps, StillPath
<1>6. ASSUME NEW c \in Coroutines, WriteReturns(c) PROVE PathInv'
  BY <1>6, StillWriterSteps, StillPath, PathLoopReturns, ModeAssumption
<1>7. CASE SocketWrite
  BY <1>7, PathSocketWrite
<1>8. CASE Close \/ \E c \in Coroutines : WriteFails(c)
  BY <1>8, PathCloses
<1>9. CASE UNCHANGED vars
  <2>1. PathStill
    BY <1>9 DEF vars, reactorVars, pathVars, ioVars, PathStill
  <2> QED BY <2>1, StillPath
<1> QED BY <1>0, <1>1, <1>2, <1>3, <1>4, <1>5, <1>6, <1>7, <1>8, <1>9 DEF Next

(* "A packet is never half-sent": in both write modes the socket sees      *)
(* whole packets in the order they were queued, whatever is cancelled,     *)
(* handed over or times out meanwhile, and while the connection is open    *)
(* nothing of what was queued is lost.                                     *)
THEOREM PacketsStayWhole == Spec => []WireIntact
<1>1. ConnInv /\ ConnInv' /\ WriterInv /\ PathInv /\ [Next]_vars => PathInv'
  BY PathInvStep
<1>2. PathInv => WireIntact
  BY DEF PathInv
<1> QED BY <1>1, <1>2, PathInvInit, WriterInvariant, PTL DEF Spec

-----------------------------------------------------------------------------
(* The bytes of a set of packets *)

BytesOf(S) == MapThenSumSet(LAMBDA c : Bytes[c], S)

(* The packet the sum takes out of s, and the recursion of the sum on the  *)
(* subsets of S.                                                           *)
Picked(s) == CHOOSE x \in s : TRUE

SumsOn(f, D) ==
  \A s \in D : f[s] = IF s = {} THEN 0 ELSE Bytes[Picked(s)] + f[s \ {Picked(s)}]

Small(n) == {s \in SUBSET Callers : Cardinality(s) <= n}

LEMMA CallersFinite ==
  /\ IsFiniteSet(Callers) /\ Cardinality(Callers) \in Nat
  /\ \A s \in SUBSET Callers :
       /\ IsFiniteSet(s) /\ Cardinality(s) \in Nat /\ Cardinality(s) <= Cardinality(Callers)
       /\ Cardinality(s) = 0 <=> s = {}
       /\ s # {} => Picked(s) \in s
       /\ \A x \in s : Cardinality(s \ {x}) = Cardinality(s) - 1
<1>1. IsFiniteSet(Callers)
  BY CallersAssumption, FS_Union DEF Callers
<1>2. Cardinality(Callers) \in Nat
  BY <1>1, FS_CardinalityType
<1>3. ASSUME NEW s \in SUBSET Callers
      PROVE  /\ IsFiniteSet(s) /\ Cardinality(s) \in Nat /\ Cardinality(s) <= Cardinality(Callers)
             /\ Cardinality(s) = 0 <=> s = {}
             /\ s # {} => Picked(s) \in s
             /\ \A x \in s : Cardinality(s \ {x}) = Cardinality(s) - 1
  <2>1. IsFiniteSet(s) /\ Cardinality(s) <= Cardinality(Callers)
    BY <1>1, FS_Subset
  <2>2. Cardinality(s) \in Nat /\ (Cardinality(s) = 0 <=> s = {})
    BY <2>1, FS_CardinalityType, FS_EmptySet
  <2>3. s # {} => Picked(s) \in s
    BY DEF Picked
  <2>4. \A x \in s : Cardinality(s \ {x}) = Cardinality(s) - 1
    BY <2>1, FS_RemoveElement
  <2> QED BY <2>1, <2>2, <2>3, <2>4
<1> QED BY <1>1, <1>2, <1>3

LEMMA BytesAreNat == \A s \in SUBSET Callers : s # {} => Bytes[Picked(s)] \in Nat
  BY CallersFinite, LimitsAssumption

(* A function that sums every set of packets: built up by size. *)
LEMMA SumExists == \E f \in [SUBSET Callers -> Nat] : SumsOn(f, SUBSET Callers)
<1> DEFINE G == {n \in Nat : \E f \in [Small(n) -> Nat] : SumsOn(f, Small(n))}
<1>1. 0 \in G
  <2>1. Small(0) = {{}}
    BY CallersFinite DEF Small
  <2> DEFINE f == [s \in Small(0) |-> 0]
  <2>2. f \in [Small(0) -> Nat] /\ SumsOn(f, Small(0))
    BY <2>1 DEF SumsOn
  <2> QED BY <2>2
<1>2. ASSUME NEW n \in Nat, n \in G PROVE n + 1 \in G
  <2>1. PICK f \in [Small(n) -> Nat] : SumsOn(f, Small(n))
    BY <1>2
  <2> DEFINE g == [s \in Small(n + 1) |-> IF s \in Small(n) THEN f[s]
                                          ELSE Bytes[Picked(s)] + f[s \ {Picked(s)}]]
  <2>2. ASSUME NEW s \in Small(n + 1)
        PROVE  /\ s \in SUBSET Callers /\ ({} \in Small(n))
               /\ s # {} => s \ {Picked(s)} \in Small(n) /\ s \ {Picked(s)} \in Small(n + 1)
    <3>1. s \in SUBSET Callers /\ Cardinality(s) \in Nat /\ Cardinality(s) <= n + 1
      BY CallersFinite DEF Small
    <3>2. {} \in Small(n)
      BY CallersFinite DEF Small
    <3>3. ASSUME s # {} PROVE s \ {Picked(s)} \in Small(n) /\ s \ {Picked(s)} \in Small(n + 1)
      <4>1. Cardinality(s \ {Picked(s)}) = Cardinality(s) - 1 /\ s \ {Picked(s)} \in SUBSET Callers
        BY <3>1, <3>3, CallersFinite
      <4> QED BY <3>1, <4>1 DEF Small
    <3> QED BY <3>1, <3>2, <3>3
  <2>3. ASSUME NEW s \in Small(n + 1) PROVE g[s] \in Nat
    <3>1. CASE s \in Small(n)
      BY <3>1
    <3>2. CASE s \notin Small(n)
      <4>1. s # {} /\ s \ {Picked(s)} \in Small(n) /\ Bytes[Picked(s)] \in Nat
        BY <2>2, <3>2, BytesAreNat
      <4> QED BY <3>2, <4>1
    <3> QED BY <3>1, <3>2
  <2>4. ASSUME NEW s \in Small(n + 1)
        PROVE  g[s] = IF s = {} THEN 0 ELSE Bytes[Picked(s)] + g[s \ {Picked(s)}]
    <3>1. s # {} => g[s \ {Picked(s)}] = f[s \ {Picked(s)}]
      BY <2>2
    <3>2. CASE s \in Small(n)
      BY <2>1, <3>1, <3>2 DEF SumsOn
    <3>3. CASE s \notin Small(n)
      BY <2>2, <3>1, <3>3
    <3> QED BY <3>2, <3>3
  <2>5. g \in [Small(n + 1) -> Nat] /\ SumsOn(g, Small(n + 1))
    <3> HIDE DEF g
    <3>1. SumsOn(g, Small(n + 1))
      BY <2>4 DEF SumsOn
    <3>2. g \in [Small(n + 1) -> Nat]
      BY <2>3 DEF g
    <3> QED BY <3>1, <3>2
  <2>6. \E k \in [Small(n + 1) -> Nat] : SumsOn(k, Small(n + 1))
    <3> HIDE DEF g
    <3> QED BY <2>5
  <2> HIDE DEF g
  <2> QED BY <2>6
<1>3. Cardinality(Callers) \in G
  <2> HIDE DEF G
  <2>1. Nat \subseteq G
    BY <1>1, <1>2, NumberInduction
  <2> QED BY <2>1, CallersFinite
<1>4. Small(Cardinality(Callers)) = SUBSET Callers
  BY CallersFinite DEF Small
<1> QED BY <1>3, <1>4

(* The sum does not depend on the order in which packets are taken out. *)
LEMMA SumAnyOrder ==
  ASSUME NEW f \in [SUBSET Callers -> Nat], SumsOn(f, SUBSET Callers)
  PROVE  \A s \in SUBSET Callers : \A y \in s : f[s] = Bytes[y] + f[s \ {y}]
<1> DEFINE G == {n \in Nat : \A s \in SUBSET Callers :
                               Cardinality(s) = n => \A y \in s : f[s] = Bytes[y] + f[s \ {y}]}
<1>0. \A x \in Callers : Bytes[x] \in Nat
  BY LimitsAssumption
<1>1. 0 \in G
  BY CallersFinite
<1>2. ASSUME NEW n \in Nat, n \in G PROVE n + 1 \in G
  <2>1. SUFFICES ASSUME NEW s \in SUBSET Callers, Cardinality(s) = n + 1, NEW y \in s
                 PROVE  f[s] = Bytes[y] + f[s \ {y}]
    OBVIOUS
  <2>2. PICK x : x = Picked(s)
    OBVIOUS
  <2>3. x \in s /\ f[s] = Bytes[x] + f[s \ {x}]
    <3>1. s # {}
      BY <2>1
    <3> QED BY <2>2, <3>1, CallersFinite DEF SumsOn
  <2>4. CASE y = x
    BY <2>3, <2>4
  <2>5. CASE y # x
    <3>1. PICK a, b, d : a = s \ {x} /\ b = s \ {y} /\ d = (s \ {x}) \ {y}
      OBVIOUS
    <3>2. /\ a \in SUBSET Callers /\ b \in SUBSET Callers /\ d \in SUBSET Callers
          /\ y \in a /\ x \in b /\ a \ {y} = d /\ b \ {x} = d
      BY <2>3, <2>5, <3>1
    <3>3. Cardinality(a) = n /\ Cardinality(b) = n
      BY <2>1, <2>3, <3>1, CallersFinite
    <3>4. f[a] = Bytes[y] + f[d] /\ f[b] = Bytes[x] + f[d]
      BY <1>2, <3>2, <3>3
    <3>5. f[d] \in Nat /\ Bytes[x] \in Nat /\ Bytes[y] \in Nat
      BY <1>0, <2>3, <3>2
    <3>6. f[s] = Bytes[x] + f[a]
      BY <2>3, <3>1
    <3>7. f[s] = Bytes[y] + f[b]
      BY <3>4, <3>5, <3>6
    <3> QED BY <3>1, <3>7
  <2> QED BY <2>4, <2>5
<1>3. Nat \subseteq G
  <2> HIDE DEF G
  <2> QED BY <1>1, <1>2, NumberInduction
<1>4. ASSUME NEW s \in SUBSET Callers, NEW y \in s PROVE f[s] = Bytes[y] + f[s \ {y}]
  <2>1. Cardinality(s) \in G
    <3> HIDE DEF G
    <3> QED BY <1>3, CallersFinite
  <2> QED BY <2>1
<1> QED BY <1>4

(* BytesOf is that function. *)
LEMMA BytesOfIs ==
  ASSUME NEW f \in [SUBSET Callers -> Nat], SumsOn(f, SUBSET Callers), NEW S \in SUBSET Callers
  PROVE  BytesOf(S) = f[S]
<1> DEFINE step(g) == [s \in SUBSET S |-> IF s = {} THEN 0 ELSE Bytes[Picked(s)] + g[s \ {Picked(s)}]]
           iter == CHOOSE g : g = step(g)
           h == [s \in SUBSET S |-> f[s]]
<1>1. BytesOf(S) = iter[S]
  BY DEF BytesOf, MapThenSumSet, MapThenFoldSet, Picked
<1>2. ASSUME NEW s \in SUBSET S
      PROVE  s \in SUBSET Callers /\ (s # {} => Picked(s) \in s) /\ s \ {Picked(s)} \in SUBSET S
  BY CallersFinite
<1>3. ASSUME NEW s \in SUBSET S
      PROVE  h[s] = IF s = {} THEN 0 ELSE Bytes[Picked(s)] + h[s \ {Picked(s)}]
  BY <1>2 DEF SumsOn
<1>4. h = step(h)
  BY <1>3
<1>5. iter = step(iter)
  BY <1>4
<1> DEFINE G == {n \in Nat : \A s \in SUBSET S : Cardinality(s) = n => iter[s] = h[s]}
<1> HIDE DEF iter, h
<1>6. ASSUME NEW s \in SUBSET S
      PROVE  iter[s] = IF s = {} THEN 0 ELSE Bytes[Picked(s)] + iter[s \ {Picked(s)}]
  BY <1>5
<1>7. 0 \in G
  BY <1>2, <1>3, <1>6, CallersFinite
<1>8. ASSUME NEW n \in Nat, n \in G PROVE n + 1 \in G
  <2>1. SUFFICES ASSUME NEW s \in SUBSET S, Cardinality(s) = n + 1 PROVE iter[s] = h[s]
    OBVIOUS
  <2>2. PICK t : t = s \ {Picked(s)}
    OBVIOUS
  <2>3. s # {} /\ t \in SUBSET S /\ Cardinality(t) = n
    BY <1>2, <2>1, <2>2, CallersFinite
  <2>4. iter[t] = h[t]
    BY <1>8, <2>3
  <2> QED BY <1>3, <1>6, <2>2, <2>3, <2>4
<1>9. Nat \subseteq G
  <2> HIDE DEF G
  <2> QED BY <1>7, <1>8, NumberInduction
<1>10. iter[S] = h[S]
  <2>1. Cardinality(S) \in G /\ S \in SUBSET S
    <3> HIDE DEF G
    <3> QED BY <1>9, CallersFinite
  <2> QED BY <2>1
<1> QED BY <1>1, <1>10 DEF h

(* What the proofs use of it. *)
LEMMA BytesOfSets ==
  /\ BytesOf({}) = 0
  /\ \A S \in SUBSET Callers : BytesOf(S) \in Nat
  /\ \A S \in SUBSET Callers : \A x \in S : BytesOf(S) = Bytes[x] + BytesOf(S \ {x})
<1>1. PICK f \in [SUBSET Callers -> Nat] : SumsOn(f, SUBSET Callers)
  BY SumExists
<1>2. \A S \in SUBSET Callers : BytesOf(S) = f[S]
  BY <1>1, BytesOfIs
<1>3. f[{}] = 0
  BY <1>1 DEF SumsOn
<1>4. \A S \in SUBSET Callers : \A x \in S : f[S] = Bytes[x] + f[S \ {x}]
  BY <1>1, SumAnyOrder
<1> QED BY <1>2, <1>3, <1>4

LEMMA BytesAdd ==
  ASSUME NEW S \in SUBSET Callers, NEW x \in Callers \ S
  PROVE  BytesOf(S \cup {x}) = BytesOf(S) + Bytes[x]
<1>1. PICK T : T = S \cup {x}
  OBVIOUS
<1>2. T \in SUBSET Callers /\ x \in T /\ T \ {x} = S
  BY <1>1
<1>3. BytesOf(T) = Bytes[x] + BytesOf(S) /\ BytesOf(S) \in Nat
  BY <1>2, BytesOfSets
<1>4. Bytes[x] \in Nat
  BY LimitsAssumption
<1> QED BY <1>1, <1>3, <1>4

-----------------------------------------------------------------------------
(* BytesAccounted *)

(* Where a caller is once its packet is queued. *)
HeldPoints == AfterPoints \cup {"done"}

(* A packet is in one place of the path at a time: a queued packet is in   *)
(* one queue once, its caller has left enqueue for good, and a caller      *)
(* suspended in the Channel is in the Channel's queue of senders.          *)
HeldInv ==
  /\ DistinctIn(sendQueue, Callers) /\ DistinctIn(buffer, Callers)
  /\ \A c \in ToSet(sendQueue) \cup ToSet(buffer) : pc[c] \in HeldPoints
  /\ loopPacket # Nobody => loopPacket \notin ToSet(buffer) /\ pc[loopPacket] \in HeldPoints
  /\ ~closed => \A c \in Callers : pc[c] = "chanParked" => c \in ToSet(chanSenders)
  /\ WriteMode = "INLINE" => \A c \in Callers : pc[c] \notin GatePoints \cup {"chanSent"}

(* The states in which queuedBytes is exact. *)
Counted == ~closed /\ (WriteMode = "CHANNEL" => cancelled = {})

LEMMA AccountedIs == BytesAccounted <=> (Counted => queuedBytes = BytesOf(Holding))
  BY DEF BytesAccounted, BytesExact, Counted, BytesOf

LEMMA AccountedNext == BytesAccounted' <=> (Counted' => queuedBytes' = BytesOf(Holding'))
<1>1. (BytesAccounted <=> (Counted => queuedBytes = BytesOf(Holding)))'
  BY AccountedIs, PTL
<1> QED BY <1>1

LEMMA HeldTypes ==
  ASSUME ConnInv
  PROVE  /\ sendQueue \in Seq(Callers) /\ ToSet(sendQueue) \subseteq Callers
         /\ buffer \in Seq(Callers) /\ ToSet(buffer) \subseteq Callers
         /\ chanSenders \in Seq(Callers) /\ ToSet(chanSenders) \subseteq Callers
         /\ loopPacket \in Callers \cup {Nobody} /\ Nobody \notin Callers
         /\ Holding \in SUBSET Callers /\ queuedBytes \in Nat
         /\ pc \in [Coroutines -> Points] /\ Writer \in Coroutines /\ Writer \notin Callers
         /\ Requests \subseteq Callers /\ Callers \subseteq Coroutines
<1>1. /\ sendQueue \in Seq(Callers) /\ buffer \in Seq(Callers) /\ chanSenders \in Seq(Callers)
      /\ loopPacket \in Callers \cup {Nobody} /\ queuedBytes \in Nat
      /\ pc \in [Coroutines -> Points]
  BY DEF ConnInv, TypeOK, PathType, ReactorType
<1>2. /\ ToSet(sendQueue) \subseteq Callers /\ ToSet(buffer) \subseteq Callers
      /\ ToSet(chanSenders) \subseteq Callers
  BY <1>1, ToSetType
<1>3. Requests \subseteq Callers /\ Callers \subseteq Coroutines
  BY DEF Callers, Coroutines
<1>4. Holding \in SUBSET Callers
  BY <1>1, <1>2, <1>3 DEF Holding
<1> QED BY <1>1, <1>2, <1>3, <1>4, CallersAssumption DEF Coroutines

LEMMA BytesSame ==
  ASSUME BytesAccounted,
         Counted' => Counted /\ Holding' = Holding /\ queuedBytes' = queuedBytes
  PROVE  BytesAccounted'
  BY AccountedIs, AccountedNext

LEMMA BytesAdded ==
  ASSUME ConnInv, BytesAccounted, NEW c \in Callers,
         Counted' => /\ Counted /\ c \notin Holding /\ Holding' = Holding \cup {c}
                     /\ queuedBytes' = queuedBytes + Bytes[c]
  PROVE  BytesAccounted'
<1>1. Holding \in SUBSET Callers
  BY HeldTypes
<1>2. c \notin Holding => BytesOf(Holding \cup {c}) = BytesOf(Holding) + Bytes[c]
  BY <1>1, BytesAdd
<1> QED BY <1>2, AccountedIs, AccountedNext

(* releaseOutboundBytes never meets its clamp. *)
LEMMA BytesReleased ==
  ASSUME ConnInv, BytesAccounted, NEW c \in Callers,
         Counted' => /\ Counted /\ c \in Holding /\ Holding' = Holding \ {c}
                     /\ queuedBytes' = IF queuedBytes >= Bytes[c] THEN queuedBytes - Bytes[c] ELSE 0
  PROVE  BytesAccounted'
<1>1. SUFFICES ASSUME Counted' PROVE queuedBytes' = BytesOf(Holding')
  BY AccountedNext
<1>2. /\ c \in Holding /\ Holding' = Holding \ {c} /\ queuedBytes = BytesOf(Holding)
      /\ queuedBytes' = IF queuedBytes >= Bytes[c] THEN queuedBytes - Bytes[c] ELSE 0
  BY <1>1, AccountedIs
<1>3. PICK S \in SUBSET Callers : S = Holding
  BY HeldTypes
<1>4. BytesOf(S) = Bytes[c] + BytesOf(S \ {c}) /\ S \ {c} \in SUBSET Callers
  BY <1>2, <1>3, BytesOfSets
<1>5. BytesOf(S \ {c}) \in Nat /\ Bytes[c] \in Nat
  BY <1>4, BytesOfSets, LimitsAssumption
<1>6. queuedBytes' = BytesOf(S \ {c})
  BY <1>2, <1>3, <1>4, <1>5
<1> QED BY <1>2, <1>3, <1>6

(* The queues of the path gain nobody but callers that have just queued. *)
LEMMA HeldKept ==
  ASSUME ConnInv, ConnInv', HeldInv, \A d \in Callers : Move(pc[d], pc'[d]),
         DistinctIn(sendQueue', Callers), DistinctIn(buffer', Callers),
         \A c \in ToSet(sendQueue') \cup ToSet(buffer') :
           c \in ToSet(sendQueue) \cup ToSet(buffer) \/ pc'[c] \in HeldPoints,
         loopPacket' # Nobody => /\ loopPacket' \notin ToSet(buffer')
                                 /\ \/ loopPacket' \in {loopPacket} \cup ToSet(buffer)
                                    \/ pc'[loopPacket'] \in HeldPoints,
         ~closed' => \A c \in Callers : pc'[c] = "chanParked" => c \in ToSet(chanSenders')
  PROVE  HeldInv'
<1>1. ASSUME NEW c \in Callers, pc[c] \in HeldPoints PROVE pc'[c] \in HeldPoints
  BY <1>1 DEF Move, HeldPoints, AfterPoints, BeforePoints, GatePoints
<1>2. ASSUME NEW c \in Callers, WriteMode = "INLINE" PROVE pc'[c] \notin GatePoints \cup {"chanSent"}
  BY <1>2 DEF HeldInv, Move, AfterPoints, BeforePoints, GatePoints
<1>3. ToSet(sendQueue) \cup ToSet(buffer) \subseteq Callers /\ loopPacket \in Callers \cup {Nobody}
  BY HeldTypes
<1>4. ASSUME NEW c \in ToSet(sendQueue') \cup ToSet(buffer') PROVE pc'[c] \in HeldPoints
  BY <1>1, <1>3, <1>4 DEF HeldInv
<1>5. loopPacket' # Nobody => loopPacket' \notin ToSet(buffer') /\ pc'[loopPacket'] \in HeldPoints
  BY <1>1, <1>3 DEF HeldInv
<1>6. DistinctIn(sendQueue, Callers)' /\ DistinctIn(buffer, Callers)'
  BY DEF DistinctIn, Callers
<1>7. (\A c \in ToSet(sendQueue) \cup ToSet(buffer) : pc[c] \in HeldPoints)'
  BY <1>4 DEF ToSet
<1> QED BY <1>2, <1>5, <1>6, <1>7 DEF HeldInv, ToSet

BytesInv == HeldInv /\ BytesAccounted

(* The step leaves the packets and their bytes where they are: nobody      *)
(* enters or leaves the Channel.                                           *)
HoldStill ==
  /\ UNCHANGED <<closed, cancelled, queuedBytes, sendQueue, buffer, chanSenders, loopPacket>>
  /\ \A c \in Callers : /\ pc'[c] = "chanGate" <=> pc[c] = "chanGate"
                        /\ pc'[c] = "chanParked" => pc[c] = "chanParked"

LEMMA StillBytes ==
  ASSUME ConnInv, ConnInv', BytesInv, \A d \in Callers : Move(pc[d], pc'[d]), HoldStill
  PROVE  BytesInv'
<1>1. HeldInv'
  <2>1. /\ DistinctIn(sendQueue', Callers) /\ DistinctIn(buffer', Callers)
        /\ ToSet(sendQueue') = ToSet(sendQueue) /\ ToSet(buffer') = ToSet(buffer)
        /\ loopPacket' = loopPacket /\ ToSet(chanSenders') = ToSet(chanSenders) /\ closed' = closed
    BY DEF HoldStill, BytesInv, HeldInv
  <2>2. loopPacket' # Nobody => loopPacket' \notin ToSet(buffer')
    BY <2>1 DEF BytesInv, HeldInv
  <2>3. ~closed' => \A c \in Callers : pc'[c] = "chanParked" => c \in ToSet(chanSenders')
    BY <2>1 DEF HoldStill, BytesInv, HeldInv
  <2> QED BY <2>1, <2>2, <2>3, HeldKept DEF BytesInv
<1>2. Counted' => Counted
  BY DEF Counted, HoldStill
<1>3. Holding' = Holding
  <2>1. {c \in Requests : pc'[c] = "chanGate"} = {c \in Requests : pc[c] = "chanGate"}
    BY DEF HoldStill, Callers
  <2> QED BY <2>1 DEF Holding, HoldStill
<1>4. BytesAccounted'
  BY <1>2, <1>3, BytesSame DEF BytesInv, HoldStill
<1> QED BY <1>1, <1>4 DEF BytesInv

LEMMA OneStays ==
  ASSUME ConnInv, NEW c \in Coroutines, NEW p,
         UNCHANGED <<closed, cancelled, queuedBytes, sendQueue, buffer, chanSenders, loopPacket>>,
         pc' = [pc EXCEPT ![c] = p],
         c \in Callers => p \notin GatePoints /\ pc[c] # "chanGate"
  PROVE  HoldStill
<1>1. pc \in [Coroutines -> Points] /\ Callers \subseteq Coroutines
  BY HeldTypes
<1> QED BY <1>1 DEF HoldStill, GatePoints

LEMMA StillBytesCaller ==
  ASSUME ConnInv, NEW c \in Callers,
         \/ CallClosed(c) \/ Send(c) \/ Request(c) \/ SlotTaken(c) \/ SlotRefused(c) \/ SlotWait(c)
         \/ AwaitSettled(c) \/ AwaitParks(c) \/ Finally(c) \/ SendReturns(c)
         \/ EnqueueTooLarge(c) \/ EnqueueAborted(c) \/ EnqueueWait(c)
  PROVE  HoldStill
<1>0. c \in Coroutines
  BY HeldTypes
<1>1. UNCHANGED <<closed, cancelled, queuedBytes, sendQueue, buffer, chanSenders, loopPacket>>
  BY DEF CallClosed, Send, Request, SlotTaken, SlotRefused, SlotWait, AwaitSettled, AwaitParks, Finally,
     SendReturns, EnqueueTooLarge, EnqueueAborted, EnqueueWait, OnlyCaller, pathVars
<1>2. \E p : pc' = [pc EXCEPT ![c] = p] /\ p \notin GatePoints /\ pc[c] # "chanGate"
  BY DEF CallClosed, Send, Request, SlotTaken, SlotRefused, SlotWait, AwaitSettled, AwaitParks,
     Finally, SendReturns, EnqueueTooLarge, EnqueueAborted, EnqueueWait, Enqueuing, Running, GoTo,
     Finish, Return, GatePoints
<1> QED BY <1>0, <1>1, <1>2, OneStays

LEMMA StillBytesWriter ==
  ASSUME ConnInv, NEW c \in Coroutines,
         \/ Run(c) \/ RunDead(c) \/ DrainLeftover(c) \/ DrainDone(c)
         \/ WriteReturns(c) /\ WriteMode = "INLINE"
  PROVE  HoldStill
<1>1. UNCHANGED <<closed, cancelled, queuedBytes, sendQueue, buffer, chanSenders, loopPacket>>
  BY DEF Run, RunDead, DrainLeftover, DrainDone, WriteReturns, pathVars
<1>2. CASE RunDead(c)
  BY <1>1, <1>2 DEF RunDead, HoldStill
<1>3. CASE ~RunDead(c)
  <2>1. \E p : pc' = [pc EXCEPT ![c] = p] /\ p \notin GatePoints /\ pc[c] # "chanGate"
    BY <1>3 DEF Run, RunSlotWaiter, RunRoomWaiter, RunAwaiter, RunWriter, DrainLeftover, DrainDone,
       WriteReturns, WriteDone, Running, AfterEnqueue, GoTo, Finish, GatePoints
  <2> QED BY <1>1, <2>1, OneStays
<1> QED BY <1>2, <1>3

LEMMA StillBytesSocket ==
  ASSUME ConnInv, SocketWrite \/ LoopParks \/ (\E c \in Callers : WriteCancelled(c)) \/ UNCHANGED vars
  PROVE  HoldStill
<1>0. pc \in [Coroutines -> Points] /\ Writer \in Coroutines /\ Writer \notin Callers
      /\ Callers \subseteq Coroutines
  BY HeldTypes
<1>1. UNCHANGED <<closed, cancelled, queuedBytes, sendQueue, buffer, chanSenders, loopPacket>>
  BY DEF SocketWrite, LoopParks, WriteCancelled, HandOff, reactorVars, pathVars, vars
<1>2. CASE SocketWrite \/ UNCHANGED vars
  BY <1>1, <1>2 DEF SocketWrite, vars, reactorVars, HoldStill
<1>3. CASE LoopParks
  <2>1. pc' = [pc EXCEPT ![Writer] = "recvParked"]
    BY <1>3 DEF LoopParks, GoTo
  <2> QED BY <1>0, <1>1, <2>1, OneStays
<1>4. ASSUME NEW c \in Callers, WriteCancelled(c) PROVE HoldStill
  <2>1. pc[c] = "write" /\ \/ pc' = [pc EXCEPT ![c] = "finally", ![Writer] = "start"]
                           \/ pc' = [pc EXCEPT ![c] = "finally"]
    BY <1>4 DEF WriteCancelled, HandOff
  <2>2. \A d \in Callers : pc'[d] = IF d = c THEN "finally" ELSE pc[d]
    BY <1>0, <2>1
  <2> QED BY <1>1, <2>1, <2>2 DEF HoldStill
<1> QED BY <1>2, <1>3, <1>4

LEMMA NotHeld ==
  ASSUME ConnInv, QueueInv, HeldInv, NEW c \in Callers, pc[c] = "enqueue"
  PROVE  /\ c \notin ToSet(sendQueue) \cup ToSet(buffer) \cup ToSet(chanSenders)
         /\ c # loopPacket /\ c # Nobody /\ c \notin Holding
<1>1. c \notin ToSet(sendQueue) \cup ToSet(buffer) /\ c # Nobody
  BY HeldTypes DEF HeldInv, HeldPoints, AfterPoints
<1>2. c \notin ToSet(chanSenders)
  BY DEF QueueInv, ChanQueue
<1>3. c # loopPacket
  BY <1>1 DEF HeldInv, HeldPoints, AfterPoints
<1> QED BY <1>1, <1>2, <1>3 DEF Holding

(* INLINE: the packet's bytes are counted as it joins the mailbox. *)
LEMMA BytesEnqueueInline ==
  ASSUME ConnInv, ConnInv', QueueInv, BytesInv, \A d \in Callers : Move(pc[d], pc'[d]),
         NEW c \in Callers, EnqueueInline(c)
  PROVE  BytesInv'
<1>0. /\ pc \in [Coroutines -> Points] /\ c \in Coroutines /\ sendQueue \in Seq(Callers) /\ c # Writer
      /\ Callers \subseteq Coroutines
  BY HeldTypes
<1>1. /\ pc[c] = "enqueue" /\ WriteMode = "INLINE" /\ sendQueue' = Append(sendQueue, c)
      /\ queuedBytes' = queuedBytes + Bytes[c]
      /\ UNCHANGED <<closed, cancelled, buffer, chanSenders, loopPacket>>
  BY DEF EnqueueInline, Enqueuing, Running
<1>2. \E p \in HeldPoints : pc' = [pc EXCEPT ![c] = p]
  BY <1>0 DEF EnqueueInline, AfterEnqueue, GoTo, Finish, HeldPoints, AfterPoints
<1>3. pc'[c] \in HeldPoints /\ \A d \in Callers \ {c} : pc'[d] = pc[d]
  BY <1>0, <1>2
<1>4. c \notin ToSet(sendQueue) /\ c \notin Holding
  BY <1>1, NotHeld DEF BytesInv
<1>5. ToSet(sendQueue') = ToSet(sendQueue) \cup {c} /\ DistinctIn(sendQueue', Callers)
  <2>1. DistinctIn(sendQueue, Callers)
    BY DEF BytesInv, HeldInv
  <2>2. ToSet(Append(sendQueue, c)) = ToSet(sendQueue) \cup {c} /\ DistinctIn(Append(sendQueue, c), Callers)
    BY <1>0, <1>4, <2>1, AppendQueue
  <2> QED BY <1>1, <2>2
<1>6. HeldInv'
  <2>1. DistinctIn(buffer', Callers) /\ ToSet(buffer') = ToSet(buffer)
    BY <1>1 DEF BytesInv, HeldInv
  <2>2. loopPacket' # Nobody => loopPacket' \notin ToSet(buffer') /\ loopPacket' \in {loopPacket}
    BY <1>1, <2>1 DEF BytesInv, HeldInv
  <2>3. ~closed' => \A d \in Callers : pc'[d] = "chanParked" => d \in ToSet(chanSenders')
    BY <1>1, <1>3 DEF BytesInv, HeldInv, HeldPoints, AfterPoints
  <2> QED BY <1>3, <1>5, <2>1, <2>2, <2>3, HeldKept DEF BytesInv
<1>7. Holding' = Holding \cup {c} /\ (Counted' => Counted)
  BY <1>1, <1>5 DEF Holding, Counted
<1>8. BytesAccounted'
  BY <1>1, <1>4, <1>7, BytesAdded DEF BytesInv
<1> QED BY <1>6, <1>8 DEF BytesInv

(* CHANNEL: handed to the loop, buffered, or suspended with its bytes      *)
(* counted.                                                                *)
LEMMA BytesEnqueueChannel ==
  ASSUME ConnInv, ConnInv', QueueInv, BytesInv, \A d \in Callers : Move(pc[d], pc'[d]),
         NEW c \in Callers, EnqueueChannel(c)
  PROVE  BytesInv'
<1>0. /\ pc \in [Coroutines -> Points] /\ c \in Coroutines /\ buffer \in Seq(Callers) /\ c # Writer
      /\ Callers \subseteq Coroutines /\ Requests \subseteq Callers /\ Nobody \notin Callers
      /\ loopPacket \in Callers \cup {Nobody}
  BY HeldTypes
<1>1. /\ pc[c] = "enqueue" /\ WriteMode = "CHANNEL" /\ queuedBytes' = queuedBytes + Bytes[c]
      /\ UNCHANGED <<closed, cancelled, sendQueue, chanSenders>>
      /\ \/ loopPacket = Nobody /\ loopPacket' = c /\ buffer' = buffer
         \/ loopPacket' = loopPacket /\ buffer' = Append(buffer, c)
  BY DEF EnqueueChannel, Enqueuing, Running
<1>2. \E p \in HeldPoints : pc' = [pc EXCEPT ![c] = p]
  BY <1>0 DEF EnqueueChannel, AfterEnqueue, GoTo, Finish, HeldPoints, AfterPoints
<1>3. pc'[c] \in HeldPoints /\ \A d \in Callers \ {c} : pc'[d] = pc[d]
  BY <1>0, <1>2
<1>4. c \notin ToSet(buffer) /\ c \notin Holding /\ c # loopPacket
  BY <1>1, NotHeld DEF BytesInv
<1>5. /\ DistinctIn(buffer', Callers) /\ ToSet(buffer') \in {ToSet(buffer), ToSet(buffer) \cup {c}}
      /\ buffer' = Append(buffer, c) => ToSet(buffer') = ToSet(buffer) \cup {c}
  <2>1. DistinctIn(buffer, Callers)
    BY DEF BytesInv, HeldInv
  <2>2. ToSet(Append(buffer, c)) = ToSet(buffer) \cup {c} /\ DistinctIn(Append(buffer, c), Callers)
    BY <1>0, <1>4, <2>1, AppendQueue
  <2> QED BY <1>1, <2>1, <2>2
<1>6. HeldInv'
  <2>1. DistinctIn(sendQueue', Callers) /\ ToSet(sendQueue') = ToSet(sendQueue)
    BY <1>1 DEF BytesInv, HeldInv
  <2>2. loopPacket' # Nobody => /\ loopPacket' \notin ToSet(buffer')
                                /\ loopPacket' \in {loopPacket} \/ pc'[loopPacket'] \in HeldPoints
    BY <1>0, <1>1, <1>3, <1>4, <1>5 DEF BytesInv, HeldInv
  <2>3. ~closed' => \A d \in Callers : pc'[d] = "chanParked" => d \in ToSet(chanSenders')
    BY <1>1, <1>3 DEF BytesInv, HeldInv, HeldPoints, AfterPoints
  <2> QED BY <1>3, <1>5, <2>1, <2>2, <2>3, HeldKept DEF BytesInv
<1>7. Holding' = Holding \cup {c}
  <2>1. {d \in Requests : pc'[d] = "chanGate"} = {d \in Requests : pc[d] = "chanGate"}
    BY <1>0, <1>1, <1>3 DEF HeldPoints, AfterPoints
  <2>2. ToSet(chanSenders') = ToSet(chanSenders)
    BY <1>1
  <2>3. c # Nobody
    BY <1>0
  <2>4. CASE loopPacket = Nobody /\ loopPacket' = c /\ buffer' = buffer
    BY <1>1, <2>1, <2>2, <2>3, <2>4 DEF Holding
  <2>5. CASE loopPacket' = loopPacket /\ buffer' = Append(buffer, c)
    BY <1>1, <1>5, <2>1, <2>2, <2>3, <2>5 DEF Holding
  <2> QED BY <1>1, <2>4, <2>5
<1>8. Counted' => Counted
  BY <1>1 DEF Counted
<1>9. BytesAccounted'
  BY <1>1, <1>4, <1>7, <1>8, BytesAdded DEF BytesInv
<1> QED BY <1>6, <1>9 DEF BytesInv

LEMMA BytesEnqueueFull ==
  ASSUME ConnInv, ConnInv', QueueInv, BytesInv, \A d \in Callers : Move(pc[d], pc'[d]),
         NEW c \in Callers, EnqueueChannelFull(c)
  PROVE  BytesInv'
<1>0. /\ pc \in [Coroutines -> Points] /\ c \in Coroutines /\ chanSenders \in Seq(Callers)
      /\ Callers \subseteq Coroutines /\ Requests \subseteq Callers
  BY HeldTypes
<1>1. /\ pc[c] = "enqueue" /\ WriteMode = "CHANNEL"
      /\ UNCHANGED <<closed, cancelled, sendQueue, buffer, loopPacket>>
  BY DEF EnqueueChannelFull, Enqueuing, Running
<1>2. /\ DistinctIn(sendQueue', Callers) /\ DistinctIn(buffer', Callers)
      /\ ToSet(sendQueue') = ToSet(sendQueue) /\ ToSet(buffer') = ToSet(buffer)
      /\ loopPacket' # Nobody => loopPacket' \notin ToSet(buffer') /\ loopPacket' \in {loopPacket}
  BY <1>1 DEF BytesInv, HeldInv
<1>3. CASE c \in cancelled
  <2>1. pc' = [pc EXCEPT ![c] = "finally"] /\ chanSenders' = chanSenders
    BY <1>3 DEF EnqueueChannelFull, Finish
  <2>2. ~closed' => \A d \in Callers : pc'[d] = "chanParked" => d \in ToSet(chanSenders')
    BY <1>0, <1>1, <2>1 DEF BytesInv, HeldInv
  <2>3. HeldInv'
    BY <1>2, <2>2, HeldKept DEF BytesInv
  <2>4. ~Counted'
    BY <1>1, <1>3 DEF Counted
  <2>5. BytesAccounted'
    BY <2>4, AccountedNext
  <2> QED BY <2>3, <2>5 DEF BytesInv
<1>4. CASE c \notin cancelled
  <2>1. /\ pc' = [pc EXCEPT ![c] = "chanParked"] /\ chanSenders' = Append(chanSenders, c)
        /\ queuedBytes' = queuedBytes + Bytes[c]
    BY <1>4 DEF EnqueueChannelFull, GoTo
  <2>2. ToSet(chanSenders') = ToSet(chanSenders) \cup {c}
    <3>1. DistinctIn(chanSenders, Callers) /\ c \notin ToSet(chanSenders)
      BY <1>1, NotHeld DEF BytesInv, QueueInv, ChanQueue
    <3>2. /\ ToSet(Append(chanSenders, c)) = ToSet(chanSenders) \cup {c}
          /\ DistinctIn(Append(chanSenders, c), Callers)
      BY <1>0, <3>1, AppendQueue
    <3> QED BY <2>1, <3>2
  <2>3. pc'[c] = "chanParked" /\ \A d \in Callers \ {c} : pc'[d] = pc[d]
    BY <1>0, <2>1
  <2>4. ~closed' => \A d \in Callers : pc'[d] = "chanParked" => d \in ToSet(chanSenders')
    BY <1>1, <2>2, <2>3 DEF BytesInv, HeldInv
  <2>5. HeldInv'
    BY <1>2, <2>4, HeldKept DEF BytesInv
  <2>6. {d \in Requests : pc'[d] = "chanGate"} = {d \in Requests : pc[d] = "chanGate"}
    BY <1>0, <1>1, <2>3
  <2>7. c \notin Holding /\ c # Nobody
    BY <1>1, NotHeld DEF BytesInv
  <2>8. Holding' = Holding \cup {c} /\ (Counted' => Counted)
    BY <1>1, <1>2, <2>2, <2>6, <2>7 DEF Holding, Counted
  <2>9. BytesAccounted'
    BY <2>1, <2>7, <2>8, BytesAdded DEF BytesInv
  <2> QED BY <2>5, <2>9 DEF BytesInv
<1> QED BY <1>3, <1>4

(* INLINE: the writer releases the bytes of the packet it takes. *)
LEMMA BytesDrainNext ==
  ASSUME ConnInv, ConnInv', BytesInv, \A d \in Callers : Move(pc[d], pc'[d]),
         NEW c \in Coroutines, DrainNext(c)
  PROVE  BytesInv'
<1>0. pc \in [Coroutines -> Points] /\ sendQueue \in Seq(Callers) /\ Callers \subseteq Coroutines
      /\ ToSet(sendQueue) \subseteq Callers
  BY HeldTypes
<1>1. /\ WriteMode = "INLINE" /\ sendQueue # <<>> /\ sendQueue' = Tail(sendQueue)
      /\ pc[c] = "drain" /\ pc' = [pc EXCEPT ![c] = "write"]
      /\ queuedBytes' = IF queuedBytes >= Bytes[Head(sendQueue)]
                          THEN queuedBytes - Bytes[Head(sendQueue)] ELSE 0
      /\ UNCHANGED <<closed, cancelled, buffer, chanSenders, loopPacket>>
  BY ModeAssumption DEF DrainNext, Running, GoTo, ReleaseOutboundBytes, ConnInv, WriteLoopAlone, Coroutines
<1>2. PICK h : h = Head(sendQueue)
  OBVIOUS
<1>3. /\ h \in ToSet(sendQueue) /\ DistinctIn(sendQueue', Callers)
      /\ ToSet(sendQueue') = ToSet(sendQueue) \ {h}
  <2>1. DistinctIn(sendQueue, Callers)
    BY DEF BytesInv, HeldInv
  <2>2. /\ Head(sendQueue) \in ToSet(sendQueue)
        /\ ToSet(sendQueue) = ToSet(Tail(sendQueue)) \cup {Head(sendQueue)}
        /\ DistinctIn(Tail(sendQueue), Callers)
        /\ ToSet(Tail(sendQueue)) \cap Callers = (ToSet(sendQueue) \cap Callers) \ {Head(sendQueue)}
    BY <1>0, <1>1, <2>1, TailQueue
  <2> QED BY <1>0, <1>1, <1>2, <2>2
<1>4. HeldInv'
  <2>1. DistinctIn(buffer', Callers) /\ ToSet(buffer') = ToSet(buffer)
    BY <1>1 DEF BytesInv, HeldInv
  <2>2. loopPacket' # Nobody => loopPacket' \notin ToSet(buffer') /\ loopPacket' \in {loopPacket}
    BY <1>1, <2>1 DEF BytesInv, HeldInv
  <2>3. ~closed' => \A d \in Callers : pc'[d] = "chanParked" => d \in ToSet(chanSenders')
    BY <1>0, <1>1 DEF BytesInv, HeldInv
  <2> QED BY <1>3, <2>1, <2>2, <2>3, HeldKept DEF BytesInv
<1>5. h \in Callers /\ h \in Holding /\ Holding' = Holding \ {h} /\ (Counted' => Counted)
  BY <1>0, <1>1, <1>3 DEF Holding, Counted
<1>6. BytesAccounted'
  BY <1>1, <1>2, <1>5, BytesReleased DEF BytesInv
<1> QED BY <1>4, <1>6 DEF BytesInv

(* CHANNEL: the loop releases the bytes of the packet it has written. *)
LEMMA BytesLoopReturns ==
  ASSUME ConnInv, ConnInv', QueueInv, BytesInv, \A d \in Callers : Move(pc[d], pc'[d]),
         WriteMode = "CHANNEL", NEW c \in Coroutines, WriteReturns(c)
  PROVE  BytesInv'
<1>0. /\ pc \in [Coroutines -> Points] /\ Writer \in Coroutines /\ Writer \notin Callers
      /\ loopPacket \in Callers \cup {Nobody} /\ Callers \subseteq Coroutines
  BY HeldTypes
<1>1. c = Writer /\ loopPacket # Nobody
  BY DEF WriteReturns, WriteDone, ConnInv, WriteLoopAlone, Coroutines
<1>2. /\ pc' = [pc EXCEPT ![c] = "receive"] /\ loopPacket' = Nobody
      /\ queuedBytes' = IF queuedBytes >= Bytes[loopPacket] THEN queuedBytes - Bytes[loopPacket] ELSE 0
      /\ UNCHANGED <<closed, cancelled, sendQueue, buffer, chanSenders>>
  BY DEF WriteReturns, GoTo, ReleaseOutboundBytes
<1>3. \A d \in Callers : pc'[d] = pc[d]
  BY <1>0, <1>1, <1>2
<1>4. HeldInv'
  <2>1. /\ DistinctIn(sendQueue', Callers) /\ DistinctIn(buffer', Callers)
        /\ ToSet(sendQueue') = ToSet(sendQueue) /\ ToSet(buffer') = ToSet(buffer)
    BY <1>2 DEF BytesInv, HeldInv
  <2>2. ~closed' => \A d \in Callers : pc'[d] = "chanParked" => d \in ToSet(chanSenders')
    BY <1>2, <1>3 DEF BytesInv, HeldInv
  <2> QED BY <1>2, <2>1, <2>2, HeldKept DEF BytesInv
<1>5. PICK h \in Callers : h = loopPacket
  BY <1>0, <1>1
<1>6. h \notin ToSet(buffer) /\ h \notin ToSet(chanSenders) /\ pc[h] # "chanGate" /\ h # Nobody
  BY <1>1, <1>5 DEF BytesInv, HeldInv, HeldPoints, AfterPoints, QueueInv, ChanQueue
<1>7. {d \in Requests : pc'[d] = "chanGate"} = {d \in Requests : pc[d] = "chanGate"}
  BY <1>3 DEF Callers
<1>8. h \in Holding /\ Holding' = Holding \ {h}
  BY <1>2, <1>5, <1>6, <1>7 DEF Holding
<1>9. Counted' => Counted
  BY <1>2 DEF Counted
<1>10. BytesAccounted'
  BY <1>2, <1>5, <1>8, <1>9, BytesReleased DEF BytesInv
<1> QED BY <1>4, <1>10 DEF BytesInv

(* CHANNEL: a packet goes from the buffer to the loop, and the first       *)
(* suspended sender's from the queue of senders to the buffer.             *)
LEMMA BytesLoopTakes ==
  ASSUME ConnInv, ConnInv', QueueInv, BytesInv, \A d \in Callers : Move(pc[d], pc'[d]),
         WriteMode = "CHANNEL", LoopTakes
  PROVE  BytesInv'
<1>0. /\ pc \in [Coroutines -> Points] /\ Writer \in Coroutines /\ Writer \notin Callers
      /\ Callers \subseteq Coroutines /\ Requests \subseteq Callers /\ Nobody \notin Callers
      /\ buffer \in Seq(Callers) /\ chanSenders \in Seq(Callers)
      /\ ToSet(buffer) \subseteq Callers /\ ToSet(chanSenders) \subseteq Callers
      /\ loopPacket \in Callers \cup {Nobody}
  BY HeldTypes
<1>1. UNCHANGED <<closed, cancelled, queuedBytes, sendQueue>>
  BY DEF LoopTakes
<1>2. /\ DistinctIn(sendQueue', Callers) /\ ToSet(sendQueue') = ToSet(sendQueue)
      /\ DistinctIn(buffer, Callers) /\ DistinctIn(chanSenders, Callers)
  BY <1>1 DEF BytesInv, HeldInv, QueueInv, ChanQueue
<1>3. Counted' => Counted
  BY <1>1 DEF Counted
<1>4. ASSUME Holding' = Holding PROVE BytesAccounted'
  BY <1>1, <1>3, <1>4, BytesSame DEF BytesInv
<1>5. CASE loopPacket # Nobody
  <2>1. pc' = [pc EXCEPT ![Writer] = "write"] /\ UNCHANGED <<loopPacket, buffer, chanSenders>>
    BY <1>5 DEF LoopTakes, GoTo
  <2>2. HoldStill
    BY <1>0, <1>1, <2>1, OneStays
  <2> QED BY <2>2, StillBytes
<1>6. CASE loopPacket = Nobody
  <2>1. buffer # <<>> /\ loopPacket' = Head(buffer)
    BY <1>6 DEF LoopTakes
  <2>2. PICK h, rest : h = Head(buffer) /\ rest = Tail(buffer)
    OBVIOUS
  <2>3. /\ h \in ToSet(buffer) /\ h \in Callers /\ rest \in Seq(Callers)
        /\ DistinctIn(rest, Callers) /\ ToSet(rest) = ToSet(buffer) \ {h}
    <3>1. /\ Head(buffer) \in ToSet(buffer)
          /\ ToSet(buffer) = ToSet(Tail(buffer)) \cup {Head(buffer)}
          /\ DistinctIn(Tail(buffer), Callers)
          /\ ToSet(Tail(buffer)) \cap Callers = (ToSet(buffer) \cap Callers) \ {Head(buffer)}
      BY <1>0, <1>2, <2>1, TailQueue
    <3>2. Tail(buffer) \in Seq(Callers)
      BY <1>0, <2>1, HeadTailProperties
    <3> QED BY <1>0, <2>2, <3>1, <3>2
  <2>4. CASE chanSenders = <<>>
    <3>1. /\ pc' = [pc EXCEPT ![Writer] = "write"] /\ buffer' = rest /\ chanSenders' = chanSenders
      BY <1>6, <2>2, <2>4 DEF LoopTakes, GoTo
    <3>2. \A d \in Callers : pc'[d] = pc[d]
      BY <1>0, <3>1
    <3>3. HeldInv'
      <4>1. DistinctIn(buffer', Callers) /\ ToSet(buffer') = ToSet(buffer) \ {h}
        BY <2>3, <3>1
      <4>2. loopPacket' \notin ToSet(buffer') /\ loopPacket' \in ToSet(buffer)
        BY <2>1, <2>2, <2>3, <4>1
      <4>3. ~closed' => \A d \in Callers : pc'[d] = "chanParked" => d \in ToSet(chanSenders')
        BY <1>1, <3>1, <3>2 DEF BytesInv, HeldInv
      <4> QED BY <1>2, <4>1, <4>2, <4>3, HeldKept DEF BytesInv
    <3>4. {d \in Requests : pc'[d] = "chanGate"} = {d \in Requests : pc[d] = "chanGate"}
      BY <1>0, <3>2
    <3>5. Holding' = Holding
      BY <1>0, <1>6, <2>1, <2>2, <2>3, <3>1, <3>4 DEF Holding
    <3> QED BY <1>4, <3>3, <3>5 DEF BytesInv
  <2>5. CASE chanSenders # <<>>
    <3>1. PICK s : s = Head(chanSenders)
      OBVIOUS
    <3>2. /\ pc' = [pc EXCEPT ![Writer] = "write", ![s] = "chanSent"]
          /\ buffer' = Append(rest, s) /\ chanSenders' = Tail(chanSenders)
      BY <1>6, <2>2, <2>5, <3>1 DEF LoopTakes
    <3>3. s \in ToSet(chanSenders) /\ ToSet(chanSenders') = ToSet(chanSenders) \ {s}
      <4>1. /\ Head(chanSenders) \in ToSet(chanSenders)
            /\ ToSet(chanSenders) = ToSet(Tail(chanSenders)) \cup {Head(chanSenders)}
            /\ DistinctIn(Tail(chanSenders), Callers)
            /\ ToSet(Tail(chanSenders)) \cap Callers = (ToSet(chanSenders) \cap Callers) \ {Head(chanSenders)}
        BY <1>0, <1>2, <2>5, TailQueue
      <4> QED BY <1>0, <3>1, <3>2, <4>1
    <3>4. s \in Callers /\ pc[s] = "chanParked" /\ s \notin ToSet(buffer)
      BY <1>0, <3>3 DEF QueueInv, ChanQueue, BytesInv, HeldInv, HeldPoints, AfterPoints
    <3>5. \A d \in Callers : pc'[d] = IF d = s THEN "chanSent" ELSE pc[d]
      BY <1>0, <3>2, <3>4
    <3>6. DistinctIn(buffer', Callers) /\ ToSet(buffer') = (ToSet(buffer) \ {h}) \cup {s}
      <4>1. s \notin ToSet(rest)
        BY <2>3, <3>4
      <4>2. ToSet(Append(rest, s)) = ToSet(rest) \cup {s} /\ DistinctIn(Append(rest, s), Callers)
        BY <2>3, <3>4, <4>1, AppendQueue
      <4> QED BY <2>3, <3>2, <4>2
    <3>7. HeldInv'
      <4>1. loopPacket' \notin ToSet(buffer') /\ loopPacket' \in ToSet(buffer)
        BY <2>1, <2>2, <2>3, <3>4, <3>6
      <4>2. ~closed' => \A d \in Callers : pc'[d] = "chanParked" => d \in ToSet(chanSenders')
        BY <1>1, <3>3, <3>5 DEF BytesInv, HeldInv
      <4>3. \A d \in ToSet(buffer') : d \in ToSet(buffer) \/ pc'[d] \in HeldPoints
        BY <3>4, <3>5, <3>6 DEF HeldPoints, AfterPoints
      <4> QED BY <1>2, <3>6, <4>1, <4>2, <4>3, HeldKept DEF BytesInv
    <3>8. {d \in Requests : pc'[d] = "chanGate"} = {d \in Requests : pc[d] = "chanGate"}
      BY <1>0, <3>4, <3>5
    <3>9. Holding' = Holding
      BY <1>0, <1>6, <2>1, <2>2, <2>3, <3>3, <3>4, <3>6, <3>8 DEF Holding
    <3> QED BY <1>4, <3>7, <3>9 DEF BytesInv
  <2> QED BY <2>4, <2>5
<1> QED BY <1>5, <1>6

(* A deadline, a response or a cancellation takes a suspended sender out   *)
(* of the Channel; the bytes of a request stay counted until it runs.      *)
LEMMA BytesEvents ==
  ASSUME ConnInv, ConnInv', QueueInv, BytesInv, \A d \in Callers : Move(pc[d], pc'[d]),
         NEW c \in Callers,
         \/ c \in Requests /\ Deadline(c)
         \/ \E r \in Requests : c \in Requests /\ RecvResponse(r, c)
         \/ Cancel(c)
  PROVE  BytesInv'
<1>0. /\ pc \in [Coroutines -> Points] /\ Callers \subseteq Coroutines /\ Requests \subseteq Callers
      /\ chanSenders \in Seq(Callers)
  BY HeldTypes
<1>1. /\ UNCHANGED <<closed, queuedBytes, sendQueue, buffer, loopPacket>>
      /\ cancelled' = cancelled \/ (cancelled' # {} /\ Cancel(c))
      /\ \/ pc' = pc /\ chanSenders' = chanSenders
         \/ /\ pc[c] = "chanParked" /\ pc' = [pc EXCEPT ![c] = "chanGate"]
            /\ chanSenders' = Without(chanSenders, c)
  BY DEF Deadline, RecvResponse, Cancel, GatedIn
<1>2. /\ DistinctIn(sendQueue', Callers) /\ DistinctIn(buffer', Callers)
      /\ ToSet(sendQueue') = ToSet(sendQueue) /\ ToSet(buffer') = ToSet(buffer)
      /\ loopPacket' # Nobody => loopPacket' \notin ToSet(buffer') /\ loopPacket' \in {loopPacket}
  BY <1>1 DEF BytesInv, HeldInv
<1>3. Counted' => Counted
  BY <1>1 DEF Counted
<1>4. CASE pc' = pc /\ chanSenders' = chanSenders
  <2>1. ~closed' => \A d \in Callers : pc'[d] = "chanParked" => d \in ToSet(chanSenders')
    BY <1>1, <1>4 DEF BytesInv, HeldInv
  <2>2. HeldInv'
    BY <1>2, <2>1, HeldKept DEF BytesInv
  <2>3. Holding' = Holding
    BY <1>1, <1>4 DEF Holding
  <2>4. BytesAccounted'
    BY <1>1, <1>3, <2>3, BytesSame DEF BytesInv
  <2> QED BY <2>2, <2>4 DEF BytesInv
<1>5. CASE /\ pc[c] = "chanParked" /\ pc' = [pc EXCEPT ![c] = "chanGate"]
           /\ chanSenders' = Without(chanSenders, c)
  <2>1. ToSet(chanSenders') = ToSet(chanSenders) \ {c}
    <3>1. DistinctIn(chanSenders, Callers)
      BY DEF QueueInv, ChanQueue
    <3>2. ToSet(Without(chanSenders, c)) = ToSet(chanSenders) \ {c} /\ DistinctIn(Without(chanSenders, c), Callers)
      BY <1>0, <3>1, WithoutQueue
    <3> QED BY <1>5, <3>2
  <2>2. \A d \in Callers : pc'[d] = IF d = c THEN "chanGate" ELSE pc[d]
    BY <1>0, <1>5
  <2>3. ~closed' => \A d \in Callers : pc'[d] = "chanParked" => d \in ToSet(chanSenders')
    BY <1>1, <2>1, <2>2 DEF BytesInv, HeldInv
  <2>4. HeldInv'
    BY <1>2, <2>3, HeldKept DEF BytesInv
  <2>5. WriteMode = "CHANNEL"
    BY <1>5, ModeAssumption DEF BytesInv, HeldInv, GatePoints
  <2>6. ASSUME Counted' PROVE Holding' = Holding
    <3>1. ~closed /\ ~Cancel(c)
      BY <1>1, <2>5, <2>6 DEF Counted, Cancel
    <3>2. c \in Requests /\ c \in ToSet(chanSenders)
      BY <1>5, <3>1 DEF BytesInv, HeldInv
    <3>3. {d \in Requests : pc'[d] = "chanGate"} = {d \in Requests : pc[d] = "chanGate"} \cup {c}
      BY <1>0, <2>2, <3>2
    <3> QED BY <1>1, <2>1, <2>5, <3>2, <3>3 DEF Holding
  <2>7. BytesAccounted'
    BY <1>1, <1>3, <2>6, BytesSame DEF BytesInv
  <2> QED BY <2>4, <2>7 DEF BytesInv
<1> QED BY <1>1, <1>4, <1>5

(* A caller that was suspended in the Channel runs: a request the Channel  *)
(* did not take gives its bytes back.                                      *)
LEMMA BytesRunChan ==
  ASSUME ConnInv, ConnInv', QueueInv, BytesInv, \A d \in Callers : Move(pc[d], pc'[d]),
         NEW c \in Callers, RunChanWaiter(c)
  PROVE  BytesInv'
<1>0. /\ pc \in [Coroutines -> Points] /\ Callers \subseteq Coroutines /\ Requests \subseteq Callers
      /\ c # Writer /\ c # Nobody
  BY HeldTypes
<1>1. /\ UNCHANGED <<closed, cancelled, sendQueue, buffer, chanSenders, loopPacket>>
      /\ pc[c] \in {"chanSent", "chanGate"}
  BY DEF RunChanWaiter
<1>2. /\ DistinctIn(sendQueue', Callers) /\ DistinctIn(buffer', Callers)
      /\ ToSet(sendQueue') = ToSet(sendQueue) /\ ToSet(buffer') = ToSet(buffer)
      /\ loopPacket' # Nobody => loopPacket' \notin ToSet(buffer') /\ loopPacket' \in {loopPacket}
  BY <1>1 DEF BytesInv, HeldInv
<1>3. \E p \in {"await", "finally"} : pc' = [pc EXCEPT ![c] = p]
  BY <1>0 DEF RunChanWaiter, AfterEnqueue, GoTo, Finish
<1>4. pc'[c] \in {"await", "finally"} /\ \A d \in Callers \ {c} : pc'[d] = pc[d]
  BY <1>0, <1>3
<1>5. ~closed' => \A d \in Callers : pc'[d] = "chanParked" => d \in ToSet(chanSenders')
  BY <1>1, <1>4 DEF BytesInv, HeldInv
<1>6. HeldInv'
  BY <1>2, <1>5, HeldKept DEF BytesInv
<1>7. WriteMode = "CHANNEL" /\ (Counted' => Counted /\ c \notin cancelled)
  BY <1>1, ModeAssumption DEF BytesInv, HeldInv, GatePoints, Counted
<1>8. CASE c \in Requests /\ pc[c] = "chanGate"
  <2>1. queuedBytes' = IF queuedBytes >= Bytes[c] THEN queuedBytes - Bytes[c] ELSE 0
    BY <1>8 DEF RunChanWaiter, ReleaseOutboundBytes
  <2>2. c \notin ToSet(buffer) /\ c \notin ToSet(chanSenders) /\ c # loopPacket
    BY <1>0, <1>8 DEF BytesInv, HeldInv, HeldPoints, AfterPoints, QueueInv, ChanQueue
  <2>3. {d \in Requests : pc'[d] = "chanGate"} = {d \in Requests : pc[d] = "chanGate"} \ {c}
    BY <1>0, <1>4
  <2>4. c \in Holding /\ Holding' = Holding \ {c}
    BY <1>0, <1>1, <1>7, <1>8, <2>2, <2>3 DEF Holding
  <2>5. BytesAccounted'
    BY <1>7, <2>1, <2>4, BytesReleased DEF BytesInv
  <2> QED BY <1>6, <2>5 DEF BytesInv
<1>9. CASE ~(c \in Requests /\ pc[c] = "chanGate")
  <2>1. Counted' => queuedBytes' = queuedBytes
    BY <1>7, <1>9 DEF RunChanWaiter
  <2>2. {d \in Requests : pc'[d] = "chanGate"} = {d \in Requests : pc[d] = "chanGate"}
    BY <1>0, <1>4, <1>9
  <2>3. Holding' = Holding
    BY <1>1, <1>2, <2>2 DEF Holding
  <2>4. BytesAccounted'
    BY <1>7, <2>1, <2>3, BytesSame DEF BytesInv
  <2> QED BY <1>6, <2>4 DEF BytesInv
<1> QED BY <1>8, <1>9

(* shutdown() empties the mailbox and forgets the packet of the loop. *)
LEMMA BytesCloses ==
  ASSUME ConnInv, ConnInv', BytesInv, \A d \in Callers : Move(pc[d], pc'[d]),
         Close \/ \E c \in Coroutines : WriteFails(c)
  PROVE  BytesInv'
<1>1. /\ closed' /\ buffer' = buffer
      /\ sendQueue' \in {sendQueue, <<>>} /\ loopPacket' \in {loopPacket, Nobody}
  BY DEF Close, WriteFails, Shutdown
<1>2. /\ DistinctIn(sendQueue', Callers) /\ DistinctIn(buffer', Callers)
      /\ ToSet(sendQueue') \subseteq ToSet(sendQueue) /\ ToSet(buffer') = ToSet(buffer)
  BY <1>1, EmptyQueue DEF BytesInv, HeldInv
<1>3. loopPacket' # Nobody => loopPacket' \notin ToSet(buffer') /\ loopPacket' \in {loopPacket}
  BY <1>1 DEF BytesInv, HeldInv
<1>4. HeldInv'
  BY <1>1, <1>2, <1>3, HeldKept DEF BytesInv
<1>5. BytesAccounted'
  BY <1>1, AccountedNext DEF Counted
<1> QED BY <1>4, <1>5 DEF BytesInv

LEMMA BytesInvInit == Init => BytesInv
<1> SUFFICES ASSUME Init PROVE BytesInv
  OBVIOUS
<1>1. /\ buffer = <<>> /\ sendQueue = <<>> /\ chanSenders = <<>> /\ loopPacket = Nobody /\ queuedBytes = 0
      /\ \A c \in Callers : pc[c] = "idle"
  BY CallersAssumption DEF Init, Callers, Coroutines
<1>2. ToSet(<<>>) = {} /\ DistinctIn(<<>>, Callers)
  BY EmptyQueue
<1>3. HeldInv
  BY <1>1, <1>2 DEF HeldInv, GatePoints
<1>4. Holding = {}
  <2>1. {c \in Requests : pc[c] = "chanGate"} = {}
    BY <1>1 DEF Callers
  <2> QED BY <1>1, <1>2, <2>1 DEF Holding
<1>5. BytesOf({}) = 0
  BY BytesOfSets
<1> QED BY <1>1, <1>3, <1>4, <1>5, AccountedIs DEF BytesInv

LEMMA BytesInvStep ==
  ConnInv /\ ConnInv' /\ QueueInv /\ WriterInv /\ BytesInv /\ [Next]_vars => BytesInv'
<1> SUFFICES ASSUME ConnInv, ConnInv', QueueInv, WriterInv, BytesInv, [Next]_vars PROVE BytesInv'
  OBVIOUS
<1>0. Requests \subseteq Callers /\ Senders \subseteq Callers /\ Callers \subseteq Coroutines
  BY RegTypes
<1>m. \A d \in Callers : Move(pc[d], pc'[d])
  BY CallerMoves
<1>1. CASE Reactor
  <2>1. ASSUME NEW c \in Coroutines,
               Run(c) \/ RunDead(c) \/ DrainLeftover(c) \/ DrainDone(c)
        PROVE  BytesInv'
    BY <1>m, <2>1, StillBytesWriter, StillBytes
  <2>2. ASSUME NEW c \in Callers,
               \/ SlotTaken(c) \/ SlotRefused(c) \/ SlotWait(c)
               \/ EnqueueTooLarge(c) \/ EnqueueAborted(c) \/ EnqueueWait(c)
               \/ AwaitSettled(c) \/ AwaitParks(c) \/ Finally(c) \/ SendReturns(c)
        PROVE  BytesInv'
    BY <1>m, <2>2, StillBytesCaller, StillBytes
  <2>3. ASSUME NEW c \in Callers, EnqueueInline(c) PROVE BytesInv'
    BY <1>m, <2>3, BytesEnqueueInline
  <2>4. ASSUME NEW c \in Callers, EnqueueChannel(c) PROVE BytesInv'
    BY <1>m, <2>4, BytesEnqueueChannel
  <2>5. ASSUME NEW c \in Callers, EnqueueChannelFull(c) PROVE BytesInv'
    BY <1>m, <2>5, BytesEnqueueFull
  <2>6. ASSUME NEW c \in Callers, RunChanWaiter(c) PROVE BytesInv'
    BY <1>m, <2>6, BytesRunChan
  <2>7. ASSUME NEW c \in Coroutines, DrainNext(c) PROVE BytesInv'
    BY <1>m, <2>7, BytesDrainNext
  <2>8. CASE LoopTakes
    <3>1. WriteMode = "CHANNEL"
      BY <2>8, ModeAssumption DEF LoopTakes, Running, WriterInv, InlineWriter, WriterPoints
    <3> QED BY <1>m, <2>8, <3>1, BytesLoopTakes
  <2>9. CASE LoopParks
    BY <1>m, <2>9, StillBytesSocket, StillBytes
  <2> QED BY <1>0, <1>1, <2>1, <2>2, <2>3, <2>4, <2>5, <2>6, <2>7, <2>8, <2>9 DEF Reactor
<1>2. ASSUME NEW c \in Callers, CallClosed(c) \/ Send(c) \/ Request(c) PROVE BytesInv'
  BY <1>m, <1>2, StillBytesCaller, StillBytes
<1>3. ASSUME NEW c \in Callers, Cancel(c) \/ (c \in Requests /\ Deadline(c)) PROVE BytesInv'
  BY <1>m, <1>3, BytesEvents
<1>4. ASSUME NEW r \in Requests, NEW p \in Requests, RecvResponse(r, p) PROVE BytesInv'
  BY <1>0, <1>m, <1>4, BytesEvents
<1>5. ASSUME NEW c \in Coroutines, WriteReturns(c) PROVE BytesInv'
  BY <1>m, <1>5, StillBytesWriter, StillBytes, BytesLoopReturns, ModeAssumption
<1>6. CASE SocketWrite \/ (\E c \in Callers : WriteCancelled(c)) \/ UNCHANGED vars
  BY <1>m, <1>6, StillBytesSocket, StillBytes
<1>7. CASE Close \/ \E c \in Coroutines : WriteFails(c)
  BY <1>m, <1>7, BytesCloses
<1> QED BY <1>0, <1>1, <1>2, <1>3, <1>4, <1>5, <1>6, <1>7 DEF Next

(* queuedBytes is the sum of the bytes on the outbound path and nothing    *)
(* else: enqueue adds a packet once, and the writer, the write loop or the *)
(* sender whose select lost to the deadline gives it back once (so         *)
(* releaseOutboundBytes never meets its clamp), through every              *)
(* interleaving with timeouts, responses and, in INLINE mode,              *)
(* cancellations.                                                          *)
THEOREM BytesStayExact == Spec => []BytesAccounted
<1>1. ConnInv /\ ConnInv' /\ QueueInv /\ WriterInv /\ BytesInv /\ [Next]_vars => BytesInv'
  BY BytesInvStep
<1>2. BytesInv => BytesAccounted
  BY DEF BytesInv
<1> QED BY <1>1, <1>2, BytesInvInit, RegInvariant, WriterInvariant, PTL DEF Spec

(* The outbound side as a whole: the ceilings of ConnectionConfig hold,    *)
(* the byte account is exact, the socket sees whole packets in order, and  *)
(* every exit of send() and request() leaves all tables and queues.        *)
THEOREM OutboundStaysSafe == Spec => []OutboundSafe
<1>1. ConnInv /\ BytesAccounted /\ WireIntact /\ Released => OutboundSafe
  BY DEF OutboundSafe
<1> QED BY <1>1, ConnectionInvariant, BytesStayExact, PacketsStayWhole, EveryExitReleases, PTL

-----------------------------------------------------------------------------
(* No stranded waiter: wake-ups, followed until their owner runs *)

(* No wake-up has been swallowed so far. *)
Calm == ~closed /\ Untroubled

TimedOut == {r \in Requests : settled[r] = "timeout"}

(* Trouble does not go away. *)
LEMMA TroubleStays ==
  ASSUME ConnInv, [Next]_vars
  PROVE  /\ cancelled \subseteq cancelled' /\ (doubleResume => doubleResume') /\ (closed => closed')
         /\ TimedOut \subseteq TimedOut'
<1>0. settled \in [Requests -> Settlements] /\ Requests \subseteq Callers
  BY RegTypes
<1>1. ASSUME NEW c \in Callers,
             \/ CallClosed(c) \/ Send(c) \/ Request(c) \/ SlotTaken(c) \/ SlotRefused(c) \/ SlotWait(c)
             \/ AwaitSettled(c) \/ AwaitParks(c) \/ Finally(c) \/ SendReturns(c)
             \/ EnqueueTooLarge(c) \/ EnqueueAborted(c) \/ EnqueueWait(c)
             \/ EnqueueInline(c) \/ EnqueueChannel(c) \/ EnqueueChannelFull(c) \/ RunChanWaiter(c)
      PROVE  UNCHANGED <<cancelled, doubleResume, closed, settled>>
  BY <1>1 DEF CallClosed, Send, Request, SlotTaken, SlotRefused, SlotWait, AwaitSettled, AwaitParks, Finally,
     SendReturns, EnqueueTooLarge, EnqueueAborted, EnqueueWait, EnqueueInline, EnqueueChannel,
     EnqueueChannelFull, RunChanWaiter, OnlyCaller, registryVars
<1>2. ASSUME NEW c \in Coroutines,
             Run(c) \/ RunDead(c) \/ DrainLeftover(c) \/ DrainNext(c) \/ DrainDone(c) \/ WriteReturns(c)
      PROVE  UNCHANGED <<cancelled, doubleResume, closed, settled>>
  BY <1>2 DEF Run, RunDead, DrainLeftover, DrainNext, DrainDone, WriteReturns, registryVars
<1>3. CASE SocketWrite \/ LoopTakes \/ LoopParks \/ (\E c \in Callers : WriteCancelled(c)) \/ UNCHANGED vars
  <2>1. UNCHANGED <<cancelled, doubleResume, closed, settled>>
    BY <1>3 DEF SocketWrite, LoopTakes, LoopParks, WriteCancelled, HandOff, reactorVars, registryVars, vars
  <2> QED BY <2>1 DEF TimedOut
<1>4. ASSUME NEW c \in Callers, Cancel(c)
      PROVE  UNCHANGED <<doubleResume, closed, settled>> /\ cancelled \subseteq cancelled'
  BY <1>4 DEF Cancel
<1>5. ASSUME NEW r \in Requests, Deadline(r)
      PROVE  UNCHANGED <<cancelled, closed>> /\ (doubleResume => doubleResume') /\ TimedOut \subseteq TimedOut'
  <2>1. UNCHANGED <<cancelled, closed>> /\ settled' = [settled EXCEPT ![r] = "timeout"]
    BY <1>5 DEF Deadline
  <2>2. doubleResume => doubleResume'
    BY <1>5 DEF Deadline
  <2> QED BY <1>0, <2>1, <2>2 DEF TimedOut
<1>6. ASSUME NEW r \in Requests, NEW p \in Requests, RecvResponse(r, p)
      PROVE  UNCHANGED <<cancelled, doubleResume, closed>> /\ TimedOut \subseteq TimedOut'
  <2>1. /\ UNCHANGED <<cancelled, doubleResume, closed>>
        /\ settled' = [settled EXCEPT ![p] = IF settled[p] = "none" THEN "response" ELSE settled[p]]
    BY <1>6 DEF RecvResponse
  <2> QED BY <1>0, <2>1 DEF TimedOut
<1>7. ASSUME NEW points, Shutdown(points)
      PROVE  UNCHANGED <<cancelled, doubleResume>> /\ closed' /\ TimedOut \subseteq TimedOut'
  <2>1. /\ UNCHANGED <<cancelled, doubleResume>> /\ closed'
        /\ settled' = [r \in Requests |->
                         IF r \in pending \cup ToSet(inFlightWaiters) /\ settled[r] = "none"
                           THEN "closed" ELSE settled[r]]
    BY <1>7 DEF Shutdown
  <2> QED BY <1>0, <2>1 DEF TimedOut
<1>8. CASE Close
  BY <1>7, <1>8 DEF Close
<1>9. ASSUME NEW c \in Coroutines, WriteFails(c)
      PROVE  UNCHANGED <<cancelled, doubleResume>> /\ (closed => closed') /\ TimedOut \subseteq TimedOut'
  <2>1. CASE closed
    BY <1>9, <2>1 DEF WriteFails, registryVars, TimedOut
  <2>2. CASE ~closed
    BY <1>7, <1>9, <2>2 DEF WriteFails
  <2> QED BY <2>1, <2>2
<1>10. UNCHANGED settled => TimedOut \subseteq TimedOut'
  BY DEF TimedOut
<1>11. CASE Reactor
  BY <1>0, <1>1, <1>2, <1>3, <1>10, <1>11 DEF Reactor, Callers
<1> QED BY <1>0, <1>1, <1>2, <1>3, <1>4, <1>5, <1>6, <1>8, <1>9, <1>10, <1>11 DEF Next, Callers

LEMMA CalmBefore ==
  ASSUME ConnInv, ConnInv', [Next]_vars, Calm'
  PROVE  Calm /\ cancelled = {} /\ cancelled' = {} /\ ~doubleResume' /\ ~closed'
<1>1. ~closed' /\ cancelled' = {} /\ ~doubleResume' /\ Cardinality(TimedOut') <= 1
  BY DEF Calm, Untroubled, TimedOut
<1>2. /\ cancelled \subseteq cancelled' /\ (doubleResume => doubleResume') /\ (closed => closed')
      /\ TimedOut \subseteq TimedOut'
  BY TroubleStays
<1>3. IsFiniteSet(TimedOut') /\ IsFiniteSet(TimedOut)
  <2>1. TimedOut \subseteq Requests /\ TimedOut' \subseteq Requests
    BY DEF TimedOut
  <2> QED BY <2>1, CallersAssumption, FS_Subset
<1>4. Cardinality(TimedOut) <= Cardinality(TimedOut') /\ Cardinality(TimedOut) \in Nat
      /\ Cardinality(TimedOut') \in Nat
  BY <1>2, <1>3, FS_Subset, FS_CardinalityType
<1>5. Cardinality(TimedOut) <= 1
  BY <1>1, <1>4
<1> QED BY <1>1, <1>2, <1>5 DEF Calm, Untroubled, TimedOut

-----------------------------------------------------------------------------
(* What is on the wire or in the write buffer comes from a caller that has *)
(* left enqueue for good, so no response finds its request waiting.        *)
Sent == \A k \in ToSet(wire) \cup ToSet(writeBuf) : k[1] \in Callers /\ pc[k[1]] \in HeldPoints

LEMMA SentKept ==
  ASSUME Sent, \A d \in Callers : Move(pc[d], pc'[d]),
         \A k \in ToSet(wire') \cup ToSet(writeBuf') :
           \/ k \in ToSet(wire) \cup ToSet(writeBuf)
           \/ k[1] \in Callers /\ pc[k[1]] \in HeldPoints
  PROVE  Sent'
<1>1. ASSUME NEW c \in Callers, pc[c] \in HeldPoints PROVE pc'[c] \in HeldPoints
  BY <1>1 DEF Move, HeldPoints, AfterPoints, BeforePoints, GatePoints
<1>2. ASSUME NEW k \in ToSet(wire') \cup ToSet(writeBuf') PROVE k[1] \in Callers /\ pc'[k[1]] \in HeldPoints
  BY <1>1, <1>2 DEF Sent
<1>3. (\A k \in ToSet(wire) \cup ToSet(writeBuf) : k[1] \in Callers /\ pc[k[1]] \in HeldPoints)'
  BY <1>2 DEF ToSet, Callers
<1> QED BY <1>3 DEF Sent

LEMMA ChunksSent ==
  ASSUME NEW c, NEW k \in ToSet(Encode(c))
  PROVE  k[1] = c
  BY DEF Encode, ToSet

LEMMA AppendSet ==
  ASSUME NEW T, NEW s \in Seq(T), NEW e \in T
  PROVE  ToSet(Append(s, e)) = ToSet(s) \cup {e}
<1>1. ToSet(Append(s, e)) = ToSet(s) \cup {e} /\ (DistinctIn(s, T) /\ e \notin ToSet(s) \cap T => DistinctIn(Append(s, e), T))
  BY AppendQueue
<1> QED BY <1>1

LEMMA SentStep ==
  ASSUME ConnInv, QueueInv, HeldInv, Sent, [Next]_vars
  PROVE  Sent'
<1>0. /\ sendQueue \in Seq(Callers) /\ buffer \in Seq(Callers) /\ writeBuf \in Seq(Chunks) /\ wire \in Seq(Chunks)
      /\ loopPacket \in Callers \cup {Nobody} /\ Requests \subseteq Callers
  BY PathTypes, RegTypes
<1>m. \A d \in Callers : Move(pc[d], pc'[d])
  BY CallerMoves
<1>s. ASSUME UNCHANGED <<wire, writeBuf>> PROVE Sent'
  BY <1>m, <1>s, SentKept
<1>e. ASSUME NEW c \in Callers, pc[c] \in HeldPoints, writeBuf' = Encode(c), wire' = wire PROVE Sent'
  BY <1>m, <1>e, SentKept, ChunksSent
<1>1. ASSUME NEW c \in Callers,
             \/ CallClosed(c) \/ Send(c) \/ Request(c) \/ SlotTaken(c) \/ SlotRefused(c) \/ SlotWait(c)
             \/ AwaitSettled(c) \/ AwaitParks(c) \/ Finally(c) \/ SendReturns(c)
             \/ EnqueueTooLarge(c) \/ EnqueueAborted(c) \/ EnqueueWait(c)
             \/ EnqueueInline(c) \/ EnqueueChannel(c) \/ EnqueueChannelFull(c) \/ RunChanWaiter(c)
      PROVE  UNCHANGED <<wire, writeBuf>>
  BY <1>1 DEF CallClosed, Send, Request, SlotTaken, SlotRefused, SlotWait, AwaitSettled, AwaitParks, Finally,
     SendReturns, EnqueueTooLarge, EnqueueAborted, EnqueueWait, EnqueueInline, EnqueueChannel,
     EnqueueChannelFull, RunChanWaiter, OnlyCaller, ioVars
<1>2. ASSUME NEW c \in Coroutines, Run(c) \/ RunDead(c) \/ DrainLeftover(c) \/ DrainDone(c)
      PROVE  UNCHANGED <<wire, writeBuf>>
  BY <1>2 DEF Run, RunDead, DrainLeftover, DrainDone, ioVars
<1>3. ASSUME \/ LoopParks \/ (\E c \in Callers : WriteCancelled(c) \/ Cancel(c)) \/ UNCHANGED vars
             \/ (\E r \in Requests : Deadline(r)) \/ (\E r, p \in Requests : RecvResponse(r, p))
      PROVE  UNCHANGED <<wire, writeBuf>>
  <2>1. CASE LoopParks \/ UNCHANGED vars
    BY <2>1 DEF LoopParks, vars, ioVars
  <2>2. CASE \E c \in Callers : WriteCancelled(c) \/ Cancel(c)
    BY <2>2 DEF WriteCancelled, HandOff, Cancel, ioVars
  <2>3. CASE (\E r \in Requests : Deadline(r)) \/ (\E r, p \in Requests : RecvResponse(r, p))
    BY <2>3 DEF Deadline, RecvResponse, ioVars
  <2> QED BY <1>3, <2>1, <2>2, <2>3
<1>4. ASSUME Close \/ \E c \in Coroutines : WriteFails(c) PROVE UNCHANGED <<wire, writeBuf>>
  <2>1. \A points : Shutdown(points) => UNCHANGED <<wire, writeBuf>>
    BY DEF Shutdown, ioVars
  <2> QED BY <1>4, <2>1 DEF Close, WriteFails, ioVars
<1>5. ASSUME NEW c \in Coroutines, DrainNext(c) PROVE Sent'
  <2>1. /\ sendQueue # <<>> /\ writeBuf' = Encode(Head(sendQueue)) /\ wire' = wire
    BY <1>5 DEF DrainNext
  <2>2. Head(sendQueue) \in ToSet(sendQueue) /\ Head(sendQueue) \in Callers
    BY <1>0, <2>1, TailQueue, TailFacts
  <2>3. pc[Head(sendQueue)] \in HeldPoints
    BY <2>2 DEF HeldInv
  <2> QED BY <1>e, <2>1, <2>2, <2>3
<1>6. ASSUME NEW c \in Coroutines, WriteReturns(c) PROVE Sent'
  <2>1. writeBuf' = <<>> /\ wire' = wire
    BY <1>6 DEF WriteReturns
  <2>2. ToSet(writeBuf') = {} /\ ToSet(wire') = ToSet(wire)
    BY <2>1, EmptyQueue
  <2> QED BY <1>m, <2>2, SentKept
<1>7. CASE SocketWrite
  <2>1. writeBuf # <<>> /\ wire' = Append(wire, Head(writeBuf)) /\ writeBuf' = Tail(writeBuf)
    BY <1>7 DEF SocketWrite
  <2>2. Head(writeBuf) \in ToSet(writeBuf) /\ ToSet(writeBuf') \subseteq ToSet(writeBuf) /\ Head(writeBuf) \in Chunks
    BY <1>0, <2>1, TailQueue, TailFacts
  <2>3. ToSet(wire') = ToSet(wire) \cup {Head(writeBuf)}
    BY <1>0, <2>1, <2>2, AppendSet
  <2> QED BY <1>m, <2>2, <2>3, SentKept
<1>8. CASE LoopTakes
  <2>1. CASE loopPacket # Nobody
    <3>1. writeBuf' = Encode(loopPacket) /\ wire' = wire
      BY <1>8, <2>1 DEF LoopTakes
    <3>2. loopPacket \in Callers /\ pc[loopPacket] \in HeldPoints
      BY <1>0, <2>1 DEF HeldInv
    <3> QED BY <1>e, <3>1, <3>2
  <2>2. CASE loopPacket = Nobody
    <3>1. buffer # <<>> /\ writeBuf' = Encode(Head(buffer)) /\ wire' = wire
      BY <1>8, <2>2 DEF LoopTakes
    <3>2. Head(buffer) \in ToSet(buffer) /\ Head(buffer) \in Callers
      BY <1>0, <3>1, TailQueue, TailFacts
    <3>3. pc[Head(buffer)] \in HeldPoints
      BY <3>2 DEF HeldInv
    <3> QED BY <1>e, <3>1, <3>2, <3>3
  <2> QED BY <2>1, <2>2
<1>9. CASE Reactor
  BY <1>0, <1>1, <1>2, <1>3, <1>5, <1>8, <1>9, <1>s DEF Reactor, Callers
<1> QED BY <1>0, <1>1, <1>3, <1>4, <1>6, <1>7, <1>9, <1>s DEF Next, Callers

-----------------------------------------------------------------------------
(* The run queue keeps its order *)

Before(s, a, b) == \E i, j \in 1 .. Len(s) : i < j /\ s[i] = a /\ s[j] = b

(* t holds what s holds, in the order of s. *)
Extends(s, t) == ToSet(s) \subseteq ToSet(t) /\ \A a, b : Before(s, a, b) => Before(t, a, b)

LEMMA ExtendsAppend ==
  ASSUME NEW T, NEW s \in Seq(T), NEW t \in Seq(T), NEW e \in T, Extends(s, t)
  PROVE  Extends(s, Append(t, e)) /\ \A a \in ToSet(t) : Before(Append(t, e), a, e)
<1>1. ToSet(Append(t, e)) = ToSet(t) \cup {e}
  BY AppendSet
<1>2. /\ Len(Append(t, e)) = Len(t) + 1 /\ Len(t) \in Nat /\ Append(t, e)[Len(t) + 1] = e
      /\ \A i \in 1 .. Len(t) : Append(t, e)[i] = t[i]
  OBVIOUS
<1>3. ASSUME NEW a, NEW b, Before(t, a, b) PROVE Before(Append(t, e), a, b)
  <2>1. PICK i \in 1 .. Len(t), j \in 1 .. Len(t) : i < j /\ t[i] = a /\ t[j] = b
    BY <1>3 DEF Before
  <2>2. i \in 1 .. Len(Append(t, e)) /\ j \in 1 .. Len(Append(t, e))
    BY <1>2
  <2> QED BY <1>2, <2>1, <2>2 DEF Before
<1>4. ASSUME NEW a \in ToSet(t) PROVE Before(Append(t, e), a, e)
  <2>1. PICK i \in 1 .. Len(t) : t[i] = a
    BY DEF ToSet
  <2>2. /\ i \in 1 .. Len(Append(t, e)) /\ Len(t) + 1 \in 1 .. Len(Append(t, e)) /\ i < Len(t) + 1
        /\ Append(t, e)[i] = a
    BY <1>2, <2>1
  <2> QED BY <1>2, <2>2 DEF Before
<1> QED BY <1>1, <1>3, <1>4 DEF Extends

LEMMA ExtendsSelf ==
  ASSUME NEW s
  PROVE  Extends(s, s)
  BY DEF Extends

LEMMA BeforeTail ==
  ASSUME NEW T, NEW S, NEW s \in Seq(T), s # <<>>, DistinctIn(s, S), NEW a, NEW b \in S, Before(s, a, b)
  PROVE  /\ b # Head(s) /\ b \in ToSet(Tail(s)) /\ a \in ToSet(s)
         /\ a # Head(s) => Before(Tail(s), a, b)
<1>1. PICK i \in 1 .. Len(s), j \in 1 .. Len(s) : i < j /\ s[i] = a /\ s[j] = b
  BY DEF Before
<1>2. /\ Len(s) \in Nat \ {0} /\ Head(s) = s[1] /\ Len(Tail(s)) = Len(s) - 1
      /\ \A k \in 1 .. Len(s) - 1 : Tail(s)[k] = s[k + 1]
  OBVIOUS
<1>3. s[j] # s[1]
  BY <1>1, <1>2 DEF DistinctIn
<1>4. j - 1 \in 1 .. Len(Tail(s)) /\ Tail(s)[j - 1] = b
  BY <1>1, <1>2
<1>5. b \in ToSet(Tail(s)) /\ a \in ToSet(s)
  <2>1. DOMAIN s = 1 .. Len(s) /\ DOMAIN Tail(s) = 1 .. Len(Tail(s))
    OBVIOUS
  <2> QED BY <1>1, <1>4, <2>1 DEF ToSet
<1>6. ASSUME a # Head(s) PROVE Before(Tail(s), a, b)
  <2>1. i # 1
    BY <1>1, <1>2, <1>6
  <2>2. i - 1 \in 1 .. Len(Tail(s)) /\ Tail(s)[i - 1] = a /\ i - 1 < j - 1
    BY <1>1, <1>2, <2>1
  <2> QED BY <1>4, <2>2 DEF Before
<1> QED BY <1>1, <1>2, <1>3, <1>5, <1>6

LEMMA WakeGoes ==
  ASSUME NEW s \in Seq(Coroutines), NEW waiters \in Seq(Requests), NEW conts,
         NEW queue \in Seq(Coroutines), Extends(s, queue),
         WakeOneInFlightWaiter(waiters, conts, queue)
  PROVE  Extends(s, ready') /\ conts \subseteq slotCont' \cup ToSet(ready')
<1>1. CASE waiters = <<>>
  BY <1>1 DEF WakeOneInFlightWaiter
<1>2. CASE waiters # <<>>
  <2>1. Head(waiters) \in Coroutines
    BY <1>2, TailFacts DEF Coroutines, Callers
  <2>2. /\ Extends(s, Append(queue, Head(waiters)))
        /\ ToSet(Append(queue, Head(waiters))) = ToSet(queue) \cup {Head(waiters)}
    BY <2>1, ExtendsAppend, AppendSet
  <2>3. /\ slotCont' = conts \ {Head(waiters)}
        /\ ready' = IF Head(waiters) \in conts THEN Append(queue, Head(waiters)) ELSE queue
    BY <1>2 DEF WakeOneInFlightWaiter
  <2> QED BY <2>2, <2>3
<1> QED BY <1>1, <1>2

LEMMA ReleaseGoes ==
  ASSUME NEW s \in Seq(Coroutines), roomWaiters \in Seq(Callers), NEW bytes,
         NEW queue \in Seq(Coroutines), Extends(s, queue), ReleaseOutboundBytes(bytes, queue)
  PROVE  Extends(s, ready') /\ ToSet(roomWaiters) \subseteq ToSet(roomWaiters') \cup ToSet(ready')
<1>1. CASE roomWaiters = <<>>
  BY <1>1 DEF ReleaseOutboundBytes
<1>2. CASE roomWaiters # <<>>
  <2>1. Head(roomWaiters) \in Coroutines
    BY <1>2, TailFacts DEF Coroutines
  <2>2. /\ Extends(s, Append(queue, Head(roomWaiters)))
        /\ ToSet(Append(queue, Head(roomWaiters))) = ToSet(queue) \cup {Head(roomWaiters)}
    BY <2>1, ExtendsAppend, AppendSet
  <2>3. ToSet(roomWaiters) = ToSet(Tail(roomWaiters)) \cup {Head(roomWaiters)}
    BY <1>2, TailQueue
  <2>4. roomWaiters' = Tail(roomWaiters) /\ ready' = Append(queue, Head(roomWaiters))
    BY <1>2 DEF ReleaseOutboundBytes
  <2> QED BY <2>2, <2>3, <2>4
<1> QED BY <1>1, <1>2

(* The run queue in a step: it grows at its end, and the reactor takes     *)
(* what it runs from its head.                                             *)
RunsOn ==
  \/ Extends(ready, ready')
  \/ \E c \in Coroutines : /\ Resumed(c) /\ Extends(Tail(ready), ready')
                           /\ pc'[c] \notin {"slotParked", "roomParked", "chanGate"}
                           /\ running' = c \/ pc[c] = "dead"

(* Who leaves a queue of waiters has been resumed, and who parks is in its *)
(* queue.                                                                  *)
ParksSafely ==
  /\ slotCont \subseteq slotCont' \cup ToSet(ready')
  /\ ToSet(roomWaiters) \subseteq ToSet(roomWaiters') \cup ToSet(ready')
  /\ \A c \in Callers :
       /\ pc'[c] = "slotParked" => pc[c] = "slotParked" \/ c \in slotCont'
       /\ pc'[c] = "roomParked" =>
            pc[c] = "roomParked" \/ (c \in ToSet(roomWaiters') /\ ~TooLarge(c))
       /\ pc'[c] = "chanGate" => pc[c] = "chanGate" \/ c \in ToSet(ready')

LEMMA MoveParks ==
  ASSUME NEW c,
         \A d \in Callers \ {c} : pc'[d] = pc[d],
         c \in Callers => pc'[c] \notin {"slotParked", "roomParked", "chanGate"},
         slotCont \subseteq slotCont' \cup ToSet(ready'),
         ToSet(roomWaiters) \subseteq ToSet(roomWaiters') \cup ToSet(ready')
  PROVE  ParksSafely
  BY DEF ParksSafely

LEMMA AfterGoes ==
  ASSUME NEW c, AfterEnqueue(c)
  PROVE  \E p \in {"finally", "idle", "await"} : pc' = [pc EXCEPT ![c] = p]
  BY DEF AfterEnqueue, GoTo, Finish

LEMMA StillGoes ==
  ASSUME ConnInv, NEW c \in Coroutines,
         \/ c \in Callers /\ (Send(c) \/ Request(c) \/ SlotTaken(c) \/ SlotRefused(c) \/ AwaitSettled(c)
              \/ AwaitParks(c) \/ SendReturns(c) \/ EnqueueTooLarge(c) \/ EnqueueAborted(c)
              \/ EnqueueInline(c) \/ EnqueueChannelFull(c))
         \/ DrainLeftover(c) \/ DrainDone(c) \/ (WriteReturns(c) /\ WriteMode = "INLINE")
         \/ c = Writer /\ (LoopParks \/ SocketWrite \/ UNCHANGED vars)
  PROVE  RunsOn /\ ParksSafely
<1>0. pc \in [Coroutines -> Points] /\ Callers \subseteq Coroutines /\ Writer \notin Callers
  BY QueueTypes
<1>1. UNCHANGED <<ready, slotCont, roomWaiters>>
  BY DEF Send, Request, SlotTaken, SlotRefused, AwaitSettled, AwaitParks, SendReturns, EnqueueTooLarge,
     EnqueueAborted, EnqueueInline, EnqueueChannelFull, DrainLeftover, DrainDone, WriteReturns, LoopParks,
     SocketWrite, OnlyCaller, vars, reactorVars, registryVars, roomVars
<1>2. \/ pc' = pc /\ c \notin Callers
      \/ \E p : pc' = [pc EXCEPT ![c] = p] /\ p \notin {"slotParked", "roomParked", "chanGate"}
  <2>1. CASE c \in Callers /\ (Send(c) \/ Request(c) \/ SlotTaken(c) \/ SlotRefused(c) \/ AwaitSettled(c)
              \/ AwaitParks(c) \/ SendReturns(c) \/ EnqueueTooLarge(c) \/ EnqueueAborted(c))
    BY <2>1 DEF Send, Request, SlotTaken, SlotRefused, AwaitSettled, AwaitParks, SendReturns, Return,
       EnqueueTooLarge, EnqueueAborted, GoTo, Finish
  <2>2. CASE c \in Callers /\ (EnqueueInline(c) \/ EnqueueChannelFull(c))
    <3>1. AfterEnqueue(c) \/ GoTo(c, "drain") \/ GoTo(c, "chanParked") \/ Finish(c, "cancelled")
      BY <2>2 DEF EnqueueInline, EnqueueChannelFull
    <3> QED BY <3>1, AfterGoes DEF GoTo, Finish
  <2>3. CASE DrainLeftover(c) \/ DrainDone(c) \/ (WriteReturns(c) /\ WriteMode = "INLINE")
    <3>1. AfterEnqueue(c) \/ GoTo(c, "write") \/ GoTo(c, "drain")
      BY <2>3 DEF DrainLeftover, DrainDone, WriteReturns
    <3> QED BY <3>1, AfterGoes DEF GoTo
  <2>4. CASE c = Writer /\ (LoopParks \/ SocketWrite \/ UNCHANGED vars)
    BY <1>0, <2>4 DEF LoopParks, SocketWrite, vars, reactorVars, GoTo
  <2> QED BY <2>1, <2>2, <2>3, <2>4
<1>3. /\ \A d \in Callers \ {c} : pc'[d] = pc[d]
      /\ c \in Callers => pc'[c] \notin {"slotParked", "roomParked", "chanGate"}
  BY <1>0, <1>2
<1>4. /\ slotCont \subseteq slotCont' \cup ToSet(ready')
      /\ ToSet(roomWaiters) \subseteq ToSet(roomWaiters') \cup ToSet(ready')
      /\ Extends(ready, ready')
  BY <1>1, ExtendsSelf
<1> QED BY <1>3, <1>4, MoveParks DEF RunsOn

LEMMA WaitGoes ==
  ASSUME ConnInv, NEW c \in Callers,
         (c \in Requests /\ SlotWait(c)) \/ EnqueueWait(c)
  PROVE  RunsOn /\ ParksSafely
<1>0. pc \in [Coroutines -> Points] /\ Callers \subseteq Coroutines /\ roomWaiters \in Seq(Callers)
  BY QueueTypes
<1>1. ready' = ready
  BY DEF SlotWait, EnqueueWait, OnlyCaller
<1>2. RunsOn
  BY <1>1, ExtendsSelf DEF RunsOn
<1>3. CASE SlotWait(c)
  <2>1. roomWaiters' = roomWaiters
    BY <1>3 DEF SlotWait, OnlyCaller, roomVars
  <2>2. CASE c \in cancelled
    <3>1. slotCont' = slotCont /\ pc' = [pc EXCEPT ![c] = "finally"]
      BY <1>3, <2>2 DEF SlotWait, Finish
    <3> QED BY <1>0, <1>2, <2>1, <3>1, MoveParks
  <2>3. CASE c \notin cancelled
    <3>1. slotCont' = slotCont \cup {c} /\ pc' = [pc EXCEPT ![c] = "slotParked"]
      BY <1>3, <2>3 DEF SlotWait, GoTo
    <3> QED BY <1>0, <1>2, <2>1, <3>1 DEF ParksSafely
  <2> QED BY <2>2, <2>3
<1>4. CASE EnqueueWait(c)
  <2>1. slotCont' = slotCont /\ ~TooLarge(c)
    BY <1>4 DEF EnqueueWait, Enqueuing, registryVars
  <2>2. CASE c \in cancelled
    <3>1. roomWaiters' = roomWaiters /\ pc' = [pc EXCEPT ![c] = "finally"]
      BY <1>4, <2>2 DEF EnqueueWait, Finish, roomVars
    <3> QED BY <1>0, <1>2, <2>1, <3>1, MoveParks
  <2>3. CASE c \notin cancelled
    <3>1. roomWaiters' = Append(roomWaiters, c) /\ pc' = [pc EXCEPT ![c] = "roomParked"]
      BY <1>4, <2>3 DEF EnqueueWait, GoTo
    <3>2. ToSet(roomWaiters') = ToSet(roomWaiters) \cup {c}
      BY <1>0, <3>1, AppendSet
    <3> QED BY <1>0, <1>2, <2>1, <3>1, <3>2 DEF ParksSafely
  <2> QED BY <2>2, <2>3
<1> QED BY <1>3, <1>4

LEMMA RunGoes ==
  ASSUME ConnInv, QueueInv, NEW c \in Coroutines,
         Run(c) \/ RunDead(c) \/ (c \in Callers /\ RunChanWaiter(c))
  PROVE  RunsOn /\ ParksSafely
<1>0. /\ pc \in [Coroutines -> Points] /\ Callers \subseteq Coroutines /\ roomWaiters \in Seq(Callers)
      /\ Writer \notin Callers
  BY QueueTypes
<1>1. Resumed(c) /\ slotCont' = slotCont
  BY DEF Run, RunDead, RunChanWaiter, registryVars
<1>2. Tail(ready) \in Seq(Coroutines)
  BY <1>1, ResumeFacts
<1>3. running' = c \/ pc[c] = "dead"
  BY DEF Run, RunDead, RunChanWaiter
<1>4. /\ \A d \in Callers \ {c} : pc'[d] = pc[d]
      /\ pc'[c] \notin {"slotParked", "roomParked", "chanGate"}
  <2>1. CASE Run(c)
    <3>1. \/ GoTo(c, "slot") \/ GoTo(c, "enqueue") \/ GoTo(c, "drain") \/ GoTo(c, "receive")
          \/ \E o : Finish(c, o)
      BY <2>1 DEF Run, RunSlotWaiter, RunRoomWaiter, RunAwaiter, RunWriter
    <3> QED BY <1>0, <3>1 DEF GoTo, Finish
  <2>2. CASE RunDead(c)
    BY <2>2 DEF RunDead
  <2>3. CASE c \in Callers /\ RunChanWaiter(c)
    <3>1. AfterEnqueue(c) \/ Finish(c, "cancelled")
      BY <2>3 DEF RunChanWaiter
    <3> QED BY <1>0, <3>1, AfterGoes DEF Finish
  <2> QED BY <2>1, <2>2, <2>3
<1>5. Extends(Tail(ready), ready') /\ ToSet(roomWaiters) \subseteq ToSet(roomWaiters') \cup ToSet(ready')
  <2>1. CASE ready' = Tail(ready) /\ roomWaiters' = roomWaiters
    BY <2>1, ExtendsSelf
  <2>2. CASE ReleaseOutboundBytes(Bytes[c], Tail(ready))
    BY <1>0, <1>2, <2>2, ReleaseGoes, ExtendsSelf
  <2> QED BY <2>1, <2>2 DEF Run, RunDead, RunChanWaiter, roomVars
<1>6. RunsOn
  BY <1>1, <1>3, <1>4, <1>5 DEF RunsOn
<1> QED BY <1>1, <1>4, <1>5, <1>6, MoveParks

LEMMA EventGoes ==
  ASSUME ConnInv, QueueInv, NEW r \in Requests, NEW waiters \in Seq(Requests), NEW conts, NEW queue,
         queue \in {ready, Append(ready, r)},
         WakeOneInFlightWaiter(waiters, conts, queue),
         slotCont \subseteq conts \cup (ToSet(queue) \cap {r}),
         ToSet(roomWaiters) \subseteq ToSet(roomWaiters') \cup (ToSet(queue) \cap {r}),
         \A d \in Callers \ {r} : pc'[d] = pc[d],
         \/ pc'[r] = pc[r] \/ pc'[r] = "done"
         \/ pc'[r] = "chanGate" /\ r \in ToSet(queue)
  PROVE  /\ RunsOn /\ ParksSafely
         /\ queue \in Seq(Coroutines) /\ Extends(queue, ready') /\ Extends(ready, queue)
<1>0. ready \in Seq(Coroutines) /\ Requests \subseteq Callers /\ Callers \subseteq Coroutines
  BY QueueTypes
<1>1. Append(ready, r) \in Seq(Coroutines) /\ Extends(ready, Append(ready, r)) /\ Extends(ready, ready)
  BY <1>0, AppendFacts, ExtendsAppend, ExtendsSelf
<1>2. queue \in Seq(Coroutines) /\ Extends(ready, queue)
  BY <1>0, <1>1
<1>3. Extends(ready, ready') /\ conts \subseteq slotCont' \cup ToSet(ready')
  BY <1>0, <1>2, WakeGoes
<1>4. Extends(queue, ready') /\ ToSet(queue) \subseteq ToSet(ready')
  BY <1>2, WakeGoes, ExtendsSelf DEF Extends
<1>5. ParksSafely
  BY <1>0, <1>3, <1>4 DEF ParksSafely
<1> QED BY <1>2, <1>3, <1>4, <1>5 DEF RunsOn

(* What the finally block frees: its own entry, and nothing of a request   *)
(* that still waits.                                                       *)
LEMMA FinallyFrees ==
  ASSUME ConnInv, QueueInv, RegInv, NEW c \in Requests, Finally(c)
  PROVE  /\ running = c /\ running' = Nobody /\ pc[c] = "finally" /\ pc' = [pc EXCEPT ![c] = "done"]
         /\ pending' = pending \ {c} /\ UNCHANGED <<settled, roomVars, cancelled, pathVars>>
         /\ \/ /\ c \in pending /\ c \notin ToSet(inFlightWaiters)
               /\ WakeOneInFlightWaiter(inFlightWaiters, slotCont, ready)
            \/ /\ c \notin pending /\ UNCHANGED <<slotCont, ready>>
               /\ ToSet(inFlightWaiters') = ToSet(inFlightWaiters) \ {c}
<1>1. /\ running = c /\ running' = Nobody /\ pc[c] = "finally" /\ pc' = [pc EXCEPT ![c] = "done"]
      /\ UNCHANGED <<settled, roomVars, cancelled, pathVars>>
      /\ pending' = {p \in pending : id[p] # id[c]}
  BY DEF Finally, Running, Return
<1>2. pending' = pending \ {c}
  BY <1>1, OwnEntry
<1>3. CASE \E p \in pending : id[p] = id[c]
  <2>1. c \in pending
    <3>1. PICK p \in pending : id[p] = id[c]
      BY <1>3
    <3>2. p \notin pending'
      BY <1>1, <3>1
    <3> QED BY <1>2, <3>1, <3>2
  <2>2. c \notin ToSet(inFlightWaiters)
    BY <1>1, <2>1, Unqueued, QueueTypes DEF AwakePoints, RegInv, PendingAt
  <2>3. Without(inFlightWaiters, c) = inFlightWaiters
    <3>1. DOMAIN inFlightWaiters = 1 .. Len(inFlightWaiters)
      BY QueueTypes
    <3> QED BY <2>2, <3>1 DEF Without, ToSet
  <2> QED BY <1>1, <1>2, <1>3, <2>1, <2>2, <2>3 DEF Finally
<1>4. CASE ~ \E p \in pending : id[p] = id[c]
  <2>1. c \notin pending
    BY <1>4
  <2>2. inFlightWaiters' = Without(inFlightWaiters, c) /\ UNCHANGED <<slotCont, ready>>
    BY <1>4 DEF Finally
  <2>3. /\ ToSet(Without(inFlightWaiters, c)) = ToSet(inFlightWaiters) \ {c}
        /\ DistinctIn(Without(inFlightWaiters, c), Callers)
    <3>1. /\ inFlightWaiters \in Seq(Requests) /\ Requests \subseteq Callers
          /\ DistinctIn(inFlightWaiters, Callers)
      BY QueueTypes DEF QueueInv, SlotQueue
    <3> QED BY <3>1, WithoutQueue
  <2> QED BY <1>1, <1>2, <2>1, <2>2, <2>3
<1> QED BY <1>3, <1>4

(* What a deadline that resumes nobody twice changes. *)
LEMMA DeadlineFrees ==
  ASSUME ConnInv, QueueInv, RegInv, NEW r \in Requests, Deadline(r), ~doubleResume'
  PROVE  /\ running = Nobody /\ running' = Nobody /\ cancelled' = cancelled
         /\ settled[r] = "none" /\ settled' = [settled EXCEPT ![r] = "timeout"]
         /\ pending' = pending \ {r} /\ pc[r] \notin WorkPoints
         /\ r \in roomCont => r \in ToSet(roomWaiters)
         /\ roomCont' = roomCont \ {r}
         /\ UNCHANGED <<queuedBytes, sendQueue, writerActive, buffer, loopPacket>>
         /\ \E queue \in {ready, Append(ready, r)} :
              /\ WakeOneInFlightWaiter(inFlightWaiters, slotCont \ {r}, queue)
              /\ r \in slotCont => queue = Append(ready, r)
              /\ \/ roomWaiters' = roomWaiters /\ r \notin roomCont
                 \/ /\ ToSet(roomWaiters') = ToSet(roomWaiters) \ {r} /\ queue = Append(ready, r)
                    /\ roomWaiters' \in Seq(Callers)
              /\ \/ pc' = pc /\ chanSenders' = chanSenders
                 \/ /\ pc[r] = "chanParked" /\ pc' = [pc EXCEPT ![r] = "chanGate"]
                    /\ queue = Append(ready, r) /\ chanSenders' = Without(chanSenders, r)
<1>0. /\ Requests \subseteq Callers /\ Nobody \notin Callers /\ roomWaiters \in Seq(Callers)
      /\ DistinctIn(roomWaiters, Callers)
  BY RegTypes, QueueTypes DEF QueueInv, RoomQueue
<1>1. /\ running = Nobody /\ running' = Nobody /\ cancelled' = cancelled
      /\ settled[r] = "none" /\ settled' = [settled EXCEPT ![r] = "timeout"]
      /\ pc[r] \notin {"idle", "done"}
      /\ UNCHANGED <<queuedBytes, sendQueue, writerActive, buffer, loopPacket>>
      /\ pending' = {p \in pending : id[p] # id[r]}
  BY DEF Deadline, DeadlineDue
<1>2. pending' = pending \ {r}
  BY <1>1, OwnEntry
<1>3. pc[r] \notin WorkPoints
  BY <1>0, <1>1 DEF RegInv, WorkRuns
<1> DEFINE parked == r \in AwaitersIn({r}) \cup GatedIn({r}) \cup slotCont \/ r \in roomCont \cap ToSet(roomWaiters)
           queue == IF parked THEN Append(ready, r) ELSE ready
<1>4. ~(r \in roomCont /\ r \notin ToSet(roomWaiters))
  BY DEF Deadline
<1>5. /\ roomWaiters' = IF r \in roomCont THEN Without(roomWaiters, r) ELSE roomWaiters
      /\ roomCont' = roomCont \ {r}
      /\ WakeOneInFlightWaiter(inFlightWaiters, slotCont \ {r}, queue)
      /\ chanSenders' = IF r \in GatedIn({r}) THEN Without(chanSenders, r) ELSE chanSenders
      /\ pc' = IF r \in GatedIn({r}) THEN [pc EXCEPT ![r] = "chanGate"] ELSE pc
  BY <1>4 DEF Deadline
<1>6. queue \in {ready, Append(ready, r)} /\ (r \in slotCont => queue = Append(ready, r))
  OBVIOUS
<1>7. \/ roomWaiters' = roomWaiters /\ r \notin roomCont
      \/ /\ ToSet(roomWaiters') = ToSet(roomWaiters) \ {r} /\ queue = Append(ready, r)
         /\ roomWaiters' \in Seq(Callers)
  <2>1. /\ ToSet(Without(roomWaiters, r)) = ToSet(roomWaiters) \ {r}
        /\ DistinctIn(Without(roomWaiters, r), Callers)
    BY <1>0, WithoutQueue
  <2>2. Without(roomWaiters, r) \in Seq(Callers)
    BY <1>0, WithoutType
  <2> QED BY <1>4, <1>5, <2>1, <2>2
<1>8. \/ pc' = pc /\ chanSenders' = chanSenders
      \/ /\ pc[r] = "chanParked" /\ pc' = [pc EXCEPT ![r] = "chanGate"]
         /\ queue = Append(ready, r) /\ chanSenders' = Without(chanSenders, r)
  BY <1>5 DEF GatedIn
<1> HIDE DEF queue
<1> QED BY <1>1, <1>2, <1>3, <1>4, <1>5, <1>6, <1>7, <1>8

(* What a response changes: its own request is past enqueue. *)
LEMMA ResponseFrees ==
  ASSUME ConnInv, QueueInv, RegInv, Sent, NEW r \in Requests, NEW p \in Requests, RecvResponse(r, p)
  PROVE  /\ running' = running /\ cancelled' = cancelled
         /\ p \in pending /\ pending' = pending \ {p} /\ pc[p] \in HeldPoints
         /\ settled' = [settled EXCEPT ![p] = "response"]
         /\ UNCHANGED <<pc, roomVars, queuedBytes, sendQueue, writerActive, buffer, loopPacket, chanSenders>>
         /\ \E queue \in {ready, Append(ready, p)} :
              WakeOneInFlightWaiter(inFlightWaiters, slotCont, queue)
<1>0. pending \subseteq Requests /\ settled \in [Requests -> Settlements]
  BY RegTypes
<1>1. /\ running' = running /\ cancelled' = cancelled
      /\ p \in pending /\ id[p] = id[r] /\ pending' = pending \ {p}
      /\ settled' = [settled EXCEPT ![p] = IF settled[p] = "none" THEN "response" ELSE settled[p]]
      /\ <<r, 2>> \in ToSet(wire)
      /\ UNCHANGED <<roomVars, queuedBytes, sendQueue, writerActive, buffer, loopPacket>>
  BY DEF RecvResponse
<1>2. settled[p] = "none" /\ pc[p] \in InFlightPoints
  BY <1>1 DEF RegInv, PendingAt
<1>3. id[p] # 0
  BY <1>2 DEF RegInv, IdsGiven, InFlightPoints, BeforePoints, GatePoints, AfterPoints
<1>4. r = p
  BY <1>1, <1>3 DEF RegInv, IdsGiven
<1>5. pc[p] \in HeldPoints
  <2>1. <<r, 2>>[1] = r
    OBVIOUS
  <2> QED BY <1>1, <1>4, <2>1 DEF Sent
<1>6. GatedIn({p}) = {}
  BY <1>5 DEF GatedIn, HeldPoints, AfterPoints
<1>7. UNCHANGED <<pc, chanSenders>>
  BY <1>6 DEF RecvResponse
<1>8. \E queue \in {ready, Append(ready, p)} :
        WakeOneInFlightWaiter(inFlightWaiters, slotCont, queue)
  BY DEF RecvResponse
<1> QED BY <1>1, <1>2, <1>5, <1>7, <1>8

LEMMA FreesGoes ==
  ASSUME ConnInv, QueueInv, RegInv, Sent, ~doubleResume', NEW r \in Requests,
         Finally(r) \/ Deadline(r) \/ \E o \in Requests : RecvResponse(o, r)
  PROVE  RunsOn /\ ParksSafely
<1>0. /\ inFlightWaiters \in Seq(Requests) /\ ready \in Seq(Coroutines) /\ pc \in [Coroutines -> Points]
      /\ Requests \subseteq Callers /\ Callers \subseteq Coroutines
  BY QueueTypes
<1>1. r \in ToSet(Append(ready, r))
  BY <1>0, AppendSet
<1>2. CASE Finally(r)
  <2>1. /\ pc' = [pc EXCEPT ![r] = "done"] /\ roomWaiters' = roomWaiters
    BY <1>2, FinallyFrees DEF roomVars
  <2>2. \A d \in Callers \ {r} : pc'[d] = pc[d]
    BY <1>0, <2>1
  <2>3. pc'[r] = "done"
    BY <1>0, <2>1
  <2>4. CASE WakeOneInFlightWaiter(inFlightWaiters, slotCont, ready)
    BY <1>0, <2>1, <2>2, <2>3, <2>4, EventGoes
  <2>5. CASE UNCHANGED <<slotCont, ready>>
    BY <2>1, <2>2, <2>3, <2>5, MoveParks, ExtendsSelf DEF RunsOn
  <2> QED BY <1>2, <2>4, <2>5, FinallyFrees
<1>3. CASE Deadline(r)
  <2>1. PICK queue \in {ready, Append(ready, r)} :
              /\ WakeOneInFlightWaiter(inFlightWaiters, slotCont \ {r}, queue)
              /\ r \in slotCont => queue = Append(ready, r)
              /\ \/ roomWaiters' = roomWaiters /\ r \notin roomCont
                 \/ /\ ToSet(roomWaiters') = ToSet(roomWaiters) \ {r} /\ queue = Append(ready, r)
                    /\ roomWaiters' \in Seq(Callers)
              /\ \/ pc' = pc /\ chanSenders' = chanSenders
                 \/ /\ pc[r] = "chanParked" /\ pc' = [pc EXCEPT ![r] = "chanGate"]
                    /\ queue = Append(ready, r) /\ chanSenders' = Without(chanSenders, r)
    BY <1>3, DeadlineFrees
  <2>2. slotCont \subseteq (slotCont \ {r}) \cup (ToSet(queue) \cap {r})
    BY <1>1, <2>1
  <2>3. ToSet(roomWaiters) \subseteq ToSet(roomWaiters') \cup (ToSet(queue) \cap {r})
    BY <1>1, <2>1
  <2>4. \A d \in Callers \ {r} : pc'[d] = pc[d]
    BY <1>0, <2>1
  <2>5. pc'[r] = pc[r] \/ (pc'[r] = "chanGate" /\ r \in ToSet(queue))
    BY <1>0, <1>1, <2>1
  <2> QED BY <1>0, <2>1, <2>2, <2>3, <2>4, <2>5, EventGoes
<1>4. ASSUME NEW o \in Requests, RecvResponse(o, r) PROVE RunsOn /\ ParksSafely
  <2>1. pc' = pc /\ roomWaiters' = roomWaiters
    BY <1>4, ResponseFrees DEF roomVars
  <2>2. PICK queue \in {ready, Append(ready, r)} : WakeOneInFlightWaiter(inFlightWaiters, slotCont, queue)
    BY <1>4, ResponseFrees
  <2> QED BY <1>0, <2>1, <2>2, EventGoes
<1> QED BY <1>2, <1>3, <1>4

LEMMA WriterGoes ==
  ASSUME ConnInv, QueueInv, NEW c \in Coroutines,
         \/ DrainNext(c) \/ (WriteReturns(c) /\ WriteMode = "CHANNEL")
         \/ c \in Callers /\ EnqueueChannel(c)
         \/ c = Writer /\ LoopTakes
  PROVE  RunsOn /\ ParksSafely
<1>0. /\ ready \in Seq(Coroutines) /\ pc \in [Coroutines -> Points] /\ roomWaiters \in Seq(Callers)
      /\ chanSenders \in Seq(Callers)
      /\ Callers \subseteq Coroutines /\ Writer \in Coroutines /\ Writer \notin Callers
  BY QueueTypes
<1>1. slotCont' = slotCont
  BY DEF DrainNext, WriteReturns, EnqueueChannel, LoopTakes, registryVars
<1>2. CASE DrainNext(c) \/ (WriteReturns(c) /\ WriteMode = "CHANNEL")
  <2>1. \E bytes : ReleaseOutboundBytes(bytes, ready)
    BY <1>2 DEF DrainNext, WriteReturns
  <2>2. Extends(ready, ready') /\ ToSet(roomWaiters) \subseteq ToSet(roomWaiters') \cup ToSet(ready')
    BY <1>0, <2>1, ReleaseGoes, ExtendsSelf
  <2>3. \E p \in {"write", "receive"} : pc' = [pc EXCEPT ![c] = p]
    BY <1>2 DEF DrainNext, WriteReturns, GoTo
  <2> QED BY <1>0, <1>1, <2>2, <2>3, MoveParks DEF RunsOn
<1>3. CASE c \in Callers /\ EnqueueChannel(c)
  <2>1. Extends(ready, ready')
    BY <1>0, <1>3, ExtendsSelf, ExtendsAppend DEF EnqueueChannel
  <2>2. roomWaiters' = roomWaiters /\ AfterEnqueue(c)
    BY <1>3 DEF EnqueueChannel, roomVars
  <2> QED BY <1>0, <1>1, <2>1, <2>2, AfterGoes, MoveParks DEF RunsOn
<1>4. CASE LoopTakes
  <2>1. roomWaiters' = roomWaiters
    BY <1>4 DEF LoopTakes, roomVars
  <2>2. \/ ready' = ready /\ pc' = [pc EXCEPT ![Writer] = "write"]
        \/ /\ chanSenders # <<>> /\ ready' = Append(ready, Head(chanSenders))
           /\ pc' = [pc EXCEPT ![Writer] = "write", ![Head(chanSenders)] = "chanSent"]
    <3>1. CASE loopPacket # Nobody \/ chanSenders = <<>>
      BY <1>4, <3>1 DEF LoopTakes, GoTo
    <3>2. CASE ~(loopPacket # Nobody \/ chanSenders = <<>>)
      BY <1>4, <3>2 DEF LoopTakes
    <3> QED BY <3>1, <3>2
  <2>3. chanSenders # <<>> => Head(chanSenders) \in Coroutines
    BY <1>0, TailFacts
  <2>4. Extends(ready, ready')
    <3>1. CASE ready' = ready
      BY <3>1, ExtendsSelf
    <3>2. CASE chanSenders # <<>> /\ ready' = Append(ready, Head(chanSenders))
      BY <1>0, <2>3, <3>2, ExtendsSelf, ExtendsAppend
    <3> QED BY <2>2, <3>1, <3>2
  <2>5. \A d \in Callers : pc'[d] = pc[d] \/ pc'[d] = "chanSent"
    BY <1>0, <2>2, <2>3
  <2> QED BY <1>1, <2>1, <2>4, <2>5 DEF RunsOn, ParksSafely
<1> QED BY <1>2, <1>3, <1>4

(* A step that leaves the connection calm cancels and closes nothing. *)
LEMMA CalmSteps ==
  ASSUME ConnInv, ConnInv', [Next]_vars, Calm'
  PROVE  /\ ~Close /\ \A c \in Callers : ~Cancel(c) /\ ~WriteCancelled(c) /\ ~CallClosed(c)
         /\ \A c \in Coroutines : ~WriteFails(c)
<1>1. cancelled = {} /\ cancelled' = {} /\ ~closed /\ ~closed'
  BY CalmBefore DEF Calm
<1>2. \A points : ~Shutdown(points)
  BY <1>1 DEF Shutdown
<1>3. ASSUME NEW c \in Callers PROVE ~Cancel(c) /\ ~WriteCancelled(c) /\ ~CallClosed(c)
  BY <1>1 DEF Cancel, WriteCancelled, HandOff, CallClosed
<1> QED BY <1>1, <1>2, <1>3 DEF Close, WriteFails

LEMMA CalmGoes ==
  ASSUME ConnInv, ConnInv', QueueInv, RegInv, Sent, [Next]_vars, Calm'
  PROVE  RunsOn /\ ParksSafely
<1>0. /\ Requests \subseteq Callers /\ Senders \subseteq Callers /\ Callers \subseteq Coroutines
      /\ Writer \in Coroutines
  BY RegTypes
<1>1. ~doubleResume'
  BY CalmBefore
<1>2. CASE Reactor
  BY <1>0, <1>1, <1>2, StillGoes, WaitGoes, RunGoes, FreesGoes, WriterGoes DEF Reactor
<1>3. CASE \E c \in Coroutines : WriteReturns(c)
  BY <1>3, StillGoes, WriterGoes, ModeAssumption
<1>4. CASE \/ \E c \in Senders : Send(c)
           \/ \E r \in Requests : Request(r)
           \/ SocketWrite \/ UNCHANGED vars
  BY <1>0, <1>4, StillGoes
<1>5. CASE (\E r \in Requests : Deadline(r)) \/ (\E r, p \in Requests : RecvResponse(r, p))
  BY <1>1, <1>5, FreesGoes
<1> QED BY <1>2, <1>3, <1>4, <1>5, CalmSteps DEF Next

-----------------------------------------------------------------------------
(* A caller that left its queue and is still suspended is about to run *)

Due ==
  \A c \in Callers :
    \/ pc[c] = "slotParked" /\ c \notin slotCont
    \/ pc[c] = "roomParked" /\ c \notin ToSet(roomWaiters)
    \/ pc[c] = "chanGate"
    => c \in ToSet(ready)

(* Only a caller whose packet may fit waits for room. *)
Fitting == \A c \in Callers : pc[c] = "roomParked" => ~TooLarge(c)

LEMMA StaysReady ==
  ASSUME ConnInv, QueueInv, RunsOn, NEW c \in ToSet(ready),
         pc'[c] \in {"slotParked", "roomParked", "chanGate"}
  PROVE  c \in ToSet(ready')
<1>1. CASE Extends(ready, ready')
  BY <1>1 DEF Extends
<1>2. ASSUME NEW d \in Coroutines, Resumed(d), Extends(Tail(ready), ready'), d # c
      PROVE  c \in ToSet(ready')
  <2>1. ready \in Seq(Coroutines) /\ ready # <<>> /\ d = Head(ready)
    BY <1>2, QueueTypes DEF Resumed
  <2>2. ToSet(ready) = ToSet(Tail(ready)) \cup {Head(ready)}
    BY <2>1, TailQueue
  <2> QED BY <1>2, <2>1, <2>2 DEF Extends
<1> QED BY <1>1, <1>2 DEF RunsOn

LEMMA DueStep ==
  ASSUME ConnInv, QueueInv, Due, RunsOn, ParksSafely
  PROVE  Due'
<1>1. ASSUME NEW c \in Callers, pc'[c] = "slotParked", c \notin slotCont' PROVE c \in ToSet(ready')
  BY <1>1, StaysReady DEF Due, ParksSafely
<1>2. ASSUME NEW c \in Callers, pc'[c] = "roomParked", c \notin ToSet(roomWaiters') PROVE c \in ToSet(ready')
  BY <1>2, StaysReady DEF Due, ParksSafely
<1>3. ASSUME NEW c \in Callers, pc'[c] = "chanGate" PROVE c \in ToSet(ready')
  BY <1>3, StaysReady DEF Due, ParksSafely
<1> QED BY <1>1, <1>2, <1>3 DEF Due

LEMMA FittingStep ==
  ASSUME Fitting, ParksSafely
  PROVE  Fitting'
<1>1. ASSUME NEW c \in Callers, pc'[c] = "roomParked" PROVE ~TooLarge(c)
  BY <1>1 DEF Fitting, ParksSafely
<1> QED BY <1>1 DEF Fitting, TooLarge

-----------------------------------------------------------------------------
(* The in-flight slots *)

(* A request that was resumed to take a slot and may still take it. *)
WokenSlot(r) == settled[r] = "none" /\ (pc[r] = "slot" \/ (pc[r] = "slotParked" /\ r \notin slotCont))
Claims == pending \cup {r \in Requests : WokenSlot(r)}

(* The stale entry of a request that timed out while it waited. *)
Stale == ToSet(inFlightWaiters) \ slotCont

(* h runs only after r has taken its stale entry out of the queue. *)
Behind(r, h) ==
  \/ pc[r] = "slotParked" /\ Before(ready, r, h)
  \/ pc[r] # "slotParked" /\ h \in ToSet(ready)

SlotEntries ==
  \A r \in ToSet(inFlightWaiters) : settled[r] = IF r \in slotCont THEN "none" ELSE "timeout"

(* While somebody waits every slot is taken or claimed; and as long as     *)
(* there is a stale entry, which will swallow a wake-up, by somebody else  *)
(* than a request h that was woken in its place.                           *)
SlotClaims ==
  /\ slotCont # {} => Cardinality(Claims) >= MaxInFlight
  /\ \A r \in Stale : \E h \in Requests :
       /\ settled[h] = "none" /\ pc[h] = "slotParked" /\ Behind(r, h)
       /\ slotCont # {} => Cardinality(Claims \ {h}) >= MaxInFlight

(* The request woken behind a stale entry stays where it is. *)
LEMMA BehindStep ==
  ASSUME ConnInv, QueueInv, QueueInv', RegInv, RunsOn, ParksSafely,
         \A d \in Callers : Move(pc[d], pc'[d]),
         NEW r \in Stale, r \in Stale', NEW h \in Requests, pc[h] = "slotParked", Behind(r, h)
  PROVE  pc'[h] = "slotParked" /\ Behind(r, h)'
<1>0. /\ r \in Requests /\ Requests \subseteq Callers /\ Callers \subseteq Coroutines
      /\ ready \in Seq(Coroutines) /\ DistinctIn(ready, Callers) /\ Nobody \notin Callers
  BY QueueTypes, RegTypes DEF Stale, QueueInv, ReadyQueue
<1>1. /\ pc[r] \in {"slotParked", "slot", "finally"} /\ pc'[r] \in {"slotParked", "slot", "finally"}
      /\ r \notin slotCont'
  BY DEF Stale, QueueInv, SlotQueue
<1>2. pc'[r] = "slotParked" => pc[r] = "slotParked"
  BY <1>0, <1>1 DEF ParksSafely
<1>3. pc[r] # "slotParked" => running # Nobody
  BY <1>0, <1>1 DEF RegInv, WorkRuns, WorkPoints
<1>4. h \in ToSet(ready') /\ (pc'[r] = "slotParked" => Before(ready', r, h))
  <2>1. CASE Extends(ready, ready')
    <3>1. CASE pc[r] = "slotParked"
      <4>1. Before(ready, r, h)
        BY <3>1 DEF Behind
      <4>2. Before(ready', r, h)
        BY <2>1, <4>1 DEF Extends
      <4>3. h \in ToSet(ready)
        <5>1. DOMAIN ready = 1 .. Len(ready)
          BY <1>0
        <5> QED BY <4>1, <5>1 DEF Before, ToSet
      <4> QED BY <2>1, <4>2, <4>3 DEF Extends
    <3>2. CASE pc[r] # "slotParked"
      BY <1>2, <2>1, <3>2 DEF Behind, Extends
    <3> QED BY <3>1, <3>2
  <2>2. ASSUME NEW c \in Coroutines, Resumed(c), Extends(Tail(ready), ready'), pc'[c] # "slotParked"
        PROVE  h \in ToSet(ready') /\ (pc'[r] = "slotParked" => Before(ready', r, h))
    <3>1. running = Nobody /\ ready # <<>> /\ c = Head(ready)
      BY <2>2 DEF Resumed
    <3>2. Before(ready, r, h)
      BY <1>3, <3>1 DEF Behind
    <3>3. h \in Callers
      BY <1>0
    <3>4. h \in ToSet(Tail(ready)) /\ (r # Head(ready) => Before(Tail(ready), r, h))
      BY <1>0, <3>1, <3>2, <3>3, BeforeTail
    <3> QED BY <2>2, <3>1, <3>4 DEF Extends
  <2> QED BY <2>1, <2>2 DEF RunsOn
<1>5. pc'[h] = "slotParked"
  <2>1. h \in Callers /\ Resumable(h)'
    BY <1>0, <1>4 DEF QueueInv, ReadyQueue
  <2>2. pc'[h] \in {"roomFailed", "chanSent", "chanGate", "slotParked", "roomParked", "awaitParked"}
    BY <2>1 DEF Resumable
  <2>3. Move(pc[h], pc'[h])
    BY <2>1
  <2> QED BY <2>2, <2>3 DEF Move, BeforePoints, GatePoints, AfterPoints
<1> QED BY <1>1, <1>4, <1>5 DEF Behind

LEMMA ClaimsTypes ==
  ASSUME ConnInv
  PROVE  /\ Claims \subseteq Requests /\ pending \subseteq Requests /\ MaxInFlight \in Nat
         /\ Claims \subseteq Callers /\ pending \subseteq Callers
  BY RegTypes, LimitsAssumption DEF Claims

LEMMA LargerCount ==
  ASSUME NEW S \in SUBSET Callers, NEW T \in SUBSET Callers, S \subseteq T
  PROVE  Cardinality(S) \in Nat /\ Cardinality(T) \in Nat /\ Cardinality(S) <= Cardinality(T)
<1>1. IsFiniteSet(T) /\ IsFiniteSet(S)
  BY CallersFinite
<1> QED BY <1>1, FS_Subset, FS_CardinalityType

(* One member goes, another one comes. *)
LEMMA SwapCount ==
  ASSUME NEW S \in SUBSET Callers, NEW T \in SUBSET Callers, NEW g, NEW h \in T,
         S \ {g} \subseteq T \ {h}
  PROVE  Cardinality(S) \in Nat /\ Cardinality(T) \in Nat /\ Cardinality(S) <= Cardinality(T)
<1>1. /\ S \ {g} \in SUBSET Callers /\ T \ {h} \in SUBSET Callers
      /\ Cardinality(S) \in Nat /\ Cardinality(T) \in Nat
  BY CallersFinite
<1>2. /\ Cardinality(S \ {g}) \in Nat /\ Cardinality(T \ {h}) \in Nat
      /\ Cardinality(S \ {g}) <= Cardinality(T \ {h})
  BY <1>1, LargerCount
<1>3. Cardinality(T \ {h}) = Cardinality(T) - 1
  BY CallersFinite
<1>4. Cardinality(S) <= Cardinality(S \ {g}) + 1
  <2>1. CASE g \in S
    BY <1>1, <2>1, CallersFinite
  <2>2. CASE g \notin S
    <3>1. S \ {g} = S
      BY <2>2
    <3>2. Cardinality(S \ {g}) = Cardinality(S)
      BY <3>1
    <3> QED BY <1>1, <1>2, <3>2
  <2> QED BY <2>1, <2>2
<1> QED BY <1>1, <1>2, <1>3, <1>4

(* Steps that free no slot. *)
LEMMA SlotsGrow ==
  ASSUME ConnInv, ConnInv', QueueInv, QueueInv', RegInv, RunsOn, ParksSafely,
         \A d \in Callers : Move(pc[d], pc'[d]),
         SlotEntries, SlotClaims, settled' = settled, slotCont' = slotCont,
         ToSet(inFlightWaiters') \subseteq ToSet(inFlightWaiters), Claims \subseteq Claims'
  PROVE  SlotEntries' /\ SlotClaims'
<1>0. Claims \subseteq Callers /\ Claims' \subseteq Callers /\ MaxInFlight \in Nat
  BY ClaimsTypes DEF Callers, Claims, ConnInv, TypeOK, RegistryType
<1>1. SlotEntries'
  BY DEF SlotEntries
<1>2. slotCont' # {} => Cardinality(Claims') >= MaxInFlight
  <2>1. Cardinality(Claims) \in Nat /\ Cardinality(Claims') \in Nat /\ Cardinality(Claims) <= Cardinality(Claims')
    BY <1>0, LargerCount
  <2> QED BY <1>0, <2>1 DEF SlotClaims
<1>3. ASSUME NEW r \in Stale'
      PROVE  \E h \in Requests :
               /\ settled'[h] = "none" /\ pc'[h] = "slotParked" /\ Behind(r, h)'
               /\ slotCont' # {} => Cardinality(Claims' \ {h}) >= MaxInFlight
  <2>1. r \in Stale
    BY DEF Stale
  <2>2. PICK h \in Requests :
               /\ settled[h] = "none" /\ pc[h] = "slotParked" /\ Behind(r, h)
               /\ slotCont # {} => Cardinality(Claims \ {h}) >= MaxInFlight
    BY <2>1 DEF SlotClaims
  <2>3. pc'[h] = "slotParked" /\ Behind(r, h)'
    BY <1>3, <2>1, <2>2, BehindStep
  <2>4. /\ Cardinality(Claims \ {h}) \in Nat /\ Cardinality(Claims' \ {h}) \in Nat
        /\ Cardinality(Claims \ {h}) <= Cardinality(Claims' \ {h})
    BY <1>0, LargerCount
  <2>5. /\ settled'[h] = "none" /\ pc'[h] = "slotParked" /\ Behind(r, h)'
        /\ slotCont' # {} => Cardinality(Claims' \ {h}) >= MaxInFlight
    BY <1>0, <2>2, <2>3, <2>4
  <2> QED BY <2>5, Zenon
<1>4. (\A r \in Stale : \E h \in Requests :
       /\ settled[h] = "none" /\ pc[h] = "slotParked" /\ Behind(r, h)
       /\ slotCont # {} => Cardinality(Claims \ {h}) >= MaxInFlight)'
  BY <1>3
<1> QED BY <1>1, <1>2, <1>4 DEF SlotClaims

LEMMA AtMostOne ==
  ASSUME NEW S \in SUBSET Callers, Cardinality(S) <= 1, NEW a \in S, NEW b \in S
  PROVE  a = b
<1>1. SUFFICES ASSUME a # b PROVE FALSE
  OBVIOUS
<1>2. Cardinality(S \ {a}) = Cardinality(S) - 1 /\ Cardinality(S) \in Nat
  BY CallersFinite
<1>3. S \ {a} \in SUBSET Callers /\ S \ {a} # {}
  BY <1>1
<1>4. Cardinality(S \ {a}) \in Nat \ {0}
  BY <1>3, CallersFinite
<1> QED BY <1>2, <1>4

(* At most one request timed out, so there is at most one stale entry. *)
LEMMA OneStale ==
  ASSUME ConnInv, SlotEntries, Calm
  PROVE  \A a, b \in Stale : a = b
<1>1. TimedOut \in SUBSET Callers /\ Cardinality(TimedOut) <= 1
  BY RegTypes DEF Calm, Untroubled, TimedOut
<1>2. Stale \subseteq TimedOut
  BY QueueTypes DEF Stale, SlotEntries, TimedOut
<1> QED BY <1>1, <1>2, AtMostOne

(* A request woken behind a stale entry was taken out of the queue. *)
LEMMA BehindWoken ==
  ASSUME ConnInv, QueueInv, RegInv, NEW r \in Requests, NEW h \in Requests, settled[h] = "none",
         pc[h] = "slotParked", Behind(r, h)
  PROVE  h \notin slotCont /\ h \in Claims /\ h \notin pending
<1>1. h \in ToSet(ready) /\ h \in Callers
  <2>1. ready \in Seq(Coroutines) /\ Requests \subseteq Callers
    BY QueueTypes
  <2>2. DOMAIN ready = 1 .. Len(ready)
    BY <2>1
  <2> QED BY <2>1, <2>2 DEF Behind, Before, ToSet
<1>2. h \notin slotCont
  BY <1>1 DEF QueueInv, ReadyQueue, Resumable
<1>3. h \notin pending
  BY DEF RegInv, PendingAt, InFlightPoints, BeforePoints, GatePoints, AfterPoints
<1> QED BY <1>2, <1>3 DEF Claims, WokenSlot

(* Steps of g that free its slot or give up its claim, and wake the next. *)
LEMMA SlotPassed ==
  ASSUME ConnInv, ConnInv', QueueInv, QueueInv', RegInv, RunsOn, ParksSafely, Calm,
         \A d \in Callers : Move(pc[d], pc'[d]), SlotEntries, SlotClaims,
         NEW g \in Requests, g \notin ToSet(inFlightWaiters), NEW queue \in Seq(Coroutines),
         WakeOneInFlightWaiter(inFlightWaiters, slotCont, queue),
         pending' = pending \ {g}, g \in pending \/ Stale = {},
         \A r \in Requests \ {g} : settled'[r] = settled[r] /\ pc'[r] = pc[r]
  PROVE  SlotEntries' /\ SlotClaims'
<1>0. /\ Claims \subseteq Callers /\ Claims' \subseteq Callers /\ MaxInFlight \in Nat
      /\ inFlightWaiters \in Seq(Requests) /\ ToSet(inFlightWaiters) \subseteq Requests
      /\ slotCont \subseteq Requests /\ slotCont \subseteq ToSet(inFlightWaiters)
      /\ Requests \subseteq Callers /\ pending \subseteq Requests
      /\ DistinctIn(inFlightWaiters, Callers)
  BY ClaimsTypes, QueueTypes DEF Callers, Claims, ConnInv, TypeOK, RegistryType, QueueInv, SlotQueue
<1>1. CASE inFlightWaiters = <<>>
  <2>1. inFlightWaiters' = <<>> /\ slotCont' = slotCont
    BY <1>1 DEF WakeOneInFlightWaiter
  <2>2. ToSet(inFlightWaiters') = {} /\ slotCont' = {}
    BY <1>0, <1>1, <2>1, EmptyQueue
  <2>3. Stale' = {}
    BY <2>2 DEF Stale
  <2> QED BY <2>2, <2>3 DEF SlotEntries, SlotClaims
<1>2. CASE inFlightWaiters # <<>>
  <2>1. PICK h0 \in Requests : h0 = Head(inFlightWaiters)
    BY <1>0, <1>2, TailFacts
  <2>2. /\ h0 \in ToSet(inFlightWaiters) /\ h0 # g
        /\ inFlightWaiters' = Tail(inFlightWaiters) /\ slotCont' = slotCont \ {h0}
    BY <1>0, <1>2, <2>1, TailQueue DEF WakeOneInFlightWaiter
  <2>3. ToSet(inFlightWaiters') = ToSet(inFlightWaiters) \ {h0}
    <3>1. /\ ToSet(inFlightWaiters) = ToSet(Tail(inFlightWaiters)) \cup {Head(inFlightWaiters)}
          /\ DistinctIn(Tail(inFlightWaiters), Callers)
          /\ ToSet(Tail(inFlightWaiters)) \cap Callers = (ToSet(inFlightWaiters) \cap Callers) \ {Head(inFlightWaiters)}
      BY <1>0, <1>2, TailQueue
    <3> QED BY <1>0, <2>1, <2>2, <3>1
  <2>4. SlotEntries'
    <3>1. ASSUME NEW r \in ToSet(inFlightWaiters')
          PROVE  settled'[r] = IF r \in slotCont' THEN "none" ELSE "timeout"
      BY <1>0, <2>2, <2>3, <3>1 DEF SlotEntries
    <3> QED BY <3>1 DEF SlotEntries
  <2>5. Stale' \subseteq Stale /\ h0 \notin Stale'
    BY <2>2, <2>3 DEF Stale
  <2>6. Claims \ {g} \subseteq Claims'
    BY <1>0, <2>2 DEF Claims, WokenSlot
  <2>7. CASE h0 \in slotCont
    <3>1. pc[h0] = "slotParked" /\ settled[h0] = "none"
      BY <2>2, <2>7 DEF QueueInv, SlotQueue, SlotEntries
    <3>2. h0 \in Claims' /\ h0 \notin Claims
      <4>1. h0 \notin pending
        BY <3>1 DEF RegInv, PendingAt, InFlightPoints, BeforePoints, GatePoints, AfterPoints
      <4>2. h0 \notin Claims
        BY <2>7, <3>1, <4>1 DEF Claims, WokenSlot
      <4>3. settled'[h0] = "none" /\ pc'[h0] = "slotParked" /\ h0 \notin slotCont'
        BY <2>2, <3>1
      <4> QED BY <4>2, <4>3 DEF Claims, WokenSlot
    <3>3. Cardinality(Claims) \in Nat /\ Cardinality(Claims') \in Nat /\ Cardinality(Claims) <= Cardinality(Claims')
      <4>1. /\ Claims \in SUBSET Callers /\ Claims' \in SUBSET Callers /\ h0 \in Claims'
            /\ Claims \ {g} \subseteq Claims' \ {h0}
        BY <1>0, <2>6, <3>2
      <4> QED BY <4>1, SwapCount
    <3>4. slotCont' # {} => Cardinality(Claims') >= MaxInFlight
      BY <1>0, <2>2, <3>3 DEF SlotClaims
    <3>5. ASSUME NEW r \in Stale'
          PROVE  \E h \in Requests :
                   /\ settled'[h] = "none" /\ pc'[h] = "slotParked" /\ Behind(r, h)'
                   /\ slotCont' # {} => Cardinality(Claims' \ {h}) >= MaxInFlight
      <4>1. r \in Stale /\ r \in Requests /\ g \in pending
        BY <1>0, <2>5 DEF Stale
      <4>2. PICK h \in Requests :
               /\ settled[h] = "none" /\ pc[h] = "slotParked" /\ Behind(r, h)
               /\ slotCont # {} => Cardinality(Claims \ {h}) >= MaxInFlight
        BY <4>1 DEF SlotClaims
      <4>3. h \notin slotCont /\ h \notin pending
        BY <4>1, <4>2, BehindWoken
      <4>4. h # h0 /\ h # g
        BY <2>7, <4>1, <4>3
      <4>5. pc'[h] = "slotParked" /\ Behind(r, h)' /\ settled'[h] = "none"
        BY <3>5, <4>1, <4>2, <4>4, BehindStep
      <4>6. /\ Claims \ {h} \in SUBSET Callers /\ Claims' \ {h} \in SUBSET Callers
            /\ h0 \in Claims' \ {h} /\ (Claims \ {h}) \ {g} \subseteq (Claims' \ {h}) \ {h0}
        BY <1>0, <2>6, <3>2, <4>4
      <4>7. /\ Cardinality(Claims \ {h}) \in Nat /\ Cardinality(Claims' \ {h}) \in Nat
            /\ Cardinality(Claims \ {h}) <= Cardinality(Claims' \ {h})
        BY <4>6, SwapCount
      <4>8. /\ settled'[h] = "none" /\ pc'[h] = "slotParked" /\ Behind(r, h)'
            /\ slotCont' # {} => Cardinality(Claims' \ {h}) >= MaxInFlight
        BY <1>0, <2>2, <4>2, <4>5, <4>7
      <4> QED BY <4>8, Zenon
    <3>6. (\A r \in Stale : \E h \in Requests :
           /\ settled[h] = "none" /\ pc[h] = "slotParked" /\ Behind(r, h)
           /\ slotCont # {} => Cardinality(Claims \ {h}) >= MaxInFlight)'
      BY <3>5
    <3> QED BY <2>4, <3>4, <3>6 DEF SlotClaims
  <2>8. CASE h0 \notin slotCont
    <3>1. h0 \in Stale /\ g \in pending /\ slotCont' = slotCont
      BY <2>2, <2>8 DEF Stale
    <3>2. Stale' = {}
      BY <2>5, <3>1, OneStale
    <3>3. PICK h \in Requests :
               /\ settled[h] = "none" /\ pc[h] = "slotParked" /\ Behind(h0, h)
               /\ slotCont # {} => Cardinality(Claims \ {h}) >= MaxInFlight
      BY <3>1 DEF SlotClaims
    <3>4. h \in Claims /\ h # g
      BY <3>1, <3>3, BehindWoken
    <3>5. /\ Claims \ {h} \in SUBSET Callers /\ Claims' \in SUBSET Callers
          /\ h \in Claims' /\ (Claims \ {h}) \ {g} \subseteq Claims' \ {h}
      BY <1>0, <2>6, <3>4
    <3>6. /\ Cardinality(Claims \ {h}) \in Nat /\ Cardinality(Claims') \in Nat
          /\ Cardinality(Claims \ {h}) <= Cardinality(Claims')
      BY <3>5, SwapCount
    <3>7. slotCont' # {} => Cardinality(Claims') >= MaxInFlight
      BY <1>0, <3>1, <3>3, <3>6
    <3> QED BY <2>4, <3>2, <3>7 DEF SlotClaims
  <2> QED BY <2>7, <2>8
<1> QED BY <1>1, <1>2

(* The request that finds no slot parks behind MaxInFlight others. *)
LEMMA SlotsParked ==
  ASSUME ConnInv, ConnInv', QueueInv, QueueInv', RegInv, RunsOn, ParksSafely, cancelled = {},
         \A d \in Callers : Move(pc[d], pc'[d]), SlotEntries, SlotClaims,
         NEW c \in Requests, SlotWait(c)
  PROVE  SlotEntries' /\ SlotClaims'
<1>0. /\ Claims' \subseteq Callers /\ MaxInFlight \in Nat /\ inFlightWaiters \in Seq(Requests)
      /\ pending \subseteq Requests /\ Requests \subseteq Callers
      /\ ToSet(inFlightWaiters) \subseteq Requests
  BY ClaimsTypes, QueueTypes DEF Callers, Claims, ConnInv, TypeOK, RegistryType
<1>1. /\ settled[c] = "none" /\ Cardinality(pending) >= MaxInFlight
      /\ inFlightWaiters' = Append(inFlightWaiters, c) /\ slotCont' = slotCont \cup {c}
      /\ UNCHANGED <<pending, settled>>
  BY DEF SlotWait, IsSettled, SlotsFull
<1>2. ToSet(inFlightWaiters') = ToSet(inFlightWaiters) \cup {c}
  BY <1>0, <1>1, AppendSet
<1>3. SlotEntries'
  <2>1. ASSUME NEW r \in ToSet(inFlightWaiters')
        PROVE  settled'[r] = IF r \in slotCont' THEN "none" ELSE "timeout"
    BY <1>1, <1>2, <2>1 DEF SlotEntries
  <2> QED BY <2>1 DEF SlotEntries
<1>4. pending \subseteq Claims'
  BY <1>1 DEF Claims
<1>5. Cardinality(Claims') >= MaxInFlight
  <2>1. Cardinality(pending) \in Nat /\ Cardinality(Claims') \in Nat /\ Cardinality(pending) <= Cardinality(Claims')
    BY <1>0, <1>4, LargerCount
  <2> QED BY <1>0, <1>1, <2>1
<1>6. ASSUME NEW r \in Stale'
      PROVE  \E h \in Requests :
               /\ settled'[h] = "none" /\ pc'[h] = "slotParked" /\ Behind(r, h)'
               /\ slotCont' # {} => Cardinality(Claims' \ {h}) >= MaxInFlight
  <2>1. r \in Stale /\ r \in Requests
    BY <1>0, <1>1, <1>2 DEF Stale
  <2>2. PICK h \in Requests :
           /\ settled[h] = "none" /\ pc[h] = "slotParked" /\ Behind(r, h)
           /\ slotCont # {} => Cardinality(Claims \ {h}) >= MaxInFlight
    BY <2>1 DEF SlotClaims
  <2>3. h \notin pending
    BY <2>1, <2>2, BehindWoken
  <2>4. pc'[h] = "slotParked" /\ Behind(r, h)' /\ settled'[h] = "none"
    BY <1>1, <1>6, <2>1, <2>2, BehindStep
  <2>5. pending \in SUBSET Callers /\ Claims' \ {h} \in SUBSET Callers /\ pending \subseteq Claims' \ {h}
    BY <1>0, <1>4, <2>3
  <2>6. /\ Cardinality(pending) \in Nat /\ Cardinality(Claims' \ {h}) \in Nat
        /\ Cardinality(pending) <= Cardinality(Claims' \ {h})
    BY <2>5, LargerCount
  <2>7. /\ settled'[h] = "none" /\ pc'[h] = "slotParked" /\ Behind(r, h)'
        /\ slotCont' # {} => Cardinality(Claims' \ {h}) >= MaxInFlight
    BY <1>0, <1>1, <2>4, <2>6
  <2> QED BY <2>7, Zenon
<1>7. (\A r \in Stale : \E h \in Requests :
       /\ settled[h] = "none" /\ pc[h] = "slotParked" /\ Behind(r, h)
       /\ slotCont # {} => Cardinality(Claims \ {h}) >= MaxInFlight)'
  BY <1>6
<1> QED BY <1>3, <1>5, <1>7 DEF SlotClaims

(* The deadline of a request that waits leaves a stale entry, unless it is *)
(* the first in the queue, and wakes the first in its place.               *)
LEMMA SlotDeadline ==
  ASSUME ConnInv, ConnInv', QueueInv, QueueInv', RegInv, RunsOn, ParksSafely, Calm, Calm',
         \A d \in Callers : Move(pc[d], pc'[d]), SlotEntries, SlotClaims,
         NEW r \in Requests, Deadline(r)
  PROVE  SlotEntries' /\ SlotClaims'
<1>0. /\ Claims \subseteq Callers /\ Claims' \subseteq Callers /\ MaxInFlight \in Nat
      /\ inFlightWaiters \in Seq(Requests) /\ ToSet(inFlightWaiters) \subseteq Requests
      /\ slotCont \subseteq Requests /\ slotCont \subseteq ToSet(inFlightWaiters)
      /\ Requests \subseteq Callers /\ pending \subseteq Requests /\ Callers \subseteq Coroutines
      /\ DistinctIn(inFlightWaiters, Callers) /\ ready \in Seq(Coroutines)
      /\ settled \in [Requests -> Settlements] /\ pc \in [Coroutines -> Points]
  BY ClaimsTypes, QueueTypes DEF Callers, Claims, ConnInv, TypeOK, RegistryType, QueueInv, SlotQueue
<1>1. /\ settled[r] = "none" /\ settled' = [settled EXCEPT ![r] = "timeout"] /\ pending' = pending \ {r}
  BY DeadlineFrees DEF Calm, Untroubled
<1>2. PICK queue \in {ready, Append(ready, r)} :
         /\ WakeOneInFlightWaiter(inFlightWaiters, slotCont \ {r}, queue)
         /\ r \in slotCont => queue = Append(ready, r)
         /\ \/ pc' = pc
            \/ pc[r] = "chanParked" /\ pc' = [pc EXCEPT ![r] = "chanGate"]
  BY DeadlineFrees DEF Calm, Untroubled
<1>3. Stale = {}
  <2>1. TimedOut' \in SUBSET Callers /\ Cardinality(TimedOut') <= 1
    BY <1>0 DEF Calm, Untroubled, TimedOut
  <2>2. r \in TimedOut' /\ Stale \subseteq TimedOut' \ {r}
    BY <1>0, <1>1 DEF TimedOut, Stale, SlotEntries
  <2> QED BY <2>1, <2>2, AtMostOne
<1>4. /\ queue \in Seq(Coroutines) /\ (r \in slotCont => r \in ToSet(queue))
      /\ \A x \in Requests \ {r} : settled'[x] = settled[x] /\ pc'[x] = pc[x]
  <2>1. r \in Coroutines
    BY <1>0
  <2>2. Append(ready, r) \in Seq(Coroutines) /\ ToSet(Append(ready, r)) = ToSet(ready) \cup {r}
    BY <1>0, <2>1, AppendFacts, AppendSet
  <2>3. \A x \in Requests \ {r} : settled'[x] = settled[x] /\ pc'[x] = pc[x]
    BY <1>0, <1>1, <1>2
  <2> QED BY <1>0, <1>2, <2>2, <2>3
<1>5. CASE r \notin slotCont
  <2>1. slotCont \ {r} = slotCont /\ r \notin ToSet(inFlightWaiters)
    BY <1>3, <1>5 DEF Stale
  <2> QED BY <1>1, <1>2, <1>3, <1>4, <2>1, SlotPassed
<1>6. CASE r \in slotCont
  <2>1. pc[r] = "slotParked" /\ r \in ToSet(inFlightWaiters) /\ pc' = pc
    BY <1>2, <1>6 DEF QueueInv, SlotQueue
  <2>2. inFlightWaiters # <<>>
    BY <2>1, EmptyQueue
  <2>3. PICK h0 \in Requests : h0 = Head(inFlightWaiters)
    BY <1>0, <2>2, TailFacts
  <2>4. /\ h0 \in ToSet(inFlightWaiters) /\ h0 \in slotCont /\ pc[h0] = "slotParked" /\ settled[h0] = "none"
    <3>1. h0 \in ToSet(inFlightWaiters)
      BY <1>0, <2>2, <2>3, TailQueue
    <3>2. h0 \in slotCont
      BY <1>3, <3>1 DEF Stale
    <3> QED BY <3>1, <3>2 DEF QueueInv, SlotQueue, SlotEntries
  <2>5. /\ inFlightWaiters' = Tail(inFlightWaiters) /\ slotCont' = (slotCont \ {r}) \ {h0}
        /\ h0 # r => ready' = Append(queue, h0)
    BY <1>2, <2>2, <2>3, <2>4 DEF WakeOneInFlightWaiter
  <2>6. ToSet(inFlightWaiters') = ToSet(inFlightWaiters) \ {h0}
    <3>1. /\ ToSet(inFlightWaiters) = ToSet(Tail(inFlightWaiters)) \cup {Head(inFlightWaiters)}
          /\ DistinctIn(Tail(inFlightWaiters), Callers)
          /\ ToSet(Tail(inFlightWaiters)) \cap Callers = (ToSet(inFlightWaiters) \cap Callers) \ {Head(inFlightWaiters)}
      BY <1>0, <2>2, TailQueue
    <3> QED BY <1>0, <2>3, <2>5, <3>1
  <2>7. SlotEntries'
    <3>1. ASSUME NEW x \in ToSet(inFlightWaiters')
          PROVE  settled'[x] = IF x \in slotCont' THEN "none" ELSE "timeout"
      <4>1. x \in slotCont /\ x \in Requests /\ settled[x] = "none" /\ x # h0
        BY <1>0, <1>3, <2>6, <3>1 DEF Stale, SlotEntries
      <4> QED BY <1>0, <1>1, <2>5, <4>1
    <3> QED BY <3>1 DEF SlotEntries
  <2>8. r \notin pending /\ h0 \notin pending
    BY <2>1, <2>4 DEF RegInv, PendingAt, InFlightPoints, BeforePoints, GatePoints, AfterPoints
  <2>9. Claims \subseteq Claims' /\ h0 \notin Claims
    BY <1>1, <1>4, <1>6, <2>1, <2>4, <2>5, <2>8 DEF Claims, WokenSlot
  <2>10. Cardinality(Claims) >= MaxInFlight
    BY <1>6 DEF SlotClaims
  <2>11. Cardinality(Claims') >= MaxInFlight
    <3>1. Cardinality(Claims) \in Nat /\ Cardinality(Claims') \in Nat /\ Cardinality(Claims) <= Cardinality(Claims')
      BY <1>0, <2>9, LargerCount
    <3> QED BY <1>0, <2>10, <3>1
  <2>12. ASSUME NEW x \in Stale'
         PROVE  \E h \in Requests :
                  /\ settled'[h] = "none" /\ pc'[h] = "slotParked" /\ Behind(x, h)'
                  /\ slotCont' # {} => Cardinality(Claims' \ {h}) >= MaxInFlight
    <3>1. x = r /\ h0 # r
      BY <1>3, <2>5, <2>6, <2>12 DEF Stale
    <3>2. Before(ready', r, h0)
      <4>1. \A a \in ToSet(queue) : Before(Append(queue, h0), a, h0)
        <5>1. h0 \in Coroutines
          BY <1>0
        <5> QED BY <1>4, <5>1, ExtendsSelf, ExtendsAppend
      <4> QED BY <1>4, <1>6, <2>5, <3>1, <4>1
    <3>3. Behind(x, h0)' /\ settled'[h0] = "none" /\ pc'[h0] = "slotParked"
      BY <1>4, <2>1, <2>4, <3>1, <3>2 DEF Behind
    <3>4. /\ Claims \in SUBSET Callers /\ Claims' \ {h0} \in SUBSET Callers /\ Claims \subseteq Claims' \ {h0}
      BY <1>0, <2>9
    <3>5. /\ Cardinality(Claims) \in Nat /\ Cardinality(Claims' \ {h0}) \in Nat
          /\ Cardinality(Claims) <= Cardinality(Claims' \ {h0})
      BY <3>4, LargerCount
    <3>6. /\ settled'[h0] = "none" /\ pc'[h0] = "slotParked" /\ Behind(x, h0)'
          /\ slotCont' # {} => Cardinality(Claims' \ {h0}) >= MaxInFlight
      BY <1>0, <2>10, <3>3, <3>5
    <3> QED BY <3>6, Zenon
  <2>13. (\A x \in Stale : \E h \in Requests :
          /\ settled[h] = "none" /\ pc[h] = "slotParked" /\ Behind(x, h)
          /\ slotCont # {} => Cardinality(Claims \ {h}) >= MaxInFlight)'
    BY <2>12
  <2> QED BY <2>7, <2>11, <2>13 DEF SlotClaims
<1> QED BY <1>5, <1>6

LEMMA ClaimsKept ==
  ASSUME UNCHANGED <<pending, settled, slotCont>>,
         \A x \in Requests : pc[x] \in {"slot", "slotParked"} /\ settled[x] = "none" =>
           pc'[x] = pc[x] \/ pc'[x] = "slot"
  PROVE  Claims \subseteq Claims'
  BY DEF Claims, WokenSlot

(* Steps of a caller, a writer or the loop away from the slots. *)
LEMMA SlotsAside ==
  ASSUME ConnInv, QueueInv, cancelled = {}, ~closed, NEW c \in Coroutines,
         \/ c \in Callers /\ (Send(c) \/ AwaitSettled(c) \/ AwaitParks(c) \/ SendReturns(c) \/ SlotRefused(c)
              \/ EnqueueTooLarge(c) \/ EnqueueAborted(c) \/ EnqueueWait(c) \/ EnqueueInline(c)
              \/ EnqueueChannel(c) \/ EnqueueChannelFull(c) \/ RunChanWaiter(c))
         \/ c \in Requests /\ Request(c)
         \/ Run(c) \/ RunDead(c) \/ DrainLeftover(c) \/ DrainNext(c) \/ DrainDone(c) \/ WriteReturns(c)
         \/ LoopTakes \/ LoopParks \/ SocketWrite \/ UNCHANGED vars
  PROVE  /\ settled' = settled /\ slotCont' = slotCont /\ inFlightWaiters' = inFlightWaiters
         /\ Claims \subseteq Claims'
<1>0. /\ pc \in [Coroutines -> Points] /\ Requests \subseteq Callers /\ Callers \subseteq Coroutines
      /\ Writer \notin Callers /\ chanSenders \in Seq(Callers) /\ Writer \in Coroutines
  BY QueueTypes
<1>1. UNCHANGED <<pending, settled, slotCont, inFlightWaiters>>
  BY DEF Send, AwaitSettled, AwaitParks, SendReturns, SlotRefused, EnqueueTooLarge, EnqueueAborted,
     EnqueueWait, EnqueueInline, EnqueueChannel, EnqueueChannelFull, RunChanWaiter, Request, Run, RunDead,
     DrainLeftover, DrainNext, DrainDone, WriteReturns, LoopTakes, LoopParks, SocketWrite, vars, registryVars
<1>2. ASSUME NEW x \in Requests, pc[x] \in {"slot", "slotParked"}, settled[x] = "none"
      PROVE  pc'[x] = pc[x] \/ pc'[x] = "slot"
  <2>0. x \in Coroutines /\ x # Writer
    BY <1>0
  <2>1. CASE c \in Callers /\ (Send(c) \/ AwaitSettled(c) \/ AwaitParks(c) \/ SendReturns(c) \/ SlotRefused(c)
              \/ EnqueueTooLarge(c) \/ EnqueueAborted(c) \/ EnqueueWait(c) \/ EnqueueInline(c)
              \/ EnqueueChannel(c) \/ EnqueueChannelFull(c) \/ RunChanWaiter(c))
    <3>1. pc[c] \in {"idle", "await", "finally", "enqueue", "chanSent", "chanGate"} \/ SlotRefused(c)
      BY <2>1 DEF Send, AwaitSettled, AwaitParks, SendReturns, EnqueueTooLarge, EnqueueAborted, EnqueueWait,
         EnqueueInline, EnqueueChannel, EnqueueChannelFull, Enqueuing, RunChanWaiter, Running
    <3>2. SlotRefused(c) => IsSettled(c)
      BY DEF SlotRefused
    <3>3. c # x
      BY <1>2, <3>1, <3>2 DEF IsSettled
    <3>4. \E p : pc' = [pc EXCEPT ![c] = p]
      BY <2>1, AfterGoes DEF Send, AwaitSettled, AwaitParks, SendReturns, SlotRefused, Return,
         EnqueueTooLarge, EnqueueAborted, EnqueueWait, EnqueueInline, EnqueueChannel, EnqueueChannelFull,
         RunChanWaiter, GoTo, Finish
    <3> QED BY <1>0, <2>0, <3>3, <3>4
  <2>2. CASE c \in Requests /\ Request(c)
    <3>1. pc[c] = "idle" /\ \E p : pc' = [pc EXCEPT ![c] = p]
      BY <2>2 DEF Request, GoTo
    <3> QED BY <1>0, <1>2, <2>0, <3>1
  <2>3. CASE Run(c)
    <3>1. CASE pc[c] = "slotParked"
      <4>1. pc' = [pc EXCEPT ![c] = "slot"]
        BY <2>3, <3>1 DEF Run, RunSlotWaiter, RunRoomWaiter, RunAwaiter, RunWriter, GoTo
      <4> QED BY <1>0, <2>0, <4>1
    <3>2. CASE pc[c] # "slotParked"
      <4>1. pc[c] # "slot" /\ \E p : pc' = [pc EXCEPT ![c] = p]
        BY <2>3, <3>2 DEF Run, RunSlotWaiter, RunRoomWaiter, RunAwaiter, RunWriter, GoTo, Finish
      <4> QED BY <1>0, <1>2, <2>0, <3>2, <4>1
    <3> QED BY <3>1, <3>2
  <2>4. CASE DrainLeftover(c) \/ DrainNext(c) \/ DrainDone(c) \/ WriteReturns(c)
    <3>1. pc[c] \in {"drain", "write"} /\ \E p : pc' = [pc EXCEPT ![c] = p]
      BY <2>4, AfterGoes DEF DrainLeftover, DrainNext, DrainDone, WriteReturns, WriteDone, Running, GoTo
    <3> QED BY <1>0, <1>2, <2>0, <3>1
  <2>5. CASE LoopTakes
    <3>1. \/ pc' = [pc EXCEPT ![Writer] = "write"]
          \/ /\ chanSenders # <<>>
             /\ pc' = [pc EXCEPT ![Writer] = "write", ![Head(chanSenders)] = "chanSent"]
      BY <2>5 DEF LoopTakes, GoTo
    <3>2. chanSenders # <<>> => Head(chanSenders) \in Coroutines /\ pc[Head(chanSenders)] = "chanParked"
      BY <1>0, TailFacts, TailQueue DEF QueueInv, ChanQueue
    <3> QED BY <1>0, <1>2, <2>0, <3>1, <3>2
  <2>6. CASE LoopParks
    BY <1>0, <2>0, <2>6 DEF LoopParks, GoTo
  <2>7. CASE RunDead(c) \/ SocketWrite \/ UNCHANGED vars
    BY <2>7 DEF RunDead, SocketWrite, vars, reactorVars
  <2> QED BY <2>1, <2>2, <2>3, <2>4, <2>5, <2>6, <2>7
<1> QED BY <1>1, <1>2, ClaimsKept

LEMMA SlotsStep ==
  ASSUME ConnInv, ConnInv', QueueInv, QueueInv', RegInv, Sent, SlotEntries, SlotClaims, [Next]_vars, Calm'
  PROVE  SlotEntries' /\ SlotClaims'
<1>0. /\ Requests \subseteq Callers /\ Senders \subseteq Callers /\ Callers \subseteq Coroutines
      /\ Writer \in Coroutines /\ pc \in [Coroutines -> Points] /\ ready \in Seq(Coroutines)
      /\ settled \in [Requests -> Settlements] /\ pending \subseteq Requests
  BY RegTypes, QueueTypes
<1>1. Calm /\ cancelled = {} /\ ~doubleResume' /\ ~closed
  BY CalmBefore DEF Calm
<1>2. RunsOn /\ ParksSafely /\ \A d \in Callers : Move(pc[d], pc'[d])
  BY CalmGoes, CallerMoves
<1>g. ASSUME settled' = settled, slotCont' = slotCont,
             ToSet(inFlightWaiters') \subseteq ToSet(inFlightWaiters), Claims \subseteq Claims'
      PROVE  SlotEntries' /\ SlotClaims'
  BY <1>2, <1>g, SlotsGrow
<1>3. ASSUME NEW c \in Coroutines,
         \/ c \in Callers /\ (Send(c) \/ AwaitSettled(c) \/ AwaitParks(c) \/ SendReturns(c) \/ SlotRefused(c)
              \/ EnqueueTooLarge(c) \/ EnqueueAborted(c) \/ EnqueueWait(c) \/ EnqueueInline(c)
              \/ EnqueueChannel(c) \/ EnqueueChannelFull(c) \/ RunChanWaiter(c))
         \/ c \in Requests /\ Request(c)
         \/ Run(c) \/ RunDead(c) \/ DrainLeftover(c) \/ DrainNext(c) \/ DrainDone(c) \/ WriteReturns(c)
         \/ LoopTakes \/ LoopParks \/ SocketWrite \/ UNCHANGED vars
      PROVE  SlotEntries' /\ SlotClaims'
  <2>1. /\ settled' = settled /\ slotCont' = slotCont /\ inFlightWaiters' = inFlightWaiters
        /\ Claims \subseteq Claims'
    BY <1>1, <1>3, SlotsAside
  <2> QED BY <1>g, <2>1
<1>4. ASSUME NEW c \in Requests, SlotTaken(c) PROVE SlotEntries' /\ SlotClaims'
  <2>1. /\ pc[c] = "slot" /\ pc' = [pc EXCEPT ![c] = "enqueue"]
        /\ pending' = {p \in pending : id[p] # id[c]} \cup {c}
        /\ UNCHANGED <<settled, slotCont, inFlightWaiters>>
    BY <1>4 DEF SlotTaken, Running, GoTo
  <2>2. pending' = pending \cup {c}
    BY <2>1, OwnEntry
  <2>3. \A x \in Requests \ {c} : pc'[x] = pc[x]
    BY <1>0, <2>1
  <2>4. Claims \subseteq Claims'
    BY <2>1, <2>2, <2>3 DEF Claims, WokenSlot
  <2> QED BY <1>g, <2>1, <2>4
<1>5. ASSUME NEW c \in Requests, Finally(c) PROVE SlotEntries' /\ SlotClaims'
  <2>1. /\ pc[c] = "finally" /\ pc' = [pc EXCEPT ![c] = "done"] /\ settled' = settled
        /\ pending' = pending \ {c}
    BY <1>5, FinallyFrees
  <2>2. \A x \in Requests \ {c} : settled'[x] = settled[x] /\ pc'[x] = pc[x]
    BY <1>0, <2>1
  <2>3. CASE /\ c \in pending /\ c \notin ToSet(inFlightWaiters)
             /\ WakeOneInFlightWaiter(inFlightWaiters, slotCont, ready)
    BY <1>0, <1>1, <1>2, <2>1, <2>2, <2>3, SlotPassed
  <2>4. CASE /\ c \notin pending /\ slotCont' = slotCont
             /\ ToSet(inFlightWaiters') = ToSet(inFlightWaiters) \ {c}
    <3>1. Claims \subseteq Claims'
      BY <2>1, <2>2, <2>4 DEF Claims, WokenSlot
    <3> QED BY <1>g, <2>1, <2>4, <3>1
  <2> QED BY <1>5, <2>3, <2>4, FinallyFrees
<1>6. ASSUME NEW r \in Requests, NEW p \in Requests, RecvResponse(r, p) PROVE SlotEntries' /\ SlotClaims'
  <2>1. /\ p \in pending /\ pending' = pending \ {p} /\ pc[p] \in HeldPoints /\ pc' = pc
        /\ settled' = [settled EXCEPT ![p] = "response"] /\ settled[p] = "none"
    BY <1>6, ResponseFrees DEF RegInv, PendingAt
  <2>2. PICK queue \in {ready, Append(ready, p)} : WakeOneInFlightWaiter(inFlightWaiters, slotCont, queue)
    BY <1>6, ResponseFrees
  <2>3. queue \in Seq(Coroutines)
    <3>1. p \in Coroutines
      BY <1>0
    <3> QED BY <1>0, <2>2, <3>1, AppendFacts
  <2>4. p \notin ToSet(inFlightWaiters)
    <3>1. p \in ToSet(inFlightWaiters) => p \in slotCont
      BY <2>1 DEF SlotEntries
    <3>2. p \in slotCont => pc[p] = "slotParked"
      BY DEF QueueInv, SlotQueue
    <3> QED BY <2>1, <3>1, <3>2 DEF HeldPoints, AfterPoints
  <2>5. \A x \in Requests \ {p} : settled'[x] = settled[x] /\ pc'[x] = pc[x]
    BY <1>0, <2>1
  <2> QED BY <1>1, <1>2, <2>1, <2>2, <2>3, <2>4, <2>5, SlotPassed
<1>7. ASSUME NEW r \in Requests, Deadline(r) PROVE SlotEntries' /\ SlotClaims'
  BY <1>1, <1>2, <1>7, SlotDeadline
<1>8. ASSUME NEW r \in Requests, SlotWait(r) PROVE SlotEntries' /\ SlotClaims'
  BY <1>1, <1>2, <1>8, SlotsParked
<1>9. CASE Reactor
  BY <1>0, <1>3, <1>4, <1>5, <1>8, <1>9 DEF Reactor
<1> QED BY <1>0, <1>3, <1>6, <1>7, <1>9, CalmSteps DEF Next

-----------------------------------------------------------------------------
(* The outbound room *)

(* A caller that was resumed to look for room again and may still use it. *)
WokenRoom(c) ==
  /\ ~IsSettled(c) /\ ~TooLarge(c)
  /\ pc[c] = "enqueue" \/ (pc[c] = "roomParked" /\ c \notin ToSet(roomWaiters))

RoomEntries ==
  /\ \A r \in ToSet(roomWaiters) \cap Requests : settled[r] = "none"
  /\ \A r \in Requests : pc[r] = "roomParked" /\ settled[r] = "none" => r \in roomCont

(* While somebody waits there is a packet whose release will wake it, or a *)
(* caller that is about to put one on the path.                            *)
RoomClaims == ToSet(roomWaiters) # {} => Holding # {} \/ \E c \in Callers : WokenRoom(c)

LEMMA RoomKept ==
  ASSUME RoomClaims, ToSet(roomWaiters') \subseteq ToSet(roomWaiters),
         Holding # {} => Holding' # {},
         \A c \in Callers : WokenRoom(c) => WokenRoom(c)' \/ Holding' # {}
  PROVE  RoomClaims'
<1>1. ToSet(roomWaiters') # {} => Holding' # {} \/ \E c \in Callers : WokenRoom(c)'
  BY DEF RoomClaims
<1>2. (ToSet(roomWaiters) # {} => Holding # {} \/ \E c \in Callers : WokenRoom(c))'
  BY <1>1, Zenon
<1> QED BY <1>2 DEF RoomClaims

LEMMA RoomEntriesKept ==
  ASSUME ConnInv, QueueInv, RoomEntries, ParksSafely,
         ToSet(roomWaiters') \subseteq ToSet(roomWaiters),
         \A r \in Requests : \/ settled'[r] = settled[r]
                             \/ settled'[r] # "none" /\ r \notin ToSet(roomWaiters'),
         \A r \in roomCont : r \in roomCont' \/ pc'[r] # "roomParked" \/ settled'[r] # "none"
  PROVE  RoomEntries'
<1>0. Requests \subseteq Callers
  BY QueueTypes
<1>1. ASSUME NEW r \in Requests, r \in ToSet(roomWaiters') PROVE settled'[r] = "none"
  BY <1>1 DEF RoomEntries
<1>2. ASSUME NEW r \in Requests, pc'[r] = "roomParked", settled'[r] = "none" PROVE r \in roomCont'
  <2>1. settled[r] = "none"
    BY <1>2
  <2>2. pc[r] = "roomParked"
    BY <1>0, <1>2 DEF ParksSafely, QueueInv, RoomQueue
  <2>3. r \in roomCont
    BY <2>1, <2>2 DEF RoomEntries
  <2> QED BY <1>2, <2>3
<1> QED BY <1>1, <1>2 DEF RoomEntries

LEMMA HoldingStill ==
  ASSUME HoldStill
  PROVE  Holding' = Holding
<1>1. {c \in Requests : pc'[c] = "chanGate"} = {c \in Requests : pc[c] = "chanGate"}
  BY DEF HoldStill, Callers
<1> QED BY <1>1 DEF Holding, HoldStill

(* Steps away from the outbound path. *)
LEMMA RoomAside ==
  ASSUME ConnInv, QueueInv, ParksSafely, RoomEntries, RoomClaims, cancelled = {}, ~closed,
         NEW c \in Coroutines,
         \/ c \in Callers /\ (Send(c) \/ Request(c) \/ SlotTaken(c) \/ SlotRefused(c) \/ SlotWait(c)
              \/ AwaitSettled(c) \/ AwaitParks(c) \/ Finally(c) \/ SendReturns(c)
              \/ EnqueueTooLarge(c) \/ EnqueueAborted(c))
         \/ Run(c) \/ RunDead(c) \/ DrainLeftover(c) \/ DrainDone(c)
         \/ WriteReturns(c) /\ WriteMode = "INLINE"
         \/ LoopParks \/ SocketWrite \/ UNCHANGED vars
  PROVE  RoomEntries' /\ RoomClaims'
<1>0. /\ pc \in [Coroutines -> Points] /\ Requests \subseteq Callers /\ Callers \subseteq Coroutines
      /\ Writer \notin Callers /\ Writer \in Coroutines
  BY QueueTypes
<1>1. settled' = settled /\ roomWaiters' = roomWaiters
  BY DEF Send, Request, SlotTaken, SlotRefused, SlotWait, AwaitSettled, AwaitParks, Finally, SendReturns,
     EnqueueTooLarge, EnqueueAborted, Run, RunDead, DrainLeftover, DrainDone, WriteReturns, LoopParks,
     SocketWrite, OnlyCaller, vars, registryVars, roomVars
<1>2. Holding' = Holding
  BY HoldingStill, StillBytesCaller, StillBytesWriter, StillBytesSocket
<1>3. ASSUME NEW x \in Callers, pc[x] \in {"enqueue", "roomParked"}, ~IsSettled(x), ~TooLarge(x)
      PROVE  pc'[x] = pc[x] \/ pc'[x] = "enqueue"
  <2>0. x \in Coroutines /\ x # Writer
    BY <1>0
  <2>1. CASE c \in Callers /\ (Send(c) \/ Request(c) \/ SlotTaken(c) \/ SlotRefused(c) \/ SlotWait(c)
              \/ AwaitSettled(c) \/ AwaitParks(c) \/ Finally(c) \/ SendReturns(c)
              \/ EnqueueTooLarge(c) \/ EnqueueAborted(c))
    <3>1. pc[c] \in {"idle", "slot", "await", "finally"} \/ EnqueueTooLarge(c) \/ EnqueueAborted(c)
      BY <2>1 DEF Send, Request, SlotTaken, SlotRefused, SlotWait, AwaitSettled, AwaitParks, Finally,
         SendReturns, Running
    <3>2. (EnqueueTooLarge(c) => TooLarge(c)) /\ (EnqueueAborted(c) => IsSettled(c))
      BY DEF EnqueueTooLarge, EnqueueAborted
    <3>3. c # x
      BY <1>3, <3>1, <3>2
    <3>4. \E p : pc' = [pc EXCEPT ![c] = p]
      BY <2>1 DEF Send, Request, SlotTaken, SlotRefused, SlotWait, AwaitSettled, AwaitParks, Finally,
         SendReturns, Return, EnqueueTooLarge, EnqueueAborted, GoTo, Finish
    <3> QED BY <1>0, <2>0, <3>3, <3>4
  <2>2. CASE Run(c)
    <3>1. CASE pc[c] = "roomParked"
      <4>1. pc' = [pc EXCEPT ![c] = "enqueue"]
        BY <2>2, <3>1 DEF Run, RunSlotWaiter, RunRoomWaiter, RunAwaiter, RunWriter, GoTo
      <4> QED BY <1>0, <2>0, <4>1
    <3>2. CASE pc[c] # "roomParked"
      <4>1. pc[c] # "enqueue" /\ \E p : pc' = [pc EXCEPT ![c] = p]
        BY <2>2, <3>2 DEF Run, RunSlotWaiter, RunRoomWaiter, RunAwaiter, RunWriter, GoTo, Finish
      <4> QED BY <1>0, <1>3, <2>0, <3>2, <4>1
    <3> QED BY <3>1, <3>2
  <2>3. CASE DrainLeftover(c) \/ DrainDone(c) \/ WriteReturns(c)
    <3>1. pc[c] \in {"drain", "write"} /\ \E p : pc' = [pc EXCEPT ![c] = p]
      BY <2>3, AfterGoes DEF DrainLeftover, DrainDone, WriteReturns, WriteDone, Running, GoTo
    <3> QED BY <1>0, <1>3, <2>0, <3>1
  <2>4. CASE LoopParks
    BY <1>0, <2>0, <2>4 DEF LoopParks, GoTo
  <2>5. CASE RunDead(c) \/ SocketWrite \/ UNCHANGED vars
    BY <2>5 DEF RunDead, SocketWrite, vars, reactorVars
  <2> QED BY <2>1, <2>2, <2>3, <2>4, <2>5
<1>4. \A x \in Callers : WokenRoom(x) => WokenRoom(x)'
  BY <1>1, <1>3 DEF WokenRoom, IsSettled, TooLarge
<1>5. \A r \in roomCont : r \in roomCont' \/ pc'[r] # "roomParked"
  <2>1. CASE Run(c)
    <3>1. roomCont' = roomCont \/ (pc[c] = "roomParked" /\ roomCont' = roomCont \ {c})
      BY <2>1 DEF Run
    <3>2. pc[c] = "roomParked" => pc' = [pc EXCEPT ![c] = "enqueue"]
      BY <2>1 DEF Run, RunSlotWaiter, RunRoomWaiter, RunAwaiter, RunWriter, GoTo
    <3> QED BY <1>0, <3>1, <3>2
  <2>2. CASE ~Run(c)
    BY <2>2 DEF Send, Request, SlotTaken, SlotRefused, SlotWait, AwaitSettled, AwaitParks, Finally, SendReturns,
     EnqueueTooLarge, EnqueueAborted, RunDead, DrainLeftover, DrainDone, WriteReturns, LoopParks,
     SocketWrite, OnlyCaller, vars, roomVars
  <2> QED BY <2>1, <2>2
<1>6. RoomEntries'
  BY <1>1, <1>5, RoomEntriesKept
<1>7. RoomClaims'
  BY <1>1, <1>2, <1>4, RoomKept
<1> QED BY <1>6, <1>7

(* A caller that queues its packet holds bytes others may wait for. *)
LEMMA RoomEnqueues ==
  ASSUME ConnInv, QueueInv, ParksSafely, RoomEntries, cancelled = {}, NEW c \in Callers,
         EnqueueInline(c) \/ EnqueueChannel(c) \/ EnqueueChannelFull(c)
  PROVE  RoomEntries' /\ RoomClaims'
<1>0. /\ sendQueue \in Seq(Callers) /\ buffer \in Seq(Callers) /\ chanSenders \in Seq(Callers)
      /\ Nobody \notin Callers
  BY HeldTypes
<1>1. UNCHANGED <<settled, roomWaiters, roomCont>>
  BY DEF EnqueueInline, EnqueueChannel, EnqueueChannelFull, registryVars, roomVars
<1>2. RoomEntries'
  BY <1>1, RoomEntriesKept
<1>3. c \in Holding'
  <2>1. CASE EnqueueInline(c)
    <3>1. WriteMode = "INLINE" /\ sendQueue' = Append(sendQueue, c)
      BY <2>1 DEF EnqueueInline
    <3>2. c \in ToSet(sendQueue')
      BY <1>0, <3>1, AppendSet
    <3> QED BY <3>1, <3>2 DEF Holding
  <2>2. CASE EnqueueChannel(c)
    <3>1. WriteMode = "CHANNEL" /\ (loopPacket' = c \/ buffer' = Append(buffer, c))
      BY <2>2 DEF EnqueueChannel
    <3>2. ToSet(Append(buffer, c)) = ToSet(buffer) \cup {c}
      BY <1>0, AppendSet
    <3> QED BY <1>0, <3>1, <3>2 DEF Holding
  <2>3. CASE EnqueueChannelFull(c)
    <3>1. WriteMode = "CHANNEL" /\ chanSenders' = Append(chanSenders, c)
      BY <2>3 DEF EnqueueChannelFull
    <3>2. c \in ToSet(chanSenders')
      BY <1>0, <3>1, AppendSet
    <3> QED BY <1>0, <3>1, <3>2 DEF Holding
  <2> QED BY <2>1, <2>2, <2>3
<1> QED BY <1>2, <1>3 DEF RoomClaims

LEMMA NoRoomMeansHeld ==
  ASSUME ConnInv, BytesAccounted, cancelled = {}, ~closed, NEW c \in Callers, ~HasRoom(c)
  PROVE  Holding # {}
<1>1. SUFFICES ASSUME Holding = {} PROVE FALSE
  OBVIOUS
<1>2. queuedBytes = BytesOf({})
  BY <1>1, AccountedIs DEF Counted
<1>3. queuedBytes = 0
  BY <1>2, BytesOfSets
<1>4. WriteMode = "INLINE" => sendQueue = <<>>
  <2>1. sendQueue \in Seq(Callers)
    BY HeldTypes
  <2>2. sendQueue # <<>> => Head(sendQueue) \in ToSet(sendQueue)
    BY <2>1, TailQueue
  <2> QED BY <1>1, <2>2 DEF Holding
<1>5. WriteMode = "CHANNEL" \/ Len(sendQueue) < MailboxCapacity
  BY <1>4, ModeAssumption, LimitsAssumption
<1> QED BY <1>3, <1>5 DEF HasRoom

LEMMA RoomWaits ==
  ASSUME ConnInv, QueueInv, BytesAccounted, RoomEntries, cancelled = {}, ~closed, NEW c \in Callers, EnqueueWait(c)
  PROVE  RoomEntries' /\ RoomClaims'
<1>0. /\ roomWaiters \in Seq(Callers) /\ pc \in [Coroutines -> Points] /\ Requests \subseteq Callers
      /\ Callers \subseteq Coroutines
  BY QueueTypes
<1>1. /\ ~IsSettled(c) /\ ~HasRoom(c) /\ settled' = settled /\ pc' = [pc EXCEPT ![c] = "roomParked"]
      /\ roomWaiters' = Append(roomWaiters, c)
      /\ roomCont' = IF c \in Requests THEN roomCont \cup {c} ELSE roomCont
  BY DEF EnqueueWait, Enqueuing, registryVars, GoTo
<1>2. ToSet(roomWaiters') = ToSet(roomWaiters) \cup {c}
  BY <1>0, <1>1, AppendSet
<1>3. RoomEntries'
  <2>1. ASSUME NEW r \in Requests, r \in ToSet(roomWaiters') PROVE settled'[r] = "none"
    BY <1>1, <1>2, <2>1 DEF RoomEntries, IsSettled
  <2>2. ASSUME NEW r \in Requests, pc'[r] = "roomParked", settled'[r] = "none" PROVE r \in roomCont'
    BY <1>0, <1>1, <2>2 DEF RoomEntries
  <2> QED BY <2>1, <2>2 DEF RoomEntries
<1>4. Holding' # {}
  BY <1>1, NoRoomMeansHeld, StillBytesCaller, HoldingStill
<1> QED BY <1>3, <1>4 DEF RoomClaims

(* releaseOutboundBytes wakes the first waiter, which may use the room. *)
LEMMA RoomReleased ==
  ASSUME ConnInv, QueueInv, ParksSafely, Fitting, RoomEntries, NEW c \in Coroutines, pc[c] # "roomParked",
         NEW bytes, NEW queue, ReleaseOutboundBytes(bytes, queue),
         settled' = settled, roomCont' = roomCont, \A d \in Callers \ {c} : pc'[d] = pc[d]
  PROVE  RoomEntries' /\ RoomClaims'
<1>0. roomWaiters \in Seq(Callers) /\ DistinctIn(roomWaiters, Callers)
      /\ ToSet(roomWaiters) \subseteq Callers
  BY QueueTypes DEF QueueInv, RoomQueue
<1>1. CASE roomWaiters = <<>>
  <2>1. roomWaiters' = roomWaiters /\ ToSet(roomWaiters') = {}
    BY <1>1, EmptyQueue DEF ReleaseOutboundBytes
  <2> QED BY <2>1, RoomEntriesKept DEF RoomClaims
<1>2. CASE roomWaiters # <<>>
  <2>1. PICK h \in Callers : h = Head(roomWaiters)
    BY <1>0, <1>2, TailFacts
  <2>2. roomWaiters' = Tail(roomWaiters)
    BY <1>2 DEF ReleaseOutboundBytes
  <2>3. ToSet(roomWaiters') = ToSet(roomWaiters) \ {h} /\ h \in ToSet(roomWaiters)
    <3>1. /\ Head(roomWaiters) \in ToSet(roomWaiters)
          /\ ToSet(roomWaiters) = ToSet(Tail(roomWaiters)) \cup {Head(roomWaiters)}
          /\ DistinctIn(Tail(roomWaiters), Callers)
          /\ ToSet(Tail(roomWaiters)) \cap Callers = (ToSet(roomWaiters) \cap Callers) \ {Head(roomWaiters)}
      BY <1>0, <1>2, TailQueue
    <3> QED BY <1>0, <2>1, <2>2, <3>1
  <2>4. pc[h] = "roomParked" /\ ~TooLarge(h) /\ ~IsSettled(h)
    BY <2>3 DEF QueueInv, RoomQueue, Fitting, RoomEntries, IsSettled
  <2>5. pc'[h] = "roomParked"
    BY <2>4
  <2>6. WokenRoom(h)'
    BY <2>3, <2>4, <2>5 DEF WokenRoom, IsSettled, TooLarge
  <2>7. (\E d \in Callers : WokenRoom(d))'
    BY <2>6, Zenon
  <2>8. RoomEntries'
    BY <2>3, RoomEntriesKept
  <2> QED BY <2>7, <2>8 DEF RoomClaims
<1> QED BY <1>1, <1>2

LEMMA RoomReleases ==
  ASSUME ConnInv, QueueInv, ParksSafely, Fitting, RoomEntries, NEW c \in Coroutines,
         DrainNext(c) \/ (WriteReturns(c) /\ WriteMode = "CHANNEL")
  PROVE  RoomEntries' /\ RoomClaims'
<1>0. pc \in [Coroutines -> Points] /\ Callers \subseteq Coroutines
  BY QueueTypes
<1>1. settled' = settled /\ roomCont' = roomCont /\ pc[c] # "roomParked"
  BY DEF DrainNext, WriteReturns, WriteDone, Running, registryVars
<1>2. \E bytes : ReleaseOutboundBytes(bytes, ready)
  BY DEF DrainNext, WriteReturns
<1>3. \E p : pc' = [pc EXCEPT ![c] = p]
  BY DEF DrainNext, WriteReturns, GoTo
<1>4. \A d \in Callers \ {c} : pc'[d] = pc[d]
  BY <1>0, <1>3
<1> QED BY <1>1, <1>2, <1>4, RoomReleased

LEMMA RoomLoopTakes ==
  ASSUME ConnInv, QueueInv, ParksSafely, WriterInv, RoomEntries, LoopTakes
  PROVE  RoomEntries' /\ RoomClaims'
<1>0. buffer \in Seq(Callers) /\ loopPacket \in Callers \cup {Nobody} /\ Nobody \notin Callers
  BY HeldTypes
<1>1. UNCHANGED <<settled, roomWaiters, roomCont>> /\ pc[Writer] = "receive"
  BY DEF LoopTakes, Running, registryVars, roomVars
<1>2. WriteMode = "CHANNEL"
  BY <1>1, ModeAssumption DEF WriterInv, InlineWriter, WriterPoints
<1>3. loopPacket' \in Callers
  <2>1. buffer # <<>> => Head(buffer) \in Callers
    BY <1>0, TailFacts
  <2> QED BY <1>0, <2>1 DEF LoopTakes
<1>4. loopPacket' \in Holding'
  BY <1>0, <1>2, <1>3 DEF Holding
<1> QED BY <1>1, <1>4, RoomEntriesKept DEF RoomClaims

LEMMA RoomRunChan ==
  ASSUME ConnInv, QueueInv, ParksSafely, Fitting, RoomEntries, RoomClaims, cancelled = {}, NEW c \in Callers,
         RunChanWaiter(c)
  PROVE  RoomEntries' /\ RoomClaims'
<1>0. pc \in [Coroutines -> Points] /\ Callers \subseteq Coroutines /\ Requests \subseteq Callers
  BY QueueTypes
<1>1. /\ pc[c] \in {"chanSent", "chanGate"} /\ settled' = settled /\ roomCont' = roomCont
      /\ AfterEnqueue(c) /\ UNCHANGED <<sendQueue, buffer, chanSenders, loopPacket>>
  BY DEF RunChanWaiter, registryVars
<1>2. /\ \A d \in Callers \ {c} : pc'[d] = pc[d]
      /\ pc'[c] # "chanGate"
  BY <1>0, <1>1, AfterGoes
<1>3. CASE c \in Requests /\ pc[c] = "chanGate"
  <2>1. ReleaseOutboundBytes(Bytes[c], Tail(ready))
    BY <1>3 DEF RunChanWaiter
  <2> QED BY <1>0, <1>1, <1>2, <2>1, RoomReleased
<1>4. CASE ~(c \in Requests /\ pc[c] = "chanGate")
  <2>1. roomWaiters' = roomWaiters
    BY <1>4 DEF RunChanWaiter
  <2>2. {r \in Requests : pc'[r] = "chanGate"} = {r \in Requests : pc[r] = "chanGate"}
    BY <1>0, <1>2, <1>4
  <2>3. Holding' = Holding
    BY <1>1, <2>2 DEF Holding
  <2>4. \A x \in Callers : WokenRoom(x) => WokenRoom(x)'
    BY <1>1, <1>2, <2>1 DEF WokenRoom, IsSettled, TooLarge
  <2>5. RoomClaims'
    BY <2>1, <2>3, <2>4, RoomKept
  <2>6. RoomEntries'
    BY <1>1, <2>1, RoomEntriesKept
  <2> QED BY <2>5, <2>6
<1> QED BY <1>3, <1>4

LEMMA RoomDeadline ==
  ASSUME ConnInv, QueueInv, RegInv, ParksSafely, RoomEntries, RoomClaims, ~doubleResume', NEW r \in Requests,
         Deadline(r)
  PROVE  RoomEntries' /\ RoomClaims'
<1>0. /\ pc \in [Coroutines -> Points] /\ Callers \subseteq Coroutines /\ Requests \subseteq Callers
      /\ settled \in [Requests -> Settlements] /\ chanSenders \in Seq(Callers)
      /\ DistinctIn(chanSenders, Callers) /\ Nobody \notin Callers
  BY QueueTypes, CallersAssumption DEF QueueInv, ChanQueue
<1>1. /\ settled[r] = "none" /\ settled' = [settled EXCEPT ![r] = "timeout"] /\ pc[r] # "enqueue"
      /\ r \in roomCont => r \in ToSet(roomWaiters)
      /\ roomCont' = roomCont \ {r}
      /\ UNCHANGED <<sendQueue, buffer, loopPacket>>
  BY DeadlineFrees DEF WorkPoints
<1>2. \/ roomWaiters' = roomWaiters /\ r \notin roomCont
      \/ ToSet(roomWaiters') = ToSet(roomWaiters) \ {r}
  BY DeadlineFrees
<1>3. \/ pc' = pc /\ chanSenders' = chanSenders
      \/ /\ pc[r] = "chanParked" /\ pc' = [pc EXCEPT ![r] = "chanGate"]
         /\ chanSenders' = Without(chanSenders, r)
  BY DeadlineFrees
<1>4. ToSet(roomWaiters') \subseteq ToSet(roomWaiters) /\ r \notin ToSet(roomWaiters')
  <2>1. r \in ToSet(roomWaiters) => r \in roomCont
    BY <1>1 DEF QueueInv, RoomQueue, RoomEntries
  <2> QED BY <1>2, <2>1
<1>5. \A x \in Callers \ {r} : pc'[x] = pc[x]
  BY <1>0, <1>3
<1>6. \A x \in Requests \ {r} : settled'[x] = settled[x]
  BY <1>0, <1>1
<1>7. settled'[r] = "timeout"
  BY <1>0, <1>1
<1>8. RoomEntries'
  BY <1>1, <1>4, <1>6, <1>7, RoomEntriesKept
<1>9. Holding \subseteq Holding'
  <2>1. CASE pc' = pc /\ chanSenders' = chanSenders
    BY <1>1, <2>1 DEF Holding
  <2>2. CASE pc' = [pc EXCEPT ![r] = "chanGate"] /\ chanSenders' = Without(chanSenders, r)
    <3>0. /\ ToSet(Without(chanSenders, r)) = ToSet(chanSenders) \ {r}
          /\ DistinctIn(Without(chanSenders, r), Callers)
      BY <1>0, WithoutQueue
    <3>1. ToSet(chanSenders') = ToSet(chanSenders) \ {r}
      BY <2>2, <3>0
    <3>2. pc'[r] = "chanGate"
      BY <1>0, <2>2
    <3>3. \A x \in Requests : pc[x] = "chanGate" => pc'[x] = "chanGate"
      BY <1>0, <1>5, <3>2
    <3> QED BY <1>1, <3>1, <3>2, <3>3 DEF Holding
  <2> QED BY <1>3, <2>1, <2>2
<1>10. ASSUME NEW x \in Callers, WokenRoom(x) PROVE WokenRoom(x)'
  <2>1. x # r
    BY <1>1, <1>10 DEF WokenRoom, RoomEntries
  <2> QED BY <1>4, <1>5, <1>6, <1>10, <2>1 DEF WokenRoom, IsSettled, TooLarge
<1> QED BY <1>4, <1>8, <1>9, <1>10, RoomKept

LEMMA RoomResponse ==
  ASSUME ConnInv, QueueInv, RegInv, Sent, ParksSafely, RoomEntries, RoomClaims, NEW r \in Requests,
         NEW p \in Requests, RecvResponse(r, p)
  PROVE  RoomEntries' /\ RoomClaims'
<1>0. Requests \subseteq Callers /\ settled \in [Requests -> Settlements]
  BY QueueTypes
<1>1. /\ pc[p] \in HeldPoints /\ settled' = [settled EXCEPT ![p] = "response"]
      /\ UNCHANGED <<pc, roomWaiters, roomCont, sendQueue, buffer, loopPacket, chanSenders>>
  BY ResponseFrees DEF roomVars
<1>2. \A x \in Requests \ {p} : settled'[x] = settled[x]
  BY <1>0, <1>1
<1>3. settled'[p] = "response" /\ p \notin ToSet(roomWaiters)
  BY <1>0, <1>1 DEF QueueInv, RoomQueue, HeldPoints, AfterPoints
<1>4. RoomEntries'
  BY <1>1, <1>2, <1>3, RoomEntriesKept
<1>5. Holding' = Holding
  BY <1>1 DEF Holding
<1>6. ASSUME NEW x \in Callers, WokenRoom(x) PROVE WokenRoom(x)'
  <2>1. x # p
    BY <1>1, <1>6 DEF WokenRoom, HeldPoints, AfterPoints
  <2> QED BY <1>1, <1>2, <1>6, <2>1 DEF WokenRoom, IsSettled, TooLarge
<1> QED BY <1>1, <1>4, <1>5, <1>6, RoomKept

LEMMA RoomStep ==
  ASSUME ConnInv, ConnInv', QueueInv, RegInv, Sent, WriterInv, BytesAccounted, Fitting, RoomEntries, RoomClaims,
         [Next]_vars, Calm'
  PROVE  RoomEntries' /\ RoomClaims'
<1>0. /\ Requests \subseteq Callers /\ Senders \subseteq Callers /\ Callers \subseteq Coroutines
      /\ Writer \in Coroutines
  BY RegTypes
<1>1. cancelled = {} /\ ~doubleResume' /\ ~closed /\ ParksSafely
  BY CalmBefore, CalmGoes DEF Calm
<1>2. ASSUME NEW c \in Coroutines,
         \/ c \in Callers /\ (Send(c) \/ Request(c) \/ SlotTaken(c) \/ SlotRefused(c) \/ SlotWait(c)
              \/ AwaitSettled(c) \/ AwaitParks(c) \/ Finally(c) \/ SendReturns(c)
              \/ EnqueueTooLarge(c) \/ EnqueueAborted(c))
         \/ Run(c) \/ RunDead(c) \/ DrainLeftover(c) \/ DrainDone(c)
         \/ WriteReturns(c) /\ WriteMode = "INLINE"
         \/ LoopParks \/ SocketWrite \/ UNCHANGED vars
      PROVE  RoomEntries' /\ RoomClaims'
  BY <1>1, <1>2, RoomAside
<1>3. ASSUME NEW c \in Callers,
             \/ EnqueueWait(c) \/ EnqueueInline(c) \/ EnqueueChannel(c) \/ EnqueueChannelFull(c) \/ RunChanWaiter(c)
      PROVE  RoomEntries' /\ RoomClaims'
  BY <1>1, <1>3, RoomWaits, RoomEnqueues, RoomRunChan
<1>4. ASSUME NEW c \in Coroutines, DrainNext(c) \/ (WriteReturns(c) /\ WriteMode = "CHANNEL") \/ LoopTakes
      PROVE  RoomEntries' /\ RoomClaims'
  BY <1>1, <1>4, RoomReleases, RoomLoopTakes
<1>5. ASSUME NEW r \in Requests, Deadline(r) PROVE RoomEntries' /\ RoomClaims'
  BY <1>1, <1>5, RoomDeadline
<1>6. ASSUME NEW r \in Requests, NEW p \in Requests, RecvResponse(r, p) PROVE RoomEntries' /\ RoomClaims'
  BY <1>1, <1>6, RoomResponse
<1>7. CASE Reactor
  BY <1>0, <1>2, <1>3, <1>4, <1>7 DEF Reactor
<1> QED BY <1>0, <1>2, <1>4, <1>5, <1>6, <1>7, CalmSteps, ModeAssumption DEF Next

-----------------------------------------------------------------------------
(* The write loop, while it lives, is writing, is about to look into its   *)
(* channel, or is parked there; and senders park only at a full channel.   *)
LoopAt ==
  WriteMode = "CHANNEL" =>
    /\ pc[Writer] \in {"receive", "recvParked", "write"}
    /\ pc[Writer] = "receive" => Writer \in ToSet(ready) \/ running = Writer
    /\ chanSenders # <<>> => buffer # <<>>

LoopMoves ==
  /\ pc'[Writer] \in {"receive", "recvParked", "write"}
  /\ pc'[Writer] = "receive" => running' = Writer \/ (pc[Writer] = "receive" /\ running # Writer)
  /\ chanSenders' # <<>> => buffer' # <<>>

LEMMA LoopStays ==
  ASSUME ConnInv, LoopAt, WriteMode = "CHANNEL", pc'[Writer] = pc[Writer],
         running = Writer => running' = Writer, chanSenders' # <<>> => buffer' # <<>>
  PROVE  LoopMoves
  BY DEF LoopAt, LoopMoves

LEMMA LoopCaller ==
  ASSUME ConnInv, LoopAt, WriteMode = "CHANNEL", cancelled = {}, NEW c \in Callers,
         \/ Send(c) \/ Request(c) \/ SlotTaken(c) \/ SlotRefused(c) \/ SlotWait(c)
         \/ AwaitSettled(c) \/ AwaitParks(c) \/ Finally(c) \/ SendReturns(c)
         \/ EnqueueTooLarge(c) \/ EnqueueAborted(c) \/ EnqueueWait(c) \/ EnqueueInline(c)
         \/ EnqueueChannel(c) \/ EnqueueChannelFull(c) \/ RunChanWaiter(c)
  PROVE  LoopMoves
<1>0. /\ pc \in [Coroutines -> Points] /\ Callers \subseteq Coroutines /\ Writer \in Coroutines
      /\ Writer \notin Callers /\ Writer # Nobody /\ buffer \in Seq(Callers)
  BY RegTypes, PathTypes
<1>1. running # Writer
  BY <1>0 DEF Send, Request, SlotTaken, SlotRefused, SlotWait, AwaitSettled, AwaitParks, Finally, SendReturns,
     EnqueueTooLarge, EnqueueAborted, EnqueueWait, EnqueueInline, EnqueueChannel, EnqueueChannelFull,
     RunChanWaiter, Enqueuing, Running, Resumed, OnlyCaller
<1>2. \E p : pc' = [pc EXCEPT ![c] = p]
  <2>1. CASE EnqueueChannel(c)
    BY <2>1 DEF EnqueueChannel, AfterEnqueue, GoTo, Finish
  <2>2. CASE RunChanWaiter(c)
    BY <2>2 DEF RunChanWaiter, AfterEnqueue, GoTo, Finish
  <2>3. CASE EnqueueInline(c)
    BY <2>3 DEF EnqueueInline
  <2>4. CASE EnqueueChannelFull(c)
    BY <2>4 DEF EnqueueChannelFull, GoTo, Finish
  <2>5. CASE \/ Send(c) \/ Request(c) \/ SlotTaken(c) \/ SlotRefused(c) \/ SlotWait(c)
             \/ AwaitSettled(c) \/ AwaitParks(c) \/ Finally(c) \/ SendReturns(c)
             \/ EnqueueTooLarge(c) \/ EnqueueAborted(c) \/ EnqueueWait(c)
    BY <2>5 DEF Send, Request, SlotTaken, SlotRefused, SlotWait, AwaitSettled, AwaitParks, Finally, SendReturns,
       EnqueueTooLarge, EnqueueAborted, EnqueueWait, Return, GoTo, Finish
  <2> QED BY <2>1, <2>2, <2>3, <2>4, <2>5
<1>3. pc'[Writer] = pc[Writer]
  BY <1>0, <1>2
<1>4. chanSenders' # <<>> => buffer' # <<>>
  <2>1. CASE EnqueueChannel(c)
    <3>1. chanSenders' = chanSenders /\ (buffer' = buffer \/ buffer' = Append(buffer, c))
      BY <2>1 DEF EnqueueChannel
    <3>2. Append(buffer, c) # <<>>
      BY <1>0
    <3> QED BY <3>1, <3>2 DEF LoopAt
  <2>2. CASE EnqueueChannelFull(c)
    <3>1. buffer' = buffer /\ Len(buffer) >= MailboxCapacity
      BY <2>2 DEF EnqueueChannelFull
    <3>2. buffer # <<>>
      BY <3>1, LimitsAssumption
    <3> QED BY <3>1, <3>2
  <2>3. CASE \/ Send(c) \/ Request(c) \/ SlotTaken(c) \/ SlotRefused(c) \/ SlotWait(c)
             \/ AwaitSettled(c) \/ AwaitParks(c) \/ Finally(c) \/ SendReturns(c)
             \/ EnqueueTooLarge(c) \/ EnqueueAborted(c) \/ EnqueueWait(c) \/ RunChanWaiter(c)
    <3>1. UNCHANGED <<buffer, chanSenders>>
      BY <2>3 DEF Send, Request, SlotTaken, SlotRefused, SlotWait, AwaitSettled, AwaitParks, Finally, SendReturns,
         EnqueueTooLarge, EnqueueAborted, EnqueueWait, RunChanWaiter, OnlyCaller, pathVars
    <3> QED BY <3>1 DEF LoopAt
  <2>4. CASE EnqueueInline(c)
    BY <2>4 DEF EnqueueInline
  <2> QED BY <2>1, <2>2, <2>3, <2>4
<1> QED BY <1>1, <1>3, <1>4, LoopStays

LEMMA LoopWriter ==
  ASSUME ConnInv, WriterInv, LoopAt, WriteMode = "CHANNEL", NEW c \in Coroutines,
         \/ Run(c) \/ RunDead(c) \/ DrainLeftover(c) \/ DrainNext(c) \/ DrainDone(c) \/ WriteReturns(c)
         \/ LoopTakes \/ LoopParks \/ SocketWrite \/ UNCHANGED vars
  PROVE  LoopMoves
<1>0. /\ pc \in [Coroutines -> Points] /\ Callers \subseteq Coroutines /\ Writer \in Coroutines
      /\ Writer \notin Callers /\ Writer # Nobody /\ Coroutines = Callers \cup {Writer}
  BY RegTypes DEF Coroutines
<1>1. CASE RunDead(c) \/ SocketWrite \/ UNCHANGED vars
  <2>1. UNCHANGED <<pc, running, buffer, chanSenders>>
    BY <1>1 DEF RunDead, SocketWrite, vars, pathVars, reactorVars
  <2> QED BY <2>1, LoopStays DEF LoopAt
<1>2. CASE Run(c)
  <2>1. UNCHANGED <<buffer, chanSenders>> /\ running = Nobody /\ running' = c
    BY <1>2 DEF Run, Resumed, pathVars
  <2>2. CASE c = Writer
    <3>1. pc' = [pc EXCEPT ![Writer] = "receive"]
      BY <1>2, <2>2 DEF Run, RunSlotWaiter, RunRoomWaiter, RunAwaiter, RunWriter, GoTo, LoopAt
    <3> QED BY <1>0, <2>1, <2>2, <3>1 DEF LoopAt, LoopMoves
  <2>3. CASE c # Writer
    <3>1. \E p : pc' = [pc EXCEPT ![c] = p]
      BY <1>2, <2>3 DEF Run, RunSlotWaiter, RunRoomWaiter, RunAwaiter, RunWriter, GoTo, Finish
    <3>2. pc'[Writer] = pc[Writer]
      BY <1>0, <2>3, <3>1
    <3> QED BY <1>0, <2>1, <3>2, LoopStays DEF LoopAt
  <2> QED BY <2>2, <2>3
<1>3. CASE DrainLeftover(c) \/ DrainNext(c) \/ DrainDone(c)
  BY <1>0, <1>3 DEF DrainLeftover, DrainNext, DrainDone, Running, ConnInv, WriteLoopAlone
<1>4. CASE WriteReturns(c)
  <2>1. c = Writer
    BY <1>0, <1>4 DEF WriteReturns, WriteDone, ConnInv, WriteLoopAlone
  <2>2. UNCHANGED <<buffer, chanSenders>> /\ running' = Writer /\ pc' = [pc EXCEPT ![Writer] = "receive"]
    BY <1>4, <2>1 DEF WriteReturns, GoTo
  <2> QED BY <1>0, <2>2 DEF LoopAt, LoopMoves
<1>5. CASE LoopParks
  <2>1. UNCHANGED <<buffer, chanSenders>> /\ pc' = [pc EXCEPT ![Writer] = "recvParked"]
    BY <1>5 DEF LoopParks, GoTo, pathVars
  <2> QED BY <1>0, <2>1 DEF LoopAt, LoopMoves
<1>6. CASE LoopTakes
  <2>0. buffer \in Seq(Callers) /\ chanSenders \in Seq(Callers)
    BY PathTypes, QueueTypes
  <2>1. CASE loopPacket # Nobody
    <3>1. UNCHANGED <<buffer, chanSenders>> /\ pc' = [pc EXCEPT ![Writer] = "write"]
      BY <1>6, <2>1 DEF LoopTakes, GoTo
    <3> QED BY <1>0, <3>1 DEF LoopAt, LoopMoves
  <2>2. CASE loopPacket = Nobody /\ chanSenders = <<>>
    <3>1. chanSenders' = chanSenders /\ pc' = [pc EXCEPT ![Writer] = "write"]
      BY <1>6, <2>2 DEF LoopTakes, GoTo
    <3> QED BY <1>0, <2>2, <3>1 DEF LoopMoves
  <2>3. CASE loopPacket = Nobody /\ chanSenders # <<>>
    <3>1. /\ buffer # <<>> /\ buffer' = Append(Tail(buffer), Head(chanSenders))
          /\ pc' = [pc EXCEPT ![Writer] = "write", ![Head(chanSenders)] = "chanSent"]
      BY <1>6, <2>3 DEF LoopTakes
    <3>2. Head(chanSenders) \in Callers /\ Tail(buffer) \in Seq(Callers)
      BY <2>0, <2>3, <3>1, TailFacts
    <3>3. buffer' # <<>>
      BY <3>1, <3>2
    <3>4. pc'[Writer] = "write"
      BY <1>0, <3>1, <3>2
    <3> QED BY <3>3, <3>4 DEF LoopMoves
  <2> QED BY <2>1, <2>2, <2>3
<1> QED BY <1>1, <1>2, <1>3, <1>4, <1>5, <1>6

LEMMA LoopEvents ==
  ASSUME ConnInv, LoopAt, WriteMode = "CHANNEL", NEW r \in Requests,
         Deadline(r) \/ \E p \in Requests : RecvResponse(r, p)
  PROVE  LoopMoves
<1>0. /\ pc \in [Coroutines -> Points] /\ Requests \subseteq Callers /\ Callers \subseteq Coroutines
      /\ Writer \in Coroutines /\ Writer \notin Callers /\ Writer # Nobody
  BY RegTypes
<1>1. CASE Deadline(r)
  <2>1. /\ UNCHANGED <<running, buffer>>
        /\ chanSenders' = IF r \in GatedIn({r}) THEN Without(chanSenders, r) ELSE chanSenders
        /\ pc' = IF r \in GatedIn({r}) THEN [pc EXCEPT ![r] = "chanGate"] ELSE pc
    BY <1>1 DEF Deadline
  <2>2. chanSenders = <<>> => chanSenders' = <<>>
    BY <2>1, WithoutEmpty
  <2>3. pc'[Writer] = pc[Writer]
    BY <1>0, <2>1
  <2> QED BY <2>1, <2>2, <2>3, LoopStays DEF LoopAt
<1>2. CASE \E p \in Requests : RecvResponse(r, p)
  <2>1. PICK p \in Requests : RecvResponse(r, p)
    BY <1>2
  <2>2. /\ UNCHANGED <<running, buffer>>
        /\ chanSenders' = IF p \in GatedIn({p}) THEN Without(chanSenders, p) ELSE chanSenders
        /\ pc' = IF p \in GatedIn({p}) THEN [pc EXCEPT ![p] = "chanGate"] ELSE pc
    BY <2>1 DEF RecvResponse
  <2>3. chanSenders = <<>> => chanSenders' = <<>>
    BY <2>2, WithoutEmpty
  <2>4. pc'[Writer] = pc[Writer]
    BY <1>0, <2>2
  <2> QED BY <2>2, <2>3, <2>4, LoopStays DEF LoopAt
<1> QED BY <1>1, <1>2

LEMMA LoopStep ==
  ASSUME ConnInv, ConnInv', QueueInv, RegInv, Sent, WriterInv, LoopAt, [Next]_vars, Calm'
  PROVE  LoopAt'
<1> SUFFICES ASSUME WriteMode = "CHANNEL" PROVE LoopAt'
  BY DEF LoopAt
<1>0. /\ Requests \subseteq Callers /\ Senders \subseteq Callers /\ Callers \subseteq Coroutines
      /\ Writer \in Coroutines /\ ready \in Seq(Coroutines)
  BY RegTypes, QueueTypes
<1>1. cancelled = {} /\ RunsOn
  BY CalmBefore, CalmGoes
<1>2. LoopMoves
  <2>1. CASE Reactor
    BY <1>0, <1>1, <2>1, LoopCaller, LoopWriter DEF Reactor
  <2> QED BY <1>0, <1>1, <2>1, LoopCaller, LoopWriter, LoopEvents, CalmSteps DEF Next
<1>3. ASSUME pc'[Writer] = "receive", running' # Writer PROVE Writer \in ToSet(ready')
  <2>1. pc[Writer] = "receive" /\ Writer \in ToSet(ready)
    BY <1>2, <1>3 DEF LoopMoves, LoopAt
  <2>2. CASE Extends(ready, ready')
    BY <2>1, <2>2 DEF Extends
  <2>3. ASSUME NEW c \in Coroutines, Resumed(c), Extends(Tail(ready), ready'), running' = c \/ pc[c] = "dead"
        PROVE  Writer \in ToSet(ready')
    <3>1. ready # <<>> /\ c = Head(ready) /\ c # Writer
      BY <1>3, <2>1, <2>3 DEF Resumed
    <3>2. ToSet(ready) = ToSet(Tail(ready)) \cup {Head(ready)}
      BY <1>0, <3>1, TailQueue
    <3> QED BY <2>1, <2>3, <3>1, <3>2 DEF Extends
  <2> QED BY <1>1, <2>2, <2>3 DEF RunsOn
<1> QED BY <1>2, <1>3 DEF LoopMoves, LoopAt

-----------------------------------------------------------------------------
(* As long as no wake-up was swallowed, everybody who waits is accounted   *)
(* for.                                                                    *)
Awaited == Due /\ Fitting /\ SlotEntries /\ SlotClaims /\ RoomEntries /\ RoomClaims /\ LoopAt

WakeInv == Sent /\ (Calm => Awaited)

LEMMA WakeInvInit == Init => WakeInv
<1> SUFFICES ASSUME Init PROVE WakeInv
  OBVIOUS
<1>1. /\ inFlightWaiters = <<>> /\ roomWaiters = <<>> /\ chanSenders = <<>> /\ slotCont = {}
      /\ wire = <<>> /\ writeBuf = <<>>
  BY DEF Init
<1>2. \A c \in Callers : pc[c] = "idle"
  BY CallersAssumption DEF Init, Coroutines
<1>3. ToSet(inFlightWaiters) = {} /\ ToSet(roomWaiters) = {} /\ ToSet(wire) = {} /\ ToSet(writeBuf) = {}
  BY <1>1, EmptyQueue
<1>4. Sent /\ Due /\ Fitting
  BY <1>2, <1>3 DEF Sent, Due, Fitting
<1>5. SlotEntries /\ SlotClaims
  BY <1>1, <1>3 DEF SlotEntries, SlotClaims, Stale
<1>6. RoomEntries /\ RoomClaims
  BY <1>2, <1>3 DEF RoomEntries, RoomClaims, Callers
<1>7. LoopAt
  <2> SUFFICES ASSUME WriteMode = "CHANNEL" PROVE LoopAt
    BY DEF LoopAt
  <2>1. pc[Writer] = "receive" /\ ready = <<Writer>>
    BY DEF Init, Coroutines
  <2>2. Writer \in ToSet(ready)
    BY <2>1 DEF ToSet
  <2> QED BY <1>1, <2>1, <2>2 DEF LoopAt
<1> QED BY <1>4, <1>5, <1>6, <1>7 DEF WakeInv, Awaited

LEMMA WakeInvStep ==
  ConnInv /\ ConnInv' /\ QueueInv /\ QueueInv' /\ RegInv /\ WriterInv /\ BytesInv /\ WakeInv /\ [Next]_vars
    => WakeInv'
<1> SUFFICES ASSUME ConnInv, ConnInv', QueueInv, QueueInv', RegInv, WriterInv, BytesInv, WakeInv, [Next]_vars
             PROVE  WakeInv'
  OBVIOUS
<1>1. HeldInv /\ BytesAccounted /\ Sent
  BY DEF BytesInv, WakeInv
<1>2. Sent'
  BY <1>1, SentStep
<1>3. ASSUME Calm' PROVE Awaited'
  <2>1. Due /\ Fitting /\ SlotEntries /\ SlotClaims /\ RoomEntries /\ RoomClaims /\ LoopAt
    BY <1>3, CalmBefore DEF WakeInv, Awaited
  <2>2. RunsOn /\ ParksSafely
    BY <1>1, <1>3, CalmGoes
  <2>3. Due'
    BY <2>1, <2>2, DueStep
  <2>4. Fitting'
    BY <2>1, <2>2, FittingStep
  <2>5. SlotEntries' /\ SlotClaims'
    BY <1>1, <1>3, <2>1, SlotsStep
  <2>6. RoomEntries' /\ RoomClaims'
    BY <1>1, <1>3, <2>1, RoomStep
  <2>7. LoopAt'
    BY <1>1, <1>3, <2>1, LoopStep
  <2> QED BY <2>3, <2>4, <2>5, <2>6, <2>7 DEF Awaited
<1> QED BY <1>2, <1>3 DEF WakeInv

(* When the reactor is idle, nobody who was woken is still on the way, so  *)
(* the claims on the slots and on the room are all held.                   *)
LEMMA QuietHasCause ==
  ASSUME ConnInv, RegInv, WriterInv, PathInv, WakeInv, Quiet, ~closed, Untroubled
  PROVE  SlotWaitersHaveCause /\ RoomWaitersHaveCause
<1>0. /\ Requests \subseteq Callers /\ Nobody \notin Callers /\ Writer # Nobody
      /\ roomWaiters \in Seq(Callers) /\ sendQueue \in Seq(Callers) /\ buffer \in Seq(Callers)
      /\ chanSenders \in Seq(Callers)
  BY RegTypes, QueueTypes, PathTypes
<1>1. running = Nobody /\ ToSet(ready) = {} /\ Awaited
  BY EmptyQueue DEF Quiet, WakeInv, Calm
<1>2. \A c \in Callers : pc[c] \notin WorkPoints
  BY <1>0, <1>1 DEF RegInv, WorkRuns
<1>3. Claims = pending
  <2>1. \A r \in Requests : ~WokenSlot(r)
    BY <1>0, <1>1, <1>2 DEF WokenSlot, Awaited, Due, WorkPoints
  <2> QED BY <2>1 DEF Claims
<1>4. SlotWaitersHaveCause
  BY <1>1, <1>3 DEF SlotWaitersHaveCause, SlotsFull, Awaited, SlotClaims
<1>5. ASSUME roomWaiters # <<>> PROVE Holding # {}
  <2>1. \A c \in Callers : ~WokenRoom(c)
    BY <1>1, <1>2 DEF WokenRoom, Awaited, Due, WorkPoints
  <2>2. ToSet(roomWaiters) # {}
    BY <1>0, <1>5, TailQueue
  <2> QED BY <1>1, <2>1, <2>2 DEF Awaited, RoomClaims
<1>6. ASSUME roomWaiters # <<>>, WriteMode = "INLINE" PROVE writerActive
  <2>1. sendQueue # <<>>
    BY <1>5, <1>6, EmptyQueue DEF Holding
  <2> QED BY <1>6, <2>1 DEF WriterInv, InlineWriter
<1>7. ASSUME roomWaiters # <<>>, WriteMode = "CHANNEL", loopPacket = Nobody PROVE FALSE
  <2>1. {c \in Requests : pc[c] = "chanGate"} = {}
    BY <1>0, <1>1 DEF Awaited, Due
  <2>2. buffer # <<>> \/ chanSenders # <<>>
    <3>1. ASSUME buffer = <<>>, chanSenders = <<>> PROVE FALSE
      <4>1. ToSet(buffer) = {} /\ ToSet(chanSenders) = {}
        BY <3>1, EmptyQueue
      <4>2. Holding = {}
        BY <1>7, <2>1, <4>1 DEF Holding
      <4> QED BY <1>5, <1>7, <4>2
    <3> QED BY <3>1
  <2>3. buffer # <<>>
    BY <1>1, <1>7, <2>2 DEF Awaited, LoopAt
  <2>4. pc[Writer] \in {"receive", "recvParked", "write"} /\ pc[Writer] # "receive"
    BY <1>0, <1>1, <1>7 DEF Awaited, LoopAt
  <2>5. pc[Writer] # "write"
    BY <1>7 DEF ConnInv, WriteLoopAlone
  <2> QED BY <1>7, <2>3, <2>4, <2>5 DEF PathInv, LoopClear
<1> QED BY <1>4, <1>6, <1>7, ModeAssumption DEF RoomWaitersHaveCause

(* No caller is left suspended without a cause: once the reactor has       *)
(* nothing to run, a request that waits for an in-flight slot finds every  *)
(* slot taken by a pending request, and a caller that waits for outbound   *)
(* room finds a writer at work (INLINE) or a packet in the write loop's    *)
(* hands (CHANNEL), whose end will wake it. wakeOneInFlightWaiter and      *)
(* releaseOutboundBytes wake one waiter each, the woken one checks again   *)
(* and may find the place taken, and a request that timed out leaves an    *)
(* entry behind that swallows a wake-up: with no cancellation, no double   *)
(* resume and at most one timeout, none of this loses a wake-up for good.  *)
THEOREM NobodyStranded == Spec => []NoStrandedWaiter
<1>1. /\ ConnInv /\ ConnInv' /\ QueueInv /\ QueueInv' /\ RegInv /\ WriterInv /\ BytesInv /\ WakeInv
      /\ [Next]_vars
      => WakeInv'
  BY WakeInvStep
<1>2. ConnInv /\ QueueInv /\ WriterInv /\ BytesInv /\ ConnInv' /\ [Next]_vars => BytesInv'
  BY BytesInvStep
<1>3. ConnInv /\ ConnInv' /\ WriterInv /\ PathInv /\ [Next]_vars => PathInv'
  BY PathInvStep
<1>4. ConnInv /\ RegInv /\ WriterInv /\ PathInv /\ WakeInv => NoStrandedWaiter
  BY QuietHasCause DEF NoStrandedWaiter, SlotWaitersHaveCause, RoomWaitersHaveCause
<1> QED BY <1>1, <1>2, <1>3, <1>4, WakeInvInit, BytesInvInit, PathInvInit, RegInvariant, WriterInvariant, PTL
        DEF Spec
=============================================================================
