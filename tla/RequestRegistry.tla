-------------------------- MODULE RequestRegistry ---------------------------
(***************************************************************************)
(* Connection.kt, the callers and the request registry: request() and      *)
(* send() from the call to the finally block, the in-flight slots, the     *)
(* deadline, responses and cancellation.                                   *)
(***************************************************************************)
EXTENDS ConnectionState

-----------------------------------------------------------------------------
(* The reactor resumes a coroutine.  A caller cancelled since its resume   *)
(* throws CancellationException, unless it was resumed with an exception.  *)

Resumed(c) == running = Nobody /\ ready # <<>> /\ c = Head(ready)

RunSlotWaiter(c) ==
  /\ pc[c] = "slotParked"
  /\ IF c \in cancelled THEN Finish(c, "cancelled") ELSE GoTo(c, "slot")

(* awaitOutboundRoom loops; shutdown() fails its waiters instead. *)
RunRoomWaiter(c) ==
  \/ /\ pc[c] = "roomParked"
     /\ IF c \in cancelled THEN Finish(c, "cancelled") ELSE GoTo(c, "enqueue")
  \/ pc[c] = "roomFailed" /\ Finish(c, "closed")

(* The parked await() returns the response or throws the failure.  A       *)
(* cancellation replaces a response that waits to be picked up, and a      *)
(* failure only if it came before it; which came first is not recorded.    *)
RunAwaiter(c) ==
  /\ pc[c] = "awaitParked"
  /\ \/ c \in cancelled /\ Finish(c, "cancelled")
     \/ settled[c] \in {"timeout", "closed"} /\ Finish(c, settled[c])
     \/ c \notin cancelled /\ settled[c] = "response" /\ Finish(c, settled[c])

(* The successor starts to drain; the write loop goes for a packet, unless *)
(* shutdown() has cancelled it.                                            *)
RunWriter(c) ==
  /\ c = Writer
  /\ \/ pc[c] = "start" /\ GoTo(c, "drain")
     \/ pc[c] \in {"receive", "recvParked"} /\ GoTo(c, "receive")

Run(c) ==
  /\ Resumed(c)
  /\ ready' = Tail(ready)
  /\ running' = c
  /\ RunSlotWaiter(c) \/ RunRoomWaiter(c) \/ RunAwaiter(c) \/ RunWriter(c)
  /\ roomCont' = IF pc[c] = "roomParked" /\ c \notin cancelled THEN roomCont \ {c} ELSE roomCont
  /\ UNCHANGED <<closed, cancelled, registryVars, roomWaiters, pathVars, ioVars, doubleResume>>

RunDead(c) ==
  /\ Resumed(c)
  /\ pc[c] = "dead"
  /\ ready' = Tail(ready)
  /\ UNCHANGED <<closed, running, pc, cancelled, outcome, registryVars, roomVars,
                 pathVars, ioVars, doubleResume>>

(* A caller that was suspended in the outbound Channel runs.  send() keeps *)
(* its bytes counted whatever happened; sendRacingDeadline gives them back *)
(* unless its onSend block ran, and a select that is cancelled after the   *)
(* channel took the packet does not run it.                                *)
RunChanWaiter(c) ==
  /\ Resumed(c)
  /\ pc[c] \in {"chanSent", "chanGate"}
  /\ running' = c
  /\ IF c \in cancelled THEN Finish(c, "cancelled") ELSE AfterEnqueue(c)
  /\ IF c \in Requests /\ (pc[c] = "chanGate" \/ c \in cancelled)
       THEN ReleaseOutboundBytes(Bytes[c], Tail(ready))
       ELSE ready' = Tail(ready) /\ UNCHANGED <<queuedBytes, roomWaiters>>
  /\ UNCHANGED <<closed, cancelled, registryVars, roomCont, sendQueue, writerActive,
                 buffer, chanSenders, loopPacket, ioVars, doubleResume>>

-----------------------------------------------------------------------------
(* request() and send(): from the call to the enqueue *)

(* requestOnOwner / sendOnOwner on a closed connection: check(!closed). *)
CallClosed(c) ==
  /\ running = Nobody /\ pc[c] = "idle"
  /\ closed
  /\ pc' = [pc EXCEPT ![c] = "done"]
  /\ outcome' = [outcome EXCEPT ![c] = "closed"]
  /\ OnlyCaller /\ UNCHANGED <<running, registryVars>>

(* send(): the message goes to enqueue. *)
Send(c) ==
  /\ running = Nobody /\ pc[c] = "idle"
  /\ ~closed
  /\ running' = c
  /\ GoTo(c, "enqueue")
  /\ OnlyCaller /\ UNCHANGED registryVars

(* nextRequestId() that wraps around instead of refusing. *)
RequestIdWraps(c) ==
  /\ running = Nobody /\ pc[c] = "idle"
  /\ ~closed
  /\ requestId' = (requestId % IdMax) + 1
  /\ id' = [id EXCEPT ![c] = requestId']
  /\ running' = c
  /\ GoTo(c, "slot")
  /\ OnlyCaller /\ UNCHANGED <<pending, settled, answer, inFlightWaiters, slotCont>>

(* request(): nextRequestId() refuses to wrap; the deadline is armed.      *)
Request(c) ==
  /\ running = Nobody /\ pc[c] = "idle"
  /\ ~closed
  /\ IF requestId = IdMax
       THEN /\ pc' = [pc EXCEPT ![c] = "done"]
            /\ outcome' = [outcome EXCEPT ![c] = "exhausted"]
            /\ UNCHANGED <<running, requestId, id>>
       ELSE /\ requestId' = requestId + 1
            /\ id' = [id EXCEPT ![c] = requestId + 1]
            /\ running' = c
            /\ GoTo(c, "slot")
  /\ OnlyCaller /\ UNCHANGED <<pending, settled, answer, inFlightWaiters, slotCont>>

SlotsFull == Cardinality(pending) >= MaxInFlight

(* requestOnOwner without the loop: a woken waiter takes the slot without  *)
(* looking again.                                                          *)
SlotTakenUnchecked(c) ==
  /\ Running(c, "slot")
  /\ ~closed /\ ~IsSettled(c)
  /\ pending' = {p \in pending : id[p] # id[c]} \cup {c}
  /\ GoTo(c, "enqueue")
  /\ OnlyCaller /\ UNCHANGED <<running, requestId, id, settled, answer, inFlightWaiters, slotCont>>

(* The slot loop ends with a free slot: pending[id] = req. *)
SlotTaken(c) ==
  /\ Running(c, "slot")
  /\ ~closed /\ ~IsSettled(c) /\ ~SlotsFull
  /\ pending' = {p \in pending : id[p] # id[c]} \cup {c}
  /\ GoTo(c, "enqueue")
  /\ OnlyCaller /\ UNCHANGED <<running, requestId, id, settled, answer, inFlightWaiters, slotCont>>

(* The slot loop ends on a settled request (it timed out, or shutdown()    *)
(* failed it) or on a closed connection.                                   *)
SlotRefused(c) ==
  /\ Running(c, "slot")
  /\ closed \/ IsSettled(c)
  /\ Finish(c, IF IsSettled(c) THEN settled[c] ELSE "closed")
  /\ OnlyCaller /\ UNCHANGED <<running, registryVars>>

(* No slot: the request suspends in inFlightWaiters.  A cancelled one does *)
(* not: its handler undoes the parking and the suspension throws.          *)
SlotWait(c) ==
  /\ Running(c, "slot")
  /\ ~closed /\ ~IsSettled(c) /\ SlotsFull
  /\ IF c \in cancelled
       THEN /\ Finish(c, "cancelled")
            /\ UNCHANGED <<running, inFlightWaiters, slotCont>>
       ELSE /\ GoTo(c, "slotParked")
            /\ running' = Nobody
            /\ inFlightWaiters' = Append(inFlightWaiters, c)
            /\ slotCont' = slotCont \cup {c}
  /\ OnlyCaller /\ UNCHANGED <<requestId, id, pending, settled, answer>>

-----------------------------------------------------------------------------
(* await() and the finally block *)

(* await() on a settled request returns or throws at once. *)
AwaitSettled(c) ==
  /\ Running(c, "await")
  /\ IsSettled(c)
  /\ Finish(c, settled[c])
  /\ OnlyCaller /\ UNCHANGED <<running, registryVars>>

AwaitParks(c) ==
  /\ Running(c, "await")
  /\ ~IsSettled(c)
  /\ IF c \in cancelled THEN Finish(c, "cancelled") /\ UNCHANGED running
                        ELSE GoTo(c, "awaitParked") /\ running' = Nobody
  /\ OnlyCaller /\ UNCHANGED registryVars

Return(c) == pc' = [pc EXCEPT ![c] = "done"] /\ running' = Nobody

(* The finally block that leaves the registry entry to the deadline. *)
FinallyKeepsEntry(c) ==
  /\ Running(c, "finally")
  /\ Return(c)
  /\ inFlightWaiters' = Without(inFlightWaiters, c)
  /\ OnlyCaller /\ UNCHANGED <<outcome, requestId, id, pending, settled, answer, slotCont>>

(* The finally block of requestOnOwner: the deadline is disposed, the      *)
(* waiter entry removed, and a slot still held is freed and passed on.     *)
Finally(c) ==
  /\ Running(c, "finally")
  /\ Return(c)
  /\ pending' = {p \in pending : id[p] # id[c]}
  /\ IF \E p \in pending : id[p] = id[c]
       THEN WakeOneInFlightWaiter(Without(inFlightWaiters, c), slotCont, ready)
       ELSE /\ inFlightWaiters' = Without(inFlightWaiters, c)
            /\ UNCHANGED <<slotCont, ready>>
  /\ UNCHANGED <<closed, cancelled, outcome, requestId, id, settled, answer, roomVars,
                 pathVars, ioVars, doubleResume>>

(* send() has no finally block. *)
SendReturns(c) ==
  /\ Running(c, "finally")
  /\ Return(c)
  /\ OnlyCaller /\ UNCHANGED <<outcome, registryVars>>

-----------------------------------------------------------------------------
(* Events: deadline, response, cancellation *)

(* The deadline without fail()'s isCompleted check. *)
DeadlineDueAnyway(r) ==
  /\ running = Nobody
  /\ r \in Timed
  /\ pc[r] \notin {"idle", "finally", "done"}

(* The timer of r is armed and r is not settled: fail() takes effect. *)
DeadlineDue(r) ==
  /\ running = Nobody
  /\ r \in Timed
  /\ pc[r] \notin {"idle", "finally", "done"}
  /\ settled[r] = "none"

(* Pending.run, the deadline.  It resumes whatever the request is parked   *)
(* on; a roomCont that wakeOneRoomWaiter has already resumed throws out of *)
(* the second resume, before wakeOneInFlightWaiter.                        *)
Deadline(r) ==
  /\ DeadlineDue(r)
  /\ settled' = [settled EXCEPT ![r] = "timeout"]
  /\ pending' = {p \in pending : id[p] # id[r]}
  /\ LET parked == r \in AwaitersIn({r}) \cup GatedIn({r}) \cup slotCont
                   \/ r \in roomCont \cap ToSet(roomWaiters)
         queue == IF parked THEN Append(ready, r) ELSE ready
     IN  IF r \in roomCont /\ r \notin ToSet(roomWaiters)
           THEN /\ doubleResume' = TRUE
                /\ ready' = queue
                /\ UNCHANGED <<roomVars, inFlightWaiters, slotCont>>
           ELSE /\ roomWaiters' = IF r \in roomCont THEN Without(roomWaiters, r) ELSE roomWaiters
                /\ roomCont' = roomCont \ {r}
                /\ WakeOneInFlightWaiter(inFlightWaiters, slotCont \ {r}, queue)
                /\ UNCHANGED doubleResume
  /\ chanSenders' = IF r \in GatedIn({r}) THEN Without(chanSenders, r) ELSE chanSenders
  /\ pc' = IF r \in GatedIn({r}) THEN [pc EXCEPT ![r] = "chanGate"] ELSE pc
  /\ UNCHANGED <<closed, running, cancelled, outcome, requestId, id, answer, queuedBytes,
                 sendQueue, writerActive, buffer, loopPacket, ioVars>>

(* The read loop has the response to the packet of r, from a peer that     *)
(* answers only what it has received whole.  The pending request with its  *)
(* id completes; a duplicate or late one finds none and is dropped (a      *)
(* stutter).                                                               *)
RecvResponse(r, p) ==
  /\ running = Nobody
  /\ ~closed
  /\ <<r, 2>> \in ToSet(wire)
  /\ p \in pending /\ id[p] = id[r]
  /\ pending' = pending \ {p}
  /\ settled' = [settled EXCEPT ![p] = IF @ = "none" THEN "response" ELSE @]
  /\ answer' = [answer EXCEPT ![p] = IF settled[p] = "none" THEN r ELSE @]
  /\ LET parked == p \in AwaitersIn({p}) \cup GatedIn({p})
     IN  WakeOneInFlightWaiter(inFlightWaiters, slotCont,
                               IF parked THEN Append(ready, p) ELSE ready)
  /\ chanSenders' = IF p \in GatedIn({p}) THEN Without(chanSenders, p) ELSE chanSenders
  /\ pc' = IF p \in GatedIn({p}) THEN [pc EXCEPT ![p] = "chanGate"] ELSE pc
  /\ UNCHANGED <<closed, running, cancelled, outcome, requestId, id, roomVars, queuedBytes,
                 sendQueue, writerActive, buffer, loopPacket, ioVars, doubleResume>>

(* The caller's Job is cancelled.  A continuation that is still suspended  *)
(* is taken out of its queue by its invokeOnCancellation handler and       *)
(* resumed; one that was already resumed is not touched.                   *)
Cancel(c) ==
  /\ running # c
  /\ c \in Cancellable \ cancelled
  /\ pc[c] \notin {"idle", "done"}
  /\ cancelled' = cancelled \cup {c}
  /\ LET inSlot == c \in slotCont
         inRoom == c \in ToSet(roomWaiters)
         inChan == pc[c] = "chanParked"
         inAwait == c \in Requests /\ c \in AwaitersIn({c} \cap Requests)
     IN  /\ inFlightWaiters' = IF inSlot THEN Without(inFlightWaiters, c) ELSE inFlightWaiters
         /\ slotCont' = slotCont \ {c}
         /\ roomWaiters' = IF inRoom THEN Without(roomWaiters, c) ELSE roomWaiters
         /\ roomCont' = IF inRoom THEN roomCont \ {c} ELSE roomCont
         /\ chanSenders' = IF inChan THEN Without(chanSenders, c) ELSE chanSenders
         /\ pc' = IF inChan THEN [pc EXCEPT ![c] = "chanGate"] ELSE pc
         /\ ready' = IF inSlot \/ inRoom \/ inChan \/ inAwait THEN Append(ready, c) ELSE ready
  /\ UNCHANGED <<closed, running, outcome, requestId, id, pending, settled, answer, queuedBytes,
                 sendQueue, writerActive, buffer, loopPacket, ioVars, doubleResume>>
=============================================================================
