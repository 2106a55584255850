-------------------------- MODULE ConnectionState ---------------------------
(***************************************************************************)
(* Connection.kt: the callers of one connection, its pending-request       *)
(* registry and its outbound path, in both write modes.                    *)
(*                                                                         *)
(* Everything runs on the owning reactor thread, so a coroutine is atomic  *)
(* from one suspension point to the next: `running' is the coroutine the   *)
(* reactor is in.  Resuming a continuation only appends it to the          *)
(* reactor's FIFO run queue (`ready'); it runs later, after whatever       *)
(* happens in between: a deadline, a response, close(), a cancellation     *)
(* (kotlinx' prompt cancellation: a coroutine cancelled between its resume *)
(* and its run throws).  The socket moves one chunk of a packet at a time. *)
(*                                                                         *)
(* Each member of Requests is one request() call, each member of Senders   *)
(* one send() call or one response of the handler loop.                    *)
(***************************************************************************)
EXTENDS Integers, FiniteSets, Sequences, SequencesExt

CONSTANTS
  Requests, Senders,
  Timed,             \* requests with timeoutMillis > 0
  Cancellable,       \* callers whose Job may be cancelled
  WriteMode,         \* ConnectionConfig.writeMode: "INLINE" or "CHANNEL"
  MaxInFlight,       \* ConnectionConfig.maxInFlightRequests
  MailboxCapacity,   \* ConnectionConfig.mailboxCapacity
  MaxOutboundBytes,  \* ConnectionConfig.maxOutboundBytes
  MaxPayload,        \* ConnectionConfig.maxPayloadLength
  Bytes,             \* packetBytes: the encoded payload size of each call
  IdMax              \* UInt.MAX_VALUE

Callers == Requests \cup Senders

(* The coroutine that is not a caller: the write loop of CHANNEL mode, the *)
(* successor a cancelled writer launches in INLINE mode.                   *)
Writer == "writer"
Nobody == "nobody"
Coroutines == Callers \cup {Writer}

ASSUME CallersAssumption ==
  /\ IsFiniteSet(Requests) /\ IsFiniteSet(Senders)
  /\ Requests \cap Senders = {}
  /\ Writer \notin Callers /\ Nobody \notin Callers
  /\ Timed \subseteq Requests /\ Cancellable \subseteq Callers
ASSUME ModeAssumption == WriteMode \in {"INLINE", "CHANNEL"}
ASSUME LimitsAssumption ==
  /\ MaxInFlight \in Nat \ {0}
  /\ MailboxCapacity \in Nat \ {0}
  /\ MaxOutboundBytes \in Nat /\ MaxPayload \in Nat
  /\ Bytes \in [Callers -> Nat]
  /\ IdMax \in Nat

VARIABLES
  closed,
  \* the reactor and the coroutines
  running,          \* the coroutine the reactor is running, or Nobody
  ready,            \* resumed coroutines, in the order they were resumed
  pc,               \* where each coroutine is
  cancelled,        \* callers whose Job is cancelled
  outcome,          \* how each call ended ("none": not yet)
  \* the request registry
  requestId,        \* the last id nextRequestId() gave out
  id,               \* Pending.id
  pending,          \* requests in the pending map
  settled,          \* Pending.response / Pending.error
  answer,           \* whose response completed the request
  inFlightWaiters,  \* requests queued for an in-flight slot
  slotCont,         \* requests whose slotCont is not null
  \* the outbound path
  roomWaiters,      \* callers queued for outbound room
  roomCont,         \* requests whose roomCont is not null
  queuedBytes,
  sendQueue,        \* INLINE: callers whose packet is queued
  writerActive,     \* INLINE
  buffer,           \* CHANNEL: the buffer of the outbound Channel
  chanSenders,      \* CHANNEL: callers suspended in send or select onSend
  loopPacket,       \* CHANNEL: the packet the write loop holds
  writeBuf,         \* io.writeBuf: the chunks not yet written
  doubleResume,     \* Pending.run resumed a continuation a second time
  accepted, wire    \* history: packets queued, chunks on the socket

reactorVars == <<running, ready, pc, cancelled, outcome>>
registryVars == <<requestId, id, pending, settled, answer, inFlightWaiters, slotCont>>
roomVars == <<roomWaiters, roomCont>>
pathVars == <<queuedBytes, sendQueue, writerActive, buffer, chanSenders, loopPacket>>
ioVars == <<writeBuf, accepted, wire>>
vars == <<closed, reactorVars, registryVars, roomVars, pathVars, ioVars, doubleResume>>

Points == {"idle", "slot", "slotParked", "enqueue", "roomParked", "roomFailed",
           "chanParked", "chanSent", "chanGate", "drain", "write", "await",
           "awaitParked", "finally", "done",
           "start", "receive", "recvParked", "dead"}
Settlements == {"none", "response", "timeout", "closed"}
Outcomes == Settlements \cup {"sent", "cancelled", "tooLarge", "exhausted"}

ReactorType ==
  /\ running \in Coroutines \cup {Nobody}
  /\ ready \in Seq(Coroutines)
  /\ pc \in [Coroutines -> Points]
  /\ cancelled \subseteq Callers
  /\ outcome \in [Callers -> Outcomes]

RegistryType ==
  /\ requestId \in 0 .. IdMax
  /\ id \in [Requests -> 0 .. IdMax]
  /\ pending \subseteq Requests
  /\ settled \in [Requests -> Settlements]
  /\ answer \in [Requests -> Requests \cup {Nobody}]
  /\ inFlightWaiters \in Seq(Requests)
  /\ slotCont \subseteq Requests

RoomType == roomWaiters \in Seq(Callers) /\ roomCont \subseteq Requests

PathType ==
  /\ queuedBytes \in Nat
  /\ sendQueue \in Seq(Callers)
  /\ writerActive \in BOOLEAN
  /\ buffer \in Seq(Callers)
  /\ chanSenders \in Seq(Callers)
  /\ loopPacket \in Callers \cup {Nobody}

IoType ==
  /\ writeBuf \in Seq(Callers \X {1, 2})
  /\ accepted \in Seq(Callers)
  /\ wire \in Seq(Callers \X {1, 2})

FlagType == closed \in BOOLEAN /\ doubleResume \in BOOLEAN

TypeOK == ReactorType /\ RegistryType /\ RoomType /\ PathType /\ IoType /\ FlagType

(* start(): CHANNEL mode launches the write loop. *)
Init ==
  /\ closed = FALSE
  /\ running = Nobody
  /\ ready = IF WriteMode = "CHANNEL" THEN <<Writer>> ELSE <<>>
  /\ pc = [c \in Coroutines |->
             IF c = Writer /\ WriteMode = "CHANNEL" THEN "receive" ELSE "idle"]
  /\ cancelled = {}
  /\ outcome = [c \in Callers |-> "none"]
  /\ requestId = 0
  /\ id = [r \in Requests |-> 0]
  /\ pending = {}
  /\ settled = [r \in Requests |-> "none"]
  /\ answer = [r \in Requests |-> Nobody]
  /\ inFlightWaiters = <<>>
  /\ slotCont = {}
  /\ roomWaiters = <<>>
  /\ roomCont = {}
  /\ queuedBytes = 0
  /\ sendQueue = <<>>
  /\ writerActive = FALSE
  /\ buffer = <<>>
  /\ chanSenders = <<>>
  /\ loopPacket = Nobody
  /\ writeBuf = <<>>
  /\ doubleResume = FALSE
  /\ accepted = <<>>
  /\ wire = <<>>

-----------------------------------------------------------------------------
(* Helpers *)

IsSettled(c) == c \in Requests /\ settled[c] # "none"

(* The packet of c as the chunks codec.encode leaves in the write buffer. *)
Encode(c) == <<<<c, 1>>, <<c, 2>>>>

(* ArrayDeque.remove(e): a coroutine is at most once in a queue. *)
Without(s, e) ==
  IF \E i \in 1 .. Len(s) : s[i] = e
    THEN RemoveAt(s, CHOOSE i \in 1 .. Len(s) : s[i] = e)
    ELSE s

(* wakeOneInFlightWaiter() that wakes nobody. *)
WakeNobody(waiters, conts, queue) ==
  inFlightWaiters' = waiters /\ slotCont' = conts /\ ready' = queue

(* wakeOneInFlightWaiter() on the queue `waiters' with the continuations   *)
(* `conts': an entry whose slotCont is gone is taken out and wakes nobody. *)
(* `queue' is the run queue so far.                                        *)
WakeOneInFlightWaiter(waiters, conts, queue) ==
  IF waiters = <<>>
    THEN /\ inFlightWaiters' = waiters
         /\ slotCont' = conts
         /\ ready' = queue
    ELSE /\ inFlightWaiters' = Tail(waiters)
         /\ slotCont' = conts \ {Head(waiters)}
         /\ ready' = IF Head(waiters) \in conts THEN Append(queue, Head(waiters)) ELSE queue

(* releaseOutboundBytes() that wakes a waiter and keeps the bytes counted. *)
ReleaseKeepsBytes(bytes, queue) ==
  /\ UNCHANGED queuedBytes
  /\ IF roomWaiters = <<>>
       THEN UNCHANGED roomWaiters /\ ready' = queue
       ELSE roomWaiters' = Tail(roomWaiters) /\ ready' = Append(queue, Head(roomWaiters))

(* releaseOutboundBytes(bytes), clamped at zero, and wakeOneRoomWaiter(),  *)
(* which leaves the request's roomCont set.                                *)
ReleaseOutboundBytes(bytes, queue) ==
  /\ queuedBytes' = IF queuedBytes >= bytes THEN queuedBytes - bytes ELSE 0
  /\ IF roomWaiters = <<>>
       THEN UNCHANGED roomWaiters /\ ready' = queue
       ELSE roomWaiters' = Tail(roomWaiters) /\ ready' = Append(queue, Head(roomWaiters))

GoTo(c, p) == pc' = [pc EXCEPT ![c] = p] /\ UNCHANGED outcome

(* The caller leaves its body with result o; its finally block is next. *)
Finish(c, o) ==
  /\ pc' = [pc EXCEPT ![c] = "finally"]
  /\ outcome' = [outcome EXCEPT ![c] = o]

(* Behind enqueue/enqueueForRequest: a request awaits its response, send() *)
(* returns, the successor coroutine ends.                                  *)
AfterEnqueue(c) ==
  IF c \in Senders THEN Finish(c, "sent")
                   ELSE GoTo(c, IF c = Writer THEN "idle" ELSE "await")


Running(c, p) == running = c /\ pc[c] = p

(* What a step of the caller that stays on the reactor leaves alone. *)
OnlyCaller == UNCHANGED <<closed, cancelled, ready, roomVars, pathVars, ioVars, doubleResume>>

-----------------------------------------------------------------------------
(* shutdown() *)

(* fail()/complete() that records the result and resumes nobody. *)
NoAwaitersIn(S) == {}

(* fail()/complete() resumes a request parked in await(). *)
AwaitersIn(S) == {r \in S : settled[r] = "none" /\ pc[r] = "awaitParked" /\ r \notin cancelled}

(* fail()/complete() that leaves the gate alone. *)
NoneGatedIn(S) == {}

(* It also completes the gate of a request that races a full channel. *)
GatedIn(S) == {r \in S : settled[r] = "none" /\ pc[r] = "chanParked"}

(* shutdown() with `points' the program points of the coroutines before    *)
(* it: every pending request and every slot waiter fails, the queues are   *)
(* emptied, room waiters throw, the write loop is cancelled.  A caller     *)
(* suspended in the Channel without a gate stays there (at "chanParked"):  *)
(* closing a Channel does not resume its senders, and nobody receives from *)
(* it any more.  The order in which one shutdown() resumes its callers is  *)
(* left open.                                                              *)
Shutdown(points) ==
  LET failed == pending \cup ToSet(inFlightWaiters)
      gated == GatedIn(pending)
  IN  /\ closed' = TRUE
      /\ settled' = [r \in Requests |->
                       IF r \in failed /\ settled[r] = "none" THEN "closed" ELSE settled[r]]
      /\ pending' = {}
      /\ sendQueue' = <<>>
      /\ queuedBytes' = 0
      /\ roomWaiters' = <<>>
      /\ inFlightWaiters' = <<>>
      /\ slotCont' = slotCont \ ToSet(inFlightWaiters)
      /\ chanSenders' = <<>>
      /\ loopPacket' = Nobody
      /\ pc' = [c \in Coroutines |->
                  CASE c \in ToSet(roomWaiters) -> "roomFailed"
                    [] c \in gated -> "chanGate"
                    [] c = Writer /\ WriteMode = "CHANNEL" -> "dead"
                    [] OTHER -> points[c]]
      /\ \E order \in SetToSeqs(AwaitersIn(pending) \cup gated \cup ToSet(roomWaiters)
                                  \cup (slotCont \cap ToSet(inFlightWaiters))) :
           ready' = ready \o order
      /\ UNCHANGED <<cancelled, requestId, id, answer, roomCont, buffer, ioVars, doubleResume>>
=============================================================================
