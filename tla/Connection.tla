----------------------------- MODULE Connection -----------------------------
(***************************************************************************)
(* One connection of Connection.kt: its callers, its registry and its      *)
(* outbound path on the owning reactor, under deadlines, responses,        *)
(* cancellation, write errors and close().                                 *)
(***************************************************************************)
EXTENDS RequestRegistry, OutboundPath

(* close(), the peer's EOF, a read error, a protocol fault or a failing    *)
(* handler.                                                                *)
Close ==
  /\ running = Nobody
  /\ ~closed
  /\ Shutdown(pc)
  /\ UNCHANGED <<running, outcome, writerActive>>

-----------------------------------------------------------------------------
(* The reactor resumes what is ready and runs it to its next suspension. *)
Reactor ==
  \/ \E c \in Coroutines : Run(c) \/ RunDead(c)
  \/ \E r \in Requests : SlotTaken(r) \/ SlotRefused(r) \/ SlotWait(r)
  \/ \E c \in Callers : EnqueueTooLarge(c) \/ EnqueueAborted(c) \/ EnqueueWait(c)
                        \/ EnqueueInline(c) \/ EnqueueChannel(c) \/ EnqueueChannelFull(c)
                        \/ RunChanWaiter(c)
  \/ \E c \in Coroutines : DrainLeftover(c) \/ DrainNext(c) \/ DrainDone(c)
  \/ \E r \in Requests : AwaitSettled(r) \/ AwaitParks(r) \/ Finally(r)
  \/ \E c \in Senders : SendReturns(c)
  \/ LoopTakes \/ LoopParks

Next ==
  \/ Reactor
  \/ \E c \in Callers : CallClosed(c) \/ Cancel(c) \/ WriteCancelled(c)
  \/ \E c \in Senders : Send(c)
  \/ \E r \in Requests : Request(r) \/ Deadline(r)
  \/ \E r, p \in Requests : RecvResponse(r, p)
  \/ \E c \in Coroutines : WriteReturns(c) \/ WriteFails(c)
  \/ SocketWrite
  \/ Close

Spec == Init /\ [][Next]_vars

(* The reactor keeps running what is ready, timers fire, a finished write  *)
(* is reported, and a cancelled writer, which the CHANNEL write loop is by *)
(* shutdown(), gets its exception.  The peer need not read, answer or      *)
(* close, nobody need call, and a write on a socket that was closed need   *)
(* not be reported ("A closed fd is not reliably reported by the reactor").*)
Fairness ==
  /\ WF_vars(Reactor)
  /\ \A r \in Timed : WF_vars(Deadline(r))
  /\ \A c \in Coroutines : WF_vars(WriteReturns(c))
  /\ \A c \in Callers : WF_vars(WriteCancelled(c))
  /\ WF_vars(WriteMode = "CHANNEL" /\ closed /\ WriteFails(Writer))

FairSpec == Spec /\ Fairness

-----------------------------------------------------------------------------
(* Safety *)

(* "Max requests awaiting a response at once ... never unbounded": the     *)
(* registry never holds more than maxInFlightRequests, although the wait   *)
(* for a slot and the insertion are apart and every wake-up is spurious.   *)
InFlightBounded == Cardinality(pending) <= MaxInFlight

(* The packets whose bytes are on the outbound path. *)
Holding ==
  IF WriteMode = "INLINE" THEN ToSet(sendQueue)
  ELSE (ToSet(buffer) \cup ToSet(chanSenders) \cup {c \in Requests : pc[c] = "chanGate"}
          \cup {loopPacket}) \ {Nobody}

BytesExact == ~closed => queuedBytes = MapThenSumSet(LAMBDA c : Bytes[c], Holding)

(* queuedBytes is exactly "Bytes currently queued outbound", through every *)
(* order of enqueue, drain, deadline, hand-off and shutdown; in INLINE     *)
(* mode through cancellation too.                                          *)
BytesAccounted == (WriteMode = "CHANNEL" => cancelled = {}) => BytesExact

(* The outbound ceilings: the byte budget holds in both modes, the mailbox *)
(* count in INLINE mode and the Channel capacity in CHANNEL mode.          *)
OutboundBounded ==
  /\ queuedBytes <= MaxOutboundBytes
  /\ Len(sendQueue) <= MailboxCapacity
  /\ Len(buffer) <= MailboxCapacity

(* Only the write loop writes in CHANNEL mode, and it has a packet then.   *)
WriteLoopAlone ==
  WriteMode = "CHANNEL" =>
    /\ \A c \in Callers : pc[c] \notin {"drain", "write"}
    /\ pc[Writer] \notin {"start", "drain"}
    /\ pc[Writer] = "write" => loopPacket # Nobody

(* The inductive invariant behind the limits: the bytes a writer releases  *)
(* are those of a packet it holds.                                         *)
ConnInv == TypeOK /\ WriteLoopAlone /\ InFlightBounded /\ OutboundBounded

Draining == {c \in Coroutines : pc[c] \in {"start", "drain", "write"}}

(* "Exactly one coroutine drains sendQueue at a time": the writer, or the  *)
(* successor of a cancelled one, and writerActive says whether there is    *)
(* one.  An open connection with queued or half-written data has one.      *)
SingleWriter ==
  /\ \A c, d \in Draining : c = d
  /\ WriteMode = "INLINE" =>
       /\ writerActive <=> Draining # {}
       /\ ~closed /\ (sendQueue # <<>> \/ writeBuf # <<>>) => Draining # {}

EncodeAll(s) == FlattenSeq([i \in DOMAIN s |-> Encode(s[i])])

(* The socket sees whole packets in the order they were queued: what is    *)
(* written is a prefix of the queued packets, and while the connection is  *)
(* open the rest is still there ("a packet is never half-sent").           *)
WireIntact ==
  /\ IsPrefix(wire, EncodeAll(accepted))
  /\ ~closed =>
       LET handed == IF pc[Writer] # "write" /\ loopPacket # Nobody THEN <<loopPacket>> ELSE <<>>
       IN  wire \o writeBuf \o EncodeAll(handed \o buffer \o sendQueue) = EncodeAll(accepted)

(* "every one releases all resources exactly once": a call that returned,  *)
(* by whatever exit, is in no table or queue and nothing will resume it; a *)
(* closed connection has empty tables.                                     *)
Released ==
  /\ \A c \in Callers : pc[c] = "done" =>
       c \notin pending \cup slotCont \cup ToSet(inFlightWaiters) \cup ToSet(roomWaiters)
                  \cup ToSet(chanSenders) \cup ToSet(ready)
  /\ closed => /\ pending = {} /\ slotCont = {} /\ inFlightWaiters = <<>>
               /\ roomWaiters = <<>> /\ sendQueue = <<>> /\ queuedBytes = 0

(* All of this at once. *)
OutboundSafe == ConnInv /\ BytesAccounted /\ WireIntact /\ Released

(* A response completes the request it answers, never another one that was *)
(* given the same id, however late or often it arrives.                    *)
Correlated == \A r \in Requests : answer[r] \in {Nobody, r}

(* The abstract phase of a request: it holds an in-flight slot exactly     *)
(* while it is in the pending map.                                         *)
Phase(r) ==
  CASE pc[r] = "idle" -> "idle"
    [] pc[r] = "done" -> "returned"
    [] pc[r] \notin {"idle", "done"} /\ r \in pending -> "inFlight"
    [] pc[r] \notin {"idle", "done"} /\ r \notin pending /\ settled[r] # "none" -> "settled"
    [] OTHER -> "waiting"

Verdict(r) ==
  CASE pc[r] # "done" -> settled[r]
    [] pc[r] = "done" /\ id[r] = 0 -> "refused"
    [] OTHER -> outcome[r]

Lifecycle == INSTANCE RequestLifecycle
               WITH phase <- [r \in Requests |-> Phase(r)],
                    verdict <- [r \in Requests |-> Verdict(r)]

(* Connection keeps the lifecycle contract of RequestLifecycle. *)
RequestContract == Lifecycle!Spec

Quiet == running = Nobody /\ ready = <<>>

SlotWaitersHaveCause == Quiet /\ ~closed /\ slotCont # {} => SlotsFull

RoomWaitersHaveCause ==
  Quiet /\ ~closed /\ roomWaiters # <<>> =>
    IF WriteMode = "INLINE" THEN writerActive ELSE loopPacket # Nobody

(* A cancelled waiter, the stale queue entry of one that timed out and a   *)
(* deadline that throws may swallow a wake-up, see the README.             *)
Untroubled ==
  /\ cancelled = {} /\ ~doubleResume
  /\ Cardinality({r \in Requests : settled[r] = "timeout"}) <= 1

(* Nobody waits for an in-flight slot while one is free, or for outbound   *)
(* room while nothing is on the outbound path whose progress would wake    *)
(* it, with nothing about to run; with no cancellation, no double resume   *)
(* and at most one deadline so far.                                        *)
NoStrandedWaiter == Untroubled => SlotWaitersHaveCause /\ RoomWaitersHaveCause

(* The deadline never resumes a continuation that was resumed before. *)
NoDoubleResume == ~doubleResume

-----------------------------------------------------------------------------
(* Liveness *)

(* close() "fails all pending requests": it ends every call that was under *)
(* way, whether it waits for a slot, for outbound room, for its response   *)
(* or, a request, in the full channel, although a wake-up may have been    *)
(* lost with another call that was cancelled.  Two are not reached:        *)
(* the caller that became the INLINE writer, which its socket write holds, *)
(* and a send() suspended in the full channel; shutdown() cancels neither. *)
CloseEndsCalls ==
  closed ~> \A c \in Callers : \/ pc[c] \in {"idle", "write", "done"}
                               \/ c \in Senders /\ pc[c] = "chanParked"

(* The deadline "bounds the whole wait" of a request, also for a slot, for *)
(* outbound room and for the packet to get onto the outbound path: "a      *)
(* request cannot wait forever".                                           *)
DeadlineBoundsCall ==
  \A r \in Timed : (pc[r] # "idle") ~> (pc[r] = "done")
=============================================================================
