---------------------------- MODULE OutboundPath ----------------------------
(***************************************************************************)
(* Connection.kt, the outbound path: enqueue and its wait for room, the    *)
(* single writer of INLINE mode, the Channel and write loop of CHANNEL     *)
(* mode, and the socket under both.                                        *)
(***************************************************************************)
EXTENDS ConnectionState

-----------------------------------------------------------------------------
(* enqueue / enqueueForRequest *)

(* hasOutboundRoom / the check of awaitOutboundRoom: a mailbox slot in     *)
(* INLINE mode, and the byte budget; an empty path takes any legal packet. *)
HasRoom(c) ==
  /\ WriteMode = "CHANNEL" \/ Len(sendQueue) < MailboxCapacity
  /\ queuedBytes = 0 \/ queuedBytes + Bytes[c] <= MaxOutboundBytes

TooLarge(c) == Bytes[c] > MaxPayload \/ Bytes[c] > MaxOutboundBytes

(* checkOutboundSize throws PayloadTooLargeException. *)
EnqueueTooLarge(c) ==
  /\ Running(c, "enqueue")
  /\ TooLarge(c)
  /\ Finish(c, "tooLarge")
  /\ OnlyCaller /\ UNCHANGED <<running, registryVars>>

(* awaitOutboundRoom finds a settled request (nothing is queued, await()   *)
(* rethrows) or a closed connection.                                       *)
EnqueueAborted(c) ==
  /\ Running(c, "enqueue")
  /\ ~TooLarge(c)
  /\ closed \/ IsSettled(c)
  /\ IF IsSettled(c) THEN GoTo(c, "await") ELSE Finish(c, "closed")
  /\ OnlyCaller /\ UNCHANGED <<running, registryVars>>

Enqueuing(c) == Running(c, "enqueue") /\ ~TooLarge(c) /\ ~closed /\ ~IsSettled(c)

(* No room: suspend in roomWaiters (a cancelled caller throws instead). *)
EnqueueWait(c) ==
  /\ Enqueuing(c)
  /\ ~HasRoom(c)
  /\ IF c \in cancelled
       THEN Finish(c, "cancelled") /\ UNCHANGED <<running, roomVars>>
       ELSE /\ GoTo(c, "roomParked")
            /\ running' = Nobody
            /\ roomWaiters' = Append(roomWaiters, c)
            /\ roomCont' = IF c \in Requests THEN roomCont \cup {c} ELSE roomCont
  /\ UNCHANGED <<closed, ready, cancelled, registryVars, pathVars, ioVars, doubleResume>>

(* INLINE: queue the packet; without an active writer the caller becomes   *)
(* the writer (drainAsWriter sets writerActive first).                     *)
EnqueueInline(c) ==
  /\ Enqueuing(c)
  /\ HasRoom(c)
  /\ WriteMode = "INLINE"
  /\ queuedBytes' = queuedBytes + Bytes[c]
  /\ sendQueue' = Append(sendQueue, c)
  /\ accepted' = Append(accepted, c)
  /\ writerActive' = TRUE
  /\ IF writerActive THEN AfterEnqueue(c) ELSE GoTo(c, "drain")
  /\ UNCHANGED <<closed, running, ready, cancelled, registryVars, roomVars, buffer,
                 chanSenders, loopPacket, writeBuf, wire, doubleResume>>

(* CHANNEL: outbound.send / trySend with a parked write loop hands it the  *)
(* packet, and with room in the buffer stores it.                          *)
EnqueueChannel(c) ==
  /\ Enqueuing(c)
  /\ HasRoom(c)
  /\ WriteMode = "CHANNEL"
  /\ queuedBytes' = queuedBytes + Bytes[c]
  /\ accepted' = Append(accepted, c)
  /\ IF pc[Writer] = "recvParked" /\ loopPacket = Nobody
       THEN loopPacket' = c /\ ready' = Append(ready, Writer) /\ UNCHANGED buffer
       ELSE /\ Len(buffer) < MailboxCapacity
            /\ buffer' = Append(buffer, c)
            /\ UNCHANGED <<loopPacket, ready>>
  /\ AfterEnqueue(c)
  /\ UNCHANGED <<closed, running, cancelled, registryVars, roomVars, sendQueue,
                 writerActive, chanSenders, writeBuf, wire, doubleResume>>

(* CHANNEL with a full buffer: send() and sendRacingDeadline suspend, with *)
(* their bytes already counted.  A cancelled sendRacingDeadline gives them *)
(* back, a cancelled send() does not.                                      *)
EnqueueChannelFull(c) ==
  /\ Enqueuing(c)
  /\ HasRoom(c)
  /\ WriteMode = "CHANNEL"
  /\ ~(pc[Writer] = "recvParked" /\ loopPacket = Nobody)
  /\ Len(buffer) >= MailboxCapacity
  /\ IF c \in cancelled
       THEN /\ Finish(c, "cancelled")
            /\ queuedBytes' = IF c \in Requests THEN queuedBytes ELSE queuedBytes + Bytes[c]
            /\ UNCHANGED <<running, chanSenders>>
       ELSE /\ GoTo(c, "chanParked")
            /\ running' = Nobody
            /\ queuedBytes' = queuedBytes + Bytes[c]
            /\ chanSenders' = Append(chanSenders, c)
  /\ UNCHANGED <<closed, ready, cancelled, registryVars, roomVars, sendQueue, writerActive,
                 buffer, loopPacket, ioVars, doubleResume>>

-----------------------------------------------------------------------------
(* INLINE: drainAsWriter, by a caller or by the successor *)

(* The write buffer holds what a cancelled predecessor left: writeAll(). *)
DrainLeftover(c) ==
  /\ Running(c, "drain")
  /\ writeBuf # <<>>
  /\ running' = Nobody
  /\ GoTo(c, "write")
  /\ UNCHANGED <<closed, ready, cancelled, registryVars, roomVars, pathVars, ioVars, doubleResume>>

(* The next packet: its bytes are released before it is encoded. *)
DrainNext(c) ==
  /\ Running(c, "drain")
  /\ writeBuf = <<>>
  /\ ~closed /\ sendQueue # <<>>
  /\ sendQueue' = Tail(sendQueue)
  /\ ReleaseOutboundBytes(Bytes[Head(sendQueue)], ready)
  /\ writeBuf' = Encode(Head(sendQueue))
  /\ running' = Nobody
  /\ GoTo(c, "write")
  /\ UNCHANGED <<closed, cancelled, registryVars, roomCont, writerActive, buffer, chanSenders,
                 loopPacket, accepted, wire, doubleResume>>

(* The queue is empty, or the connection closed: no writer any more. *)
DrainDone(c) ==
  /\ Running(c, "drain")
  /\ writeBuf = <<>>
  /\ closed \/ sendQueue = <<>>
  /\ writerActive' = FALSE
  /\ AfterEnqueue(c)
  /\ running' = IF c = Writer THEN Nobody ELSE c
  /\ UNCHANGED <<closed, ready, cancelled, registryVars, roomVars, queuedBytes, sendQueue, buffer,
                 chanSenders, loopPacket, ioVars, doubleResume>>

(* A cancelled writer throws out of the socket write.  If packets or part  *)
(* of one are left and the connection is open, a successor is launched;    *)
(* writerActive and the write buffer are then `active' and `rest'.         *)
HandOff(c, active, rest) ==
  /\ running = Nobody
  /\ c \in cancelled /\ pc[c] = "write"
  /\ running' = c
  /\ IF ~closed /\ (writeBuf # <<>> \/ sendQueue # <<>>)
       THEN /\ pc' = [pc EXCEPT ![c] = "finally", ![Writer] = "start"]
            /\ ready' = Append(ready, Writer)
            /\ writerActive' = active
            /\ writeBuf' = rest
       ELSE /\ pc' = [pc EXCEPT ![c] = "finally"]
            /\ writerActive' = FALSE
            /\ UNCHANGED <<ready, writeBuf>>
  /\ outcome' = [outcome EXCEPT ![c] = "cancelled"]
  /\ UNCHANGED <<closed, cancelled, registryVars, roomVars, queuedBytes, sendQueue, buffer,
                 chanSenders, loopPacket, accepted, wire, doubleResume>>

(* The hand-off without the handedOff flag: finally clears writerActive. *)
WriteCancelledReleases(c) == HandOff(c, FALSE, writeBuf)

(* The hand-off that starts the successor with an empty buffer. *)
WriteCancelledDropsRest(c) == HandOff(c, writerActive, <<>>)

(* drainAsWriter's catch block: the successor inherits writerActive and    *)
(* the unwritten rest of the packet.                                       *)
WriteCancelled(c) == HandOff(c, writerActive, writeBuf)

-----------------------------------------------------------------------------
(* The socket *)

(* External: the peer's window lets one more chunk out. *)
SocketWrite ==
  /\ \E c \in Coroutines : pc[c] = "write"
  /\ ~closed
  /\ writeBuf # <<>>
  /\ wire' = Append(wire, Head(writeBuf))
  /\ writeBuf' = Tail(writeBuf)
  /\ UNCHANGED <<closed, reactorVars, registryVars, roomVars, pathVars, accepted, doubleResume>>

(* stream.write has written everything. *)
WriteDone(c) == running = Nobody /\ pc[c] = "write" /\ writeBuf = <<>>

(* stream.write returns, the buffer is cleared and the writer drains on.   *)
(* The write loop releases the bytes of its packet only now.               *)
WriteReturns(c) ==
  /\ WriteDone(c)
  /\ running' = c
  /\ IF WriteMode = "INLINE"
       THEN GoTo(c, "drain") /\ UNCHANGED <<ready, roomWaiters, queuedBytes, loopPacket>>
       ELSE /\ GoTo(c, "receive")
            /\ ReleaseOutboundBytes(Bytes[loopPacket], ready)
            /\ loopPacket' = Nobody
  /\ writeBuf' = <<>>
  /\ UNCHANGED <<closed, cancelled, registryVars, roomCont, sendQueue, writerActive, buffer,
                 chanSenders, accepted, wire, doubleResume>>

(* The write fails, on a reset socket or because shutdown() closed it: the *)
(* connection shuts down and the writer throws ConnectionClosedException.  *)
WriteFails(c) ==
  /\ running = Nobody
  /\ pc[c] = "write"
  /\ LET next == [pc EXCEPT ![c] = IF c = Writer THEN "idle" ELSE "finally"]
     IN  IF closed
           THEN /\ pc' = next
                /\ UNCHANGED <<closed, ready, cancelled, registryVars, roomVars, queuedBytes,
                               sendQueue, buffer, chanSenders, loopPacket, ioVars, doubleResume>>
           ELSE Shutdown(next)
  /\ writerActive' = FALSE
  /\ running' = IF c = Writer THEN Nobody ELSE c
  /\ outcome' = IF c = Writer THEN outcome ELSE [outcome EXCEPT ![c] = "closed"]

-----------------------------------------------------------------------------
(* CHANNEL: the write loop *)

(* The loop has a packet, from a hand-off or from the buffer; a sender     *)
(* suspended on the full buffer moves its packet in and is resumed.        *)
LoopTakes ==
  /\ Running(Writer, "receive")
  /\ loopPacket # Nobody \/ buffer # <<>>
  /\ running' = Nobody
  /\ IF loopPacket # Nobody
       THEN /\ writeBuf' = Encode(loopPacket)
            /\ GoTo(Writer, "write")
            /\ UNCHANGED <<loopPacket, buffer, chanSenders, ready, accepted>>
       ELSE /\ loopPacket' = Head(buffer)
            /\ writeBuf' = Encode(Head(buffer))
            /\ IF chanSenders = <<>>
                 THEN /\ buffer' = Tail(buffer)
                      /\ GoTo(Writer, "write")
                      /\ UNCHANGED <<chanSenders, ready, accepted>>
                 ELSE /\ buffer' = Append(Tail(buffer), Head(chanSenders))
                      /\ accepted' = Append(accepted, Head(chanSenders))
                      /\ chanSenders' = Tail(chanSenders)
                      /\ ready' = Append(ready, Head(chanSenders))
                      /\ pc' = [pc EXCEPT ![Writer] = "write", ![Head(chanSenders)] = "chanSent"]
                      /\ UNCHANGED outcome
  /\ UNCHANGED <<closed, cancelled, registryVars, roomVars, queuedBytes, sendQueue,
                 writerActive, wire, doubleResume>>

(* Nothing to write: the loop parks in receive. *)
LoopParks ==
  /\ Running(Writer, "receive")
  /\ loopPacket = Nobody /\ buffer = <<>>
  /\ running' = Nobody
  /\ GoTo(Writer, "recvParked")
  /\ UNCHANGED <<closed, ready, cancelled, registryVars, roomVars, pathVars, ioVars, doubleResume>>
=============================================================================
