-------------------------- MODULE WebSocketStream ---------------------------
(***************************************************************************)
(* WebSocketPacketStream of WebSocketTransport.kt: the connection's writer, *)
(* the keepalive and the closing handshake share one WebSocket under       *)
(* writeLock, beside the reader that the connection drives.  All run on    *)
(* one reactor; they interleave where they suspend.                        *)
(***************************************************************************)
EXTENDS Naturals, Sequences, SequencesExt

CONSTANTS
  MaxPackets,   \* bound of the model: packets the connection writes
  MaxWrite,     \* bound of the model: units in one write
  MaxCancels,   \* bound of the model: writes that are cancelled
  MaxInbox,     \* bound of the model: messages under way to the reader
  TooLong       \* the packets longer than maxMessageSize

ASSUME StreamAssumption ==
  /\ MaxPackets \in Nat /\ MaxWrite \in Nat /\ MaxCancels \in Nat
  /\ MaxInbox \in Nat \ {0}

Actors == {"writer", "keepalive", "closer"}
Nobody == "nobody"

(* Messages: a packet by its number, a ping, the Close frame. *)
Ping == 0
CloseFrame == MaxPackets + 1

VARIABLES
  pending,      \* bytes written and not fed: header and rest, <<p, 1>> and <<p, 2>>
  written,      \* units the connection wrote so far
  out,          \* messages fed to the WebSocket and not yet in the socket
  wire,         \* packets and the Close frame the socket took
  pinged,       \* a ping is on its way to the peer, or with it
  lock, queue,  \* writeLock: its holder and the coroutines waiting for it
  pc,           \* where each actor is
  ponged,       \* lastPong is not before the last ping's mark
  inbox,        \* messages on their way to the reader
  reader,       \* "reading", or "blocked" on the connection's full inbound queue
  alive,        \* the peer reads and answers
  closed, aborted,
  torn          \* history: how many writes were cancelled
vars == <<pending, written, out, wire, pinged, lock, queue, pc, ponged, inbox, reader,
          alive, closed, aborted, torn>>
outside == <<inbox, reader, alive>>

Init ==
  /\ pending = <<>> /\ written = 0 /\ out = <<>> /\ wire = <<>>
  /\ pinged = FALSE
  /\ lock = Nobody /\ queue = <<>>
  /\ pc = [writer |-> "idle", keepalive |-> "sleep", closer |-> "none"]
  /\ ponged = TRUE
  /\ inbox = <<>> /\ reader = "reading" /\ alive = TRUE
  /\ closed = FALSE /\ aborted = FALSE /\ torn = 0

Unit(n) == <<(n + 1) \div 2, IF n % 2 = 1 THEN 1 ELSE 2>>

(* A coroutine waits at most once. *)
Without(s, a) ==
  IF \E i \in 1 .. Len(s) : s[i] = a
    THEN RemoveAt(s, CHOOSE i \in 1 .. Len(s) : s[i] = a)
    ELSE s

(* writeLock.withLock: the lock is handed to the first waiter, and a       *)
(* coroutine that is cancelled waits no longer.                            *)
Acquire(a) ==
  IF lock = Nobody THEN lock' = a /\ UNCHANGED queue
  ELSE queue' = Append(queue, a) /\ UNCHANGED lock

Release(a) ==
  IF lock # a THEN queue' = Without(queue, a) /\ UNCHANGED lock
  ELSE IF queue = <<>> THEN lock' = Nobody /\ UNCHANGED queue
  ELSE lock' = Head(queue) /\ queue' = Tail(queue)

Goes(a, where) == pc' = [pc EXCEPT ![a] = where]

(* abort(): the connection is cut and the scope cancelled. *)
Abort ==
  closed' = TRUE /\ aborted' = TRUE

-----------------------------------------------------------------------------
(* The writer *)

(* write(): the bytes are taken over before the lock is. *)
Write(n) ==
  /\ pc["writer"] = "idle" /\ ~closed
  /\ written + n <= 2 * MaxPackets
  /\ pending' = pending \o [i \in 1 .. n |-> Unit(written + i)]
  /\ written' = written + n
  /\ Acquire("writer")
  /\ Goes("writer", "lock")
  /\ UNCHANGED <<out, wire, pinged, ponged, closed, aborted, torn, outside>>

(* The loop reads a header at the front of pending and cuts its packet off: *)
(* the headers it can read, the packets that are whole, and how many it    *)
(* feeds before it is out of packets or meets one that is too long.        *)
Header(i) == pending[2 * i - 1][1]
Begun == (Len(pending) + 1) \div 2
Whole == Len(pending) \div 2
Oversized == \E i \in 1 .. Begun : Header(i) \in TooLong
Sendable == CHOOSE k \in 0 .. Whole : /\ \A i \in 1 .. k : Header(i) \notin TooLong
                                      /\ k = Whole \/ Header(k + 1) \in TooLong

Cut(k) ==
  /\ out' = out \o [i \in 1 .. k |-> Header(i)]
  /\ pending' = SubSeq(pending, 2 * k + 1, Len(pending))

(* The WebSocket takes no message after its Close frame or abort(). *)
WsOpen == ~aborted /\ CloseFrame \notin ToSet(out) \cup ToSet(wire)

(* Feeds what this write brought only. *)
FeedNewest ==
  /\ pc["writer"] = "lock" /\ lock = "writer" /\ WsOpen
  /\ ~Oversized
  /\ out' = IF Whole = 0 THEN out ELSE Append(out, Header(Whole))
  /\ pending' = SubSeq(pending, 2 * Whole + 1, Len(pending))
  /\ IF Whole = 0 THEN Goes("writer", "idle") /\ Release("writer")
     ELSE Goes("writer", "flush") /\ UNCHANGED <<lock, queue>>
  /\ UNCHANGED <<written, wire, pinged, ponged, closed, aborted, torn, outside>>

FeedPackets ==
  /\ pc["writer"] = "lock" /\ lock = "writer" /\ WsOpen
  /\ ~Oversized
  /\ Cut(Whole)
  /\ IF Whole = 0 THEN Goes("writer", "idle") /\ Release("writer")
     ELSE Goes("writer", "flush") /\ UNCHANGED <<lock, queue>>
  /\ UNCHANGED <<written, wire, pinged, ponged, closed, aborted, torn, outside>>

(* Without a whole packet the WebSocket is not touched, closed or not. *)
FeedNothing ==
  /\ pc["writer"] = "lock" /\ lock = "writer" /\ ~WsOpen
  /\ ~Oversized /\ Whole = 0
  /\ Goes("writer", "idle") /\ Release("writer")
  /\ UNCHANGED <<pending, written, out, wire, pinged, ponged, closed, aborted, torn, outside>>

(* A packet too long for a message, or a WebSocket that is closed or cut:  *)
(* the write throws, and the connection shuts down; the slice a closed     *)
(* WebSocket refused stays in pending here, which nobody reads again.      *)
FeedThrows ==
  /\ pc["writer"] = "lock" /\ lock = "writer"
  /\ Oversized \/ (~WsOpen /\ Whole > 0)
  /\ IF WsOpen THEN Cut(Sendable) ELSE UNCHANGED <<out, pending>>
  /\ Goes("writer", "failed")
  /\ Release("writer")
  /\ UNCHANGED <<written, wire, pinged, ponged, closed, aborted, torn, outside>>

(* Does not wait for the flush. *)
WriteReturnsEarly ==
  /\ pc["writer"] = "flush"
  /\ Goes("writer", "idle") /\ Release("writer")
  /\ UNCHANGED <<pending, written, out, wire, pinged, ponged, closed, aborted, torn, outside>>

(* flush() returned: everything fed is in the socket. *)
WriteReturns ==
  /\ pc["writer"] = "flush" /\ out = <<>>
  /\ Goes("writer", "idle") /\ Release("writer")
  /\ UNCHANGED <<pending, written, out, wire, pinged, ponged, closed, aborted, torn, outside>>

WriteThrows ==
  /\ pc["writer"] = "flush" /\ aborted
  /\ Goes("writer", "failed") /\ Release("writer")
  /\ UNCHANGED <<pending, written, out, wire, pinged, ponged, closed, aborted, torn, outside>>

(* The writing coroutine is cancelled while it waits for the lock or in    *)
(* flush(); what it wrote stays where it is.                               *)
WriteCancelled ==
  /\ pc["writer"] \in {"lock", "flush"} /\ torn < MaxCancels
  /\ Goes("writer", "idle") /\ Release("writer")
  /\ torn' = torn + 1
  /\ UNCHANGED <<pending, written, out, wire, pinged, ponged, closed, aborted, outside>>

-----------------------------------------------------------------------------
(* The keepalive *)

(* The interval is over: mark the time, then take the lock. *)
PingDue ==
  /\ pc["keepalive"] = "sleep"
  /\ ponged' = FALSE
  /\ Acquire("keepalive")
  /\ Goes("keepalive", "lock")
  /\ UNCHANGED <<pending, written, out, wire, pinged, closed, aborted, torn, outside>>

FeedPing ==
  /\ pc["keepalive"] = "lock" /\ lock = "keepalive" /\ WsOpen
  /\ out' = Append(out, Ping)
  /\ Goes("keepalive", "flush")
  /\ UNCHANGED <<pending, written, wire, pinged, lock, queue, ponged, closed, aborted, torn, outside>>

(* Marks the time when the ping is out. *)
PingSentMarksLate ==
  /\ pc["keepalive"] = "flush" /\ out = <<>>
  /\ Goes("keepalive", "pong") /\ Release("keepalive")
  /\ ponged' = FALSE
  /\ UNCHANGED <<pending, written, out, wire, pinged, closed, aborted, torn, outside>>

PingSent ==
  /\ pc["keepalive"] = "flush" /\ out = <<>>
  /\ Goes("keepalive", "pong") /\ Release("keepalive")
  /\ UNCHANGED <<pending, written, out, wire, pinged, ponged, closed, aborted, torn, outside>>

(* The timeouts are long: when one fires nothing else is ready on the      *)
(* reactor, and a peer that is alive has read and answered.                *)
Settled ==
  /\ ~(reader = "reading" /\ inbox # <<>>)
  /\ alive => ~pinged
  /\ \A a \in Actors : /\ pc[a] = "lock" => lock # a
                       /\ pc[a] = "flush" => ~alive /\ out # <<>>
  /\ pc["keepalive"] # "cancelled"

(* The first timeout covers the lock and the flush. *)
PingTimeout ==
  /\ pc["keepalive"] \in {"lock", "flush"} /\ Settled
  /\ Goes("keepalive", "ended") /\ Release("keepalive")
  /\ Abort
  /\ UNCHANGED <<pending, written, out, wire, pinged, ponged, torn, outside>>

(* Goes on whether a pong came or not. *)
PongUnchecked ==
  /\ pc["keepalive"] = "pong" /\ Settled
  /\ Goes("keepalive", "sleep") /\ UNCHANGED <<closed, aborted>>
  /\ UNCHANGED <<pending, written, out, wire, pinged, lock, queue, ponged, torn, outside>>

(* The second one ends with the check of lastPong. *)
PongCheck ==
  /\ pc["keepalive"] = "pong" /\ Settled
  /\ IF ponged THEN Goes("keepalive", "sleep") /\ UNCHANGED <<closed, aborted>>
     ELSE Goes("keepalive", "ended") /\ Abort
  /\ UNCHANGED <<pending, written, out, wire, pinged, lock, queue, ponged, torn, outside>>

(* close() cancelled it; closed is set, so its finally aborts nothing. *)
KeepaliveCancelled ==
  /\ pc["keepalive"] = "cancelled"
  /\ Goes("keepalive", "ended") /\ Release("keepalive")
  /\ UNCHANGED <<pending, written, out, wire, pinged, ponged, closed, aborted, torn, outside>>

-----------------------------------------------------------------------------
(* The closing handshake *)

Close ==
  /\ ~closed
  /\ closed' = TRUE
  /\ pc' = [pc EXCEPT !["keepalive"] = IF @ = "ended" THEN @ ELSE "cancelled",
                      !["closer"] = "lock"]
  /\ Acquire("closer")
  /\ UNCHANGED <<pending, written, out, wire, pinged, ponged, aborted, torn, outside>>

FeedClose ==
  /\ pc["closer"] = "lock" /\ lock = "closer"
  /\ out' = Append(out, CloseFrame)
  /\ Goes("closer", "flush")
  /\ UNCHANGED <<pending, written, wire, pinged, lock, queue, ponged, closed, aborted, torn, outside>>

CloseSent ==
  /\ pc["closer"] = "flush" /\ out = <<>>
  /\ Goes("closer", "ended") /\ Release("closer")
  /\ Abort
  /\ UNCHANGED <<pending, written, out, wire, pinged, ponged, torn, outside>>

(* The timeout covers the flush only. *)
CloseTimeoutInFlush ==
  /\ pc["closer"] = "flush" /\ Settled
  /\ Goes("closer", "ended") /\ Release("closer")
  /\ Abort
  /\ UNCHANGED <<pending, written, out, wire, pinged, ponged, torn, outside>>

(* CLOSE_TIMEOUT, over lock and flush. *)
CloseTimeout ==
  /\ pc["closer"] \in {"lock", "flush"} /\ Settled
  /\ Goes("closer", "ended") /\ Release("closer")
  /\ Abort
  /\ UNCHANGED <<pending, written, out, wire, pinged, ponged, torn, outside>>

-----------------------------------------------------------------------------
(* The socket, the peer and the reader *)

(* The socket takes a message while somebody is in flush(). *)
SocketTakes ==
  /\ out # <<>> /\ ~aborted
  /\ \E a \in Actors : pc[a] = "flush"
  /\ out' = Tail(out)
  /\ IF Head(out) = Ping THEN pinged' = TRUE /\ UNCHANGED wire
     ELSE wire' = Append(wire, Head(out)) /\ UNCHANGED pinged
  /\ UNCHANGED <<pending, written, lock, queue, pc, ponged, closed, aborted, torn, outside>>

PeerPongs ==
  /\ alive /\ pinged
  /\ pinged' = FALSE
  /\ inbox' = Append(inbox, "pong")
  /\ UNCHANGED <<pending, written, out, wire, lock, queue, pc, ponged, reader, alive, closed, aborted, torn>>

PeerSends ==
  /\ alive /\ Len(inbox) < MaxInbox
  /\ inbox' = Append(inbox, "packet")
  /\ UNCHANGED <<pending, written, out, wire, pinged, lock, queue, pc, ponged, reader, alive, closed, aborted, torn>>

PeerDies ==
  /\ alive
  /\ alive' = FALSE
  /\ UNCHANGED <<pending, written, out, wire, pinged, lock, queue, pc, ponged, inbox, reader, closed, aborted, torn>>

(* read(): a packet returns to the read loop, which may find its queue     *)
(* full; a pong is noted and the next message received.                    *)
ReadPacket ==
  /\ reader = "reading" /\ ~aborted
  /\ inbox # <<>> /\ Head(inbox) = "packet"
  /\ inbox' = Tail(inbox)
  /\ reader' \in {"reading", "blocked"}
  /\ UNCHANGED <<pending, written, out, wire, pinged, lock, queue, pc, ponged, alive, closed, aborted, torn>>

ReadPong ==
  /\ reader = "reading" /\ ~aborted
  /\ inbox # <<>> /\ Head(inbox) = "pong"
  /\ inbox' = Tail(inbox)
  /\ ponged' = TRUE
  /\ UNCHANGED <<pending, written, out, wire, pinged, lock, queue, pc, reader, alive, closed, aborted, torn>>

HandlerTakes ==
  /\ reader = "blocked"
  /\ reader' = "reading"
  /\ UNCHANGED <<pending, written, out, wire, pinged, lock, queue, pc, ponged, inbox, alive, closed, aborted, torn>>

-----------------------------------------------------------------------------
(* The reactor resumes what is ready, each coroutine in turn. *)
WriterRuns == FeedPackets \/ FeedNothing \/ FeedThrows \/ WriteReturns \/ WriteThrows
KeepaliveRuns == FeedPing \/ PingSent \/ KeepaliveCancelled
CloserRuns == FeedClose \/ CloseSent
ReaderRuns == ReadPacket \/ ReadPong

Timers == PingDue \/ PingTimeout \/ PongCheck \/ CloseTimeout

Next ==
  \/ \E n \in 1 .. MaxWrite : Write(n)
  \/ WriteCancelled
  \/ Close
  \/ WriterRuns \/ KeepaliveRuns \/ CloserRuns \/ ReaderRuns \/ Timers
  \/ SocketTakes \/ PeerPongs \/ PeerSends \/ PeerDies \/ HandlerTakes

Spec == Init /\ [][Next]_vars

(* The reactor runs what is ready and its timers fire; a peer that is      *)
(* alive reads and answers.  Nobody need write, close or handle a request. *)
FairSpec ==
  /\ Spec
  /\ WF_vars(WriterRuns) /\ WF_vars(KeepaliveRuns) /\ WF_vars(CloserRuns) /\ WF_vars(ReaderRuns)
  /\ WF_vars(PingDue) /\ WF_vars(PingTimeout \/ PongCheck) /\ WF_vars(CloseTimeout)
  /\ WF_vars(alive /\ SocketTakes) /\ WF_vars(PeerPongs)

-----------------------------------------------------------------------------
PacketsIn(s) == ToSet(s) \cap 1 .. MaxPackets
Sent == wire \o out

(* "the bytes written are cut at packet boundaries ... however the bytes   *)
(* were split across writes": packets reach the WebSocket whole, in order, *)
(* once each and without loss, also those a cancelled write left behind,   *)
(* and nothing follows the Close frame.                                    *)
MessagesInOrder ==
  /\ \E n \in 0 .. MaxPackets :
       /\ PacketsIn(Sent) = 1 .. n /\ 2 * n <= written
       /\ pending = [i \in 1 .. written - 2 * n |-> Unit(2 * n + i)]
  /\ \A i, j \in DOMAIN Sent : i < j /\ Sent[j] \in 1 .. MaxPackets => Sent[i] < Sent[j]
  /\ \A i \in DOMAIN Sent : Sent[i] = CloseFrame => i = Len(Sent)

(* A write that returns has put every whole packet written so far into the *)
(* socket, also what a cancelled one left in pending or unflushed; without *)
(* a cancellation nothing waits for a later write.                         *)
WrittenMeansSent ==
  [][pc["writer"] \in {"lock", "flush"} /\ pc'["writer"] = "idle" /\ torn' = torn =>
       /\ ~\E i \in DOMAIN pending' : pending'[i][2] = 2
       /\ torn = 0 => PacketsIn(out') = {}
       /\ pc["writer"] = "flush" => PacketsIn(out') = {}]_vars

(* The keepalive and the close timeout cut a connection only when the peer *)
(* is not there, or when the inbound queue is full and the pong lies       *)
(* unread behind it.                                                       *)
LivePeerKept ==
  [][~aborted /\ aborted' /\ alive => reader = "blocked" \/ CloseFrame \in ToSet(wire)]_vars

(* "a ping not answered ... ends the session": a peer that is gone is      *)
(* noticed, whoever holds the lock and whatever the writer is stuck in.    *)
DeadPeerDetected == ~alive ~> aborted

(* "then the connection is closed whatever happened": close() ends in      *)
(* abort(), and a writer that was stuck is let go.                         *)
CloseEnds == closed ~> (aborted /\ pc["writer"] \in {"idle", "failed"})
=============================================================================
