------------------------------- MODULE Server -------------------------------
(***************************************************************************)
(* The way of an inbound connection through a server: the acceptors of the *)
(* TCP, WebSocket and QUIC transports, the accept loop of TransportServer  *)
(* and startConnection(), under slow and failing clients, close() of the   *)
(* acceptor and cancellation of the server's scope.                        *)
(***************************************************************************)
EXTENDS Naturals, FiniteSets

CONSTANTS
  Clients,
  Kinds,            \* the transports: "TCP", "TCPGroup", "WebSocket", "QUIC"
  MaxHandshakes,    \* maxConcurrentHandshakes of the WebSocket server
  MaxPending        \* maxPendingConnections of the WebSocket server

ASSUME ServerAssumption ==
  /\ Kinds \subseteq {"TCP", "TCPGroup", "WebSocket", "QUIC"}
  /\ MaxHandshakes \in Nat \ {0} /\ MaxPending \in Nat \ {0}

(* A client is away, in the backlog, incoming (QUIC: its coroutine is      *)
(* launched), in its handshake, waiting to open its stream (QUIC), ready   *)
(* for accept(), taken by a receive that has not run, a connection whose   *)
(* loops are launched, one whose loops run, closed, or abandoned: nothing  *)
(* in this code holds or closes it any more.                               *)
VARIABLES
  kind,
  phase,
  permits,      \* handshakes: free permits of the semaphore
  acceptor,     \* the transport's own coroutine: "permit", "accept" or "ended"
  listening,    \* the listening socket or endpoint is open
  down,         \* the acceptor's scope is cancelled
  closing,      \* close() was called
  loop,         \* acceptLoop(): "accept", "ended", or "thrown" by onConnection
  cancelled     \* the server's scope is cancelled
vars == <<kind, phase, permits, acceptor, listening, down, closing, loop, cancelled>>

In(p) == {c \in Clients : phase[c] = p}

Init ==
  /\ kind \in Kinds
  /\ phase = [c \in Clients |-> "away"]
  /\ permits = MaxHandshakes
  /\ acceptor = (CASE kind = "WebSocket" -> "permit"
                   [] kind = "QUIC" -> "accept"
                   [] kind \in {"TCP", "TCPGroup"} -> "ended")
  /\ listening = TRUE /\ down = FALSE /\ closing = FALSE
  /\ loop = "accept" /\ cancelled = FALSE

Becomes(c, p) == phase' = [phase EXCEPT ![c] = p]

(* Every client in one of these phases is cut off. *)
CutOff(ps) == phase' = [c \in Clients |-> IF phase[c] \in ps THEN "closed" ELSE phase[c]]

-----------------------------------------------------------------------------
(* Clients *)

Connect(c) ==
  /\ phase[c] = "away" /\ listening
  /\ Becomes(c, "backlog")
  /\ UNCHANGED <<kind, permits, acceptor, listening, down, closing, loop, cancelled>>

-----------------------------------------------------------------------------
(* The WebSocket acceptor: a permit first, then a connection, whose        *)
(* handshake is entered at once and gives the permit back when it ends.    *)
AcquirePermit ==
  /\ acceptor = "permit" /\ permits > 0 /\ ~down
  /\ permits' = permits - 1
  /\ acceptor' = "accept"
  /\ UNCHANGED <<kind, phase, listening, down, closing, loop, cancelled>>

AcceptTcp(c) ==
  /\ kind = "WebSocket" /\ acceptor = "accept" /\ listening /\ ~down
  /\ phase[c] = "backlog"
  /\ Becomes(c, "handshake")
  /\ acceptor' = "permit"
  /\ UNCHANGED <<kind, permits, listening, down, closing, loop, cancelled>>

(* accept() fails or is cancelled, or the wait for a permit is: the        *)
(* coroutine's finally closes the listener, the queue and the scope.       *)
AcceptorEnds ==
  /\ kind = "WebSocket" /\ acceptor # "ended"
  /\ down \/ acceptor = "accept"
  /\ acceptor' = "ended"
  /\ permits' = IF acceptor = "accept" THEN permits + 1 ELSE permits
  /\ listening' = FALSE /\ down' = TRUE
  /\ CutOff({"backlog", "ready"})
  /\ UNCHANGED <<kind, closing, loop, cancelled>>

(* handshake(): an upgrade that succeeds is queued, or aborted when the    *)
(* queue is full or closed.                                                *)
HandshakeDone(c) ==
  /\ kind = "WebSocket" /\ phase[c] = "handshake" /\ ~down
  /\ Becomes(c, IF Cardinality(In("ready")) < MaxPending THEN "ready" ELSE "closed")
  /\ permits' = permits + 1
  /\ UNCHANGED <<kind, acceptor, listening, down, closing, loop, cancelled>>

(* The permit comes back from a successful handshake only. *)
HandshakeEndsKeepsPermit(c) ==
  /\ kind = "WebSocket" /\ phase[c] = "handshake"
  /\ Becomes(c, "closed")
  /\ UNCHANGED <<kind, permits, acceptor, listening, down, closing, loop, cancelled>>

(* It fails, times out or is cancelled: the stream is closed. *)
HandshakeEnds(c) ==
  /\ kind = "WebSocket" /\ phase[c] = "handshake"
  /\ Becomes(c, "closed")
  /\ permits' = permits + 1
  /\ UNCHANGED <<kind, acceptor, listening, down, closing, loop, cancelled>>

-----------------------------------------------------------------------------

(* The QUIC acceptor: every incoming connection has a coroutine of its     *)
(* own, which waits for the handshake and then for the client's stream.    *)
AcceptIncoming(c) ==
  /\ kind = "QUIC" /\ acceptor = "accept" /\ listening /\ ~down
  /\ phase[c] = "backlog"
  /\ Becomes(c, "incoming")
  /\ UNCHANGED <<kind, permits, acceptor, listening, down, closing, loop, cancelled>>

QuicBegins(c) ==
  /\ kind = "QUIC" /\ phase[c] = "incoming" /\ ~down
  /\ Becomes(c, "handshake")
  /\ UNCHANGED <<kind, permits, acceptor, listening, down, closing, loop, cancelled>>

QuicHandshakeDone(c) ==
  /\ kind = "QUIC" /\ phase[c] = "handshake" /\ ~down
  /\ Becomes(c, "waiting")
  /\ UNCHANGED <<kind, permits, acceptor, listening, down, closing, loop, cancelled>>

(* The stream goes to the queue, which is closed once the acceptor ended. *)
StreamOpened(c) ==
  /\ kind = "QUIC" /\ phase[c] = "waiting" /\ ~down
  /\ Becomes(c, IF acceptor = "accept" THEN "ready" ELSE "closed")
  /\ UNCHANGED <<kind, permits, acceptor, listening, down, closing, loop, cancelled>>

(* The handshake fails, or acceptBi() does and the connection is closed. *)
QuicFails(c) ==
  /\ kind = "QUIC" /\ phase[c] \in {"handshake", "waiting"}
  /\ Becomes(c, "closed")
  /\ UNCHANGED <<kind, permits, acceptor, listening, down, closing, loop, cancelled>>

(* The coroutine is cancelled.  In acceptBi() it closes the connection; in *)
(* the handshake it has none to close, and before it began it never runs.  *)
QuicCancelled(c) ==
  /\ kind = "QUIC" /\ phase[c] \in {"incoming", "handshake", "waiting"} /\ down
  /\ Becomes(c, IF phase[c] = "waiting" THEN "closed" ELSE "abandoned")
  /\ UNCHANGED <<kind, permits, acceptor, listening, down, closing, loop, cancelled>>

(* endpoint.accept() is cancelled, or returns null since the endpoint has  *)
(* ended: the queue is closed, what is in it can still be received.        *)
QuicAcceptorEnds ==
  /\ kind = "QUIC" /\ acceptor = "accept"
  /\ acceptor' = "ended"
  /\ listening' = FALSE
  /\ CutOff({"backlog"})
  /\ UNCHANGED <<kind, permits, down, closing, loop, cancelled>>

(* endpoint.accept() throws: the failure cancels the coroutines of the     *)
(* clients, the acceptor's scope and the Job listen() was called under,    *)
(* which may be the server's.                                              *)
QuicAcceptorFails ==
  /\ kind = "QUIC" /\ acceptor = "accept" /\ ~down
  /\ acceptor' = "ended"
  /\ listening' = FALSE /\ down' = TRUE
  /\ CutOff({"backlog"})
  /\ cancelled' \in {cancelled, TRUE}
  /\ UNCHANGED <<kind, permits, closing, loop>>

-----------------------------------------------------------------------------
(* Leaves what is ready in its queue. *)
CloseKeepsReady ==
  /\ ~closing
  /\ closing' = TRUE /\ listening' = FALSE /\ down' = TRUE
  /\ CutOff({"backlog"})
  /\ UNCHANGED <<kind, permits, acceptor, loop, cancelled>>

(* close() of the acceptor: the listener, the acceptor's scope, the queue. *)
Close ==
  /\ ~closing
  /\ closing' = TRUE /\ listening' = FALSE /\ down' = TRUE
  /\ CutOff({"backlog", "ready"})
  /\ UNCHANGED <<kind, permits, acceptor, loop, cancelled>>

(* The server's scope is cancelled, and the accept loop with it. *)
CancelScope ==
  /\ ~cancelled
  /\ cancelled' = TRUE
  /\ UNCHANGED <<kind, phase, permits, acceptor, listening, down, closing, loop>>

-----------------------------------------------------------------------------
(* acceptLoop() *)

(* accept() is resumed with a stream; TCP takes it from the backlog. *)
Taken(c) ==
  /\ loop = "accept" /\ ~cancelled /\ In("taken") = {}
  /\ kind # "TCPGroup"
  /\ phase[c] = IF kind = "TCP" THEN "backlog" ELSE "ready"
  /\ kind = "TCP" => listening
  /\ Becomes(c, "taken")
  /\ UNCHANGED <<kind, permits, acceptor, listening, down, closing, loop, cancelled>>

(* A reactor of the group has a connection of its own to start. *)
TakenByReactor(c) ==
  /\ kind = "TCPGroup" /\ listening
  /\ phase[c] = "backlog"
  /\ Becomes(c, "taken")
  /\ UNCHANGED <<kind, permits, acceptor, listening, down, closing, loop, cancelled>>

(* The loop was cancelled before it ran: the queue's hook closes what was  *)
(* not delivered.  TCP has no queue here, and what its accept() does with  *)
(* the socket is the library's.                                            *)
Undelivered(c) ==
  /\ phase[c] = "taken" /\ cancelled /\ kind # "TCPGroup"
  /\ \E p \in {"closed"} \cup (IF kind = "TCP" THEN {"abandoned"} ELSE {}) : Becomes(c, p)
  /\ UNCHANGED <<kind, permits, acceptor, listening, down, closing, loop, cancelled>>

(* startConnection(): onConnection, then start() launches the loops.  A    *)
(* reactor of a group calls it outside the cancelled scope.                *)
StartConnection(c) ==
  /\ phase[c] = "taken" /\ (cancelled => kind = "TCPGroup")
  /\ Becomes(c, "launched")
  /\ UNCHANGED <<kind, permits, acceptor, listening, down, closing, loop, cancelled>>

(* onConnection throws: the connection is closed, and the loop goes on. *)
OnConnectionThrows(c) ==
  /\ phase[c] = "taken" /\ (cancelled => kind = "TCPGroup")
  /\ Becomes(c, "closed")
  /\ UNCHANGED <<kind, permits, acceptor, listening, down, closing, loop, cancelled>>

(* It throws a CancellationException, which startConnection() throws on:   *)
(* the accept loop ends with it, a reactor of a group drops the handler.   *)
OnConnectionCancels(c) ==
  /\ phase[c] = "taken" /\ (cancelled => kind = "TCPGroup")
  /\ Becomes(c, "closed")
  /\ loop' = IF kind = "TCPGroup" THEN loop ELSE "thrown"
  /\ UNCHANGED <<kind, permits, acceptor, listening, down, closing, cancelled>>

NoMoreStreams ==
  CASE kind \in {"TCP", "TCPGroup"} -> ~listening
    [] kind = "WebSocket" -> down
    [] kind = "QUIC" -> (closing \/ acceptor = "ended") /\ In("ready") = {}

(* accept() throws when the listener or the queue is closed, or the loop   *)
(* is cancelled.                                                           *)
LoopEnds ==
  /\ loop = "accept" /\ (kind # "TCPGroup" => In("taken") = {})
  /\ cancelled \/ NoMoreStreams
  /\ loop' = "ended"
  /\ UNCHANGED <<kind, phase, permits, acceptor, listening, down, closing, cancelled>>

-----------------------------------------------------------------------------
(* A connection *)

(* The launched loops are dispatched; a cancelled scope keeps them from    *)
(* ever beginning.                                                         *)
LoopsBegin(c) ==
  /\ phase[c] = "launched" /\ ~cancelled
  /\ Becomes(c, "running")
  /\ UNCHANGED <<kind, permits, acceptor, listening, down, closing, loop, cancelled>>

(* EOF, a fault, close(), or the cancelled scope: readLoop's finally runs  *)
(* shutdown().                                                             *)
ConnectionEnds(c) ==
  /\ phase[c] = "running"
  /\ Becomes(c, "closed")
  /\ UNCHANGED <<kind, permits, acceptor, listening, down, closing, loop, cancelled>>

-----------------------------------------------------------------------------
Next ==
  \/ \E c \in Clients :
       \/ Connect(c)
       \/ AcceptTcp(c) \/ HandshakeDone(c) \/ HandshakeEnds(c)
       \/ AcceptIncoming(c) \/ QuicBegins(c) \/ QuicHandshakeDone(c) \/ StreamOpened(c)
       \/ QuicFails(c) \/ QuicCancelled(c)
       \/ Taken(c) \/ TakenByReactor(c) \/ Undelivered(c)
       \/ StartConnection(c) \/ OnConnectionThrows(c) \/ OnConnectionCancels(c)
       \/ LoopsBegin(c) \/ ConnectionEnds(c)
  \/ AcquirePermit \/ AcceptorEnds \/ QuicAcceptorEnds \/ QuicAcceptorFails
  \/ Close \/ CancelScope \/ LoopEnds

(* The reactor runs what is ready, the listener hands out what is in the   *)
(* backlog, handshakeTimeout ends a WebSocket handshake, and cancellation  *)
(* is delivered.  No client need finish its handshake or open its stream.  *)
Fairness ==
  /\ WF_vars(AcquirePermit) /\ WF_vars(down /\ AcceptorEnds) /\ WF_vars(down /\ QuicAcceptorEnds)
  /\ WF_vars(LoopEnds)
  /\ \A c \in Clients :
       /\ WF_vars(AcceptTcp(c)) /\ WF_vars(AcceptIncoming(c))
       /\ WF_vars(HandshakeEnds(c)) /\ WF_vars(QuicBegins(c)) /\ WF_vars(QuicCancelled(c))
       /\ WF_vars(Taken(c)) /\ WF_vars(TakenByReactor(c)) /\ WF_vars(Undelivered(c))
       /\ WF_vars(StartConnection(c) \/ OnConnectionThrows(c) \/ OnConnectionCancels(c))
       /\ WF_vars(LoopsBegin(c)) /\ WF_vars(cancelled /\ ConnectionEnds(c))

Spec == Init /\ [][Next]_vars /\ Fairness

-----------------------------------------------------------------------------
(* "Maximum simultaneous handshakes", "overflow connections are aborted":  *)
(* every permit is free, held by the acceptor or held by a handshake under *)
(* way, through failure, timeout and cancellation, and the queue keeps its *)
(* bound.  A permit that does not come back ends the server in the end.    *)
HandshakesAccounted ==
  kind = "WebSocket" =>
    /\ permits + Cardinality(In("handshake")) + (IF acceptor = "accept" THEN 1 ELSE 0)
         = MaxHandshakes
    /\ Cardinality(In("ready")) <= MaxPending


(* close() stops accepting: no client is handed out any more. *)
NothingHandedOut ==
  [][closing => \A c \in Clients : phase'[c] = "taken" => phase[c] = "taken"]_vars

(* "Stop accepting; sessions already handed out carry on": after close()   *)
(* none is handed out, the accept loop ends, and every client that was not *)
(* handed out is closed, wherever it was.  The exception is a QUIC client  *)
(* whose handshake is not over: its coroutine ends and leaves it.          *)
CloseReleases ==
  /\ NothingHandedOut
  /\ closing ~> (loop # "accept")
  /\ \A c \in Clients :
       /\ (closing /\ phase[c] \in {"backlog", "waiting", "ready"}) ~> (phase[c] = "closed")
       /\ (closing /\ phase[c] \in {"incoming", "handshake"})
            ~> (phase[c] = "closed" \/ (kind = "QUIC" /\ phase[c] = "abandoned"))

(* "Cancelling [scope] still tears down every connection on every          *)
(* reactor": also one that onConnection has just configured, whose loops   *)
(* have been launched and have not begun.                                  *)
CancelTearsDown ==
  \A c \in Clients : (cancelled /\ phase[c] \in {"launched", "running"}) ~> (phase[c] = "closed")
=============================================================================
