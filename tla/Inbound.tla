------------------------------ MODULE Inbound -------------------------------
(***************************************************************************)
(* Connection.kt, the inbound side: the read loop, the handler loop and    *)
(* the queue between them.  The queue is used through its contract         *)
(* (BoundedChannel, which ReactorQueue implements): a loop that would be   *)
(* parked in it is a loop whose step is not enabled.  The handler is       *)
(* business code: it may take its time, call back through request() on the *)
(* same connection (a reverse request), fail, or return.                   *)
(*                                                                         *)
(* Inbound requests are numbered in the order the peer sends them.         *)
(***************************************************************************)
EXTENDS Naturals, Sequences

CONSTANTS
  InboundCapacity,  \* ConnectionConfig.inboundCapacity
  FirstRequired,    \* is requiredFirstRequestBizType set?
  MaxRequests, MaxOneWays, MaxReverse   \* bounds on what is sent

ASSUME InboundAssumption ==
  /\ InboundCapacity \in Nat \ {0}
  /\ FirstRequired \in BOOLEAN
  /\ MaxRequests \in Nat /\ MaxOneWays \in Nat /\ MaxReverse \in Nat

VARIABLES
  stream,           \* packets the peer has sent and the read loop not read
  asked,            \* how many requests the peer has sent
  notified,         \* how many one-way messages the peer has sent
  answered,         \* how many reverse requests the peer has answered
  eof,              \* the peer has closed its end, or spoken garbage
  firstInbound,     \* firstInboundPacket
  reader,           \* where the read loop is
  inboundRequests,  \* the queue
  inboundEvents,    \* number of messages in the events channel
  handler,          \* where the handler loop is
  current,          \* the request being handed over or handled (0: none)
  calls,            \* how many reverse requests the handler has issued
  closed,
  read, taken, replies,   \* history: requests queued, handled, answered
  delivered,              \* history: what reached the application
  opening                 \* history: the first packet the peer sent

wireVars == <<stream, asked, notified, answered, eof, opening>>
readVars == <<firstInbound, reader, read>>
handlerVars == <<handler, current, calls, taken, replies>>
vars == <<wireVars, readVars, inboundRequests, inboundEvents, handlerVars, closed, delivered>>

(* biz: does the packet carry the biz type requiredFirstRequestBizType?    *)
Packets == [type : {"Request", "Response", "OneWay"}, n : Nat, biz : BOOLEAN]
Packet(type, n, biz) == [type |-> type, n |-> n, biz |-> biz]

(* opening as long as the peer has sent nothing. *)
Unsent == Packet("none", 0, FALSE)

TypeOK ==
  /\ stream \in Seq(Packets)
  /\ asked \in 0 .. MaxRequests /\ notified \in 0 .. MaxOneWays
  /\ calls \in 0 .. MaxReverse /\ answered \in 0 .. calls
  /\ eof \in BOOLEAN /\ firstInbound \in BOOLEAN /\ closed \in BOOLEAN
  /\ reader \in {"reading", "putting", "emitting", "ended"}
  /\ inboundRequests \in Seq(1 .. MaxRequests)
  /\ inboundEvents \in 0 .. InboundCapacity
  /\ handler \in {"waiting", "woken", "handling", "reverse", "replying", "writing", "ended"}
  /\ current \in 0 .. MaxRequests
  /\ read \in 0 .. MaxRequests
  /\ taken \in 0 .. MaxRequests
  /\ replies \in Seq(1 .. MaxRequests)
  /\ delivered \subseteq {"Request", "Response", "OneWay"}
  /\ opening \in Packets \cup {Unsent}

(* start() launches the handler loop first: it is parked in receive() when *)
(* the read loop reads its first packet.                                   *)
Init ==
  /\ stream = <<>>
  /\ asked = 0 /\ notified = 0 /\ answered = 0
  /\ eof = FALSE
  /\ firstInbound = TRUE
  /\ reader = "reading"
  /\ inboundRequests = <<>>
  /\ inboundEvents = 0
  /\ handler = "waiting"
  /\ current = 0
  /\ calls = 0
  /\ closed = FALSE
  /\ read = 0 /\ taken = 0
  /\ replies = <<>>
  /\ delivered = {}
  /\ opening = Unsent

-----------------------------------------------------------------------------
(* External: the peer *)

Arrives(p) ==
  /\ stream' = Append(stream, p)
  /\ opening' = IF opening = Unsent THEN p ELSE opening

PeerRequests(biz) ==
  /\ ~eof /\ asked < MaxRequests
  /\ asked' = asked + 1
  /\ Arrives(Packet("Request", asked + 1, biz))
  /\ UNCHANGED <<notified, answered, eof, readVars, inboundRequests, inboundEvents,
                 handlerVars, closed, delivered>>

PeerNotifies ==
  /\ ~eof /\ notified < MaxOneWays
  /\ notified' = notified + 1
  /\ Arrives(Packet("OneWay", notified + 1, FALSE))
  /\ UNCHANGED <<asked, answered, eof, readVars, inboundRequests, inboundEvents,
                 handlerVars, closed, delivered>>

PeerAnswers ==
  /\ ~eof /\ answered < calls
  /\ answered' = answered + 1
  /\ Arrives(Packet("Response", answered + 1, FALSE))
  /\ UNCHANGED <<asked, notified, eof, readVars, inboundRequests, inboundEvents,
                 handlerVars, closed, delivered>>

PeerEnds ==
  /\ ~eof
  /\ eof' = TRUE
  /\ UNCHANGED <<stream, asked, notified, answered, opening, readVars, inboundRequests, inboundEvents,
                 handlerVars, closed, delivered>>

-----------------------------------------------------------------------------
(* shutdown(), as far as the two loops see it: the queues are closed, a    *)
(* reverse request fails, and both loops are cancelled; they run later.    *)
Shutdown ==
  /\ closed' = TRUE
  /\ handler' = IF handler = "reverse" THEN "handling" ELSE handler
  /\ UNCHANGED <<current, calls, taken, replies>>

(* close(), from any caller. *)
Close ==
  /\ ~closed
  /\ Shutdown
  /\ UNCHANGED <<wireVars, readVars, inboundRequests, inboundEvents, delivered>>

-----------------------------------------------------------------------------
(* readLoop *)

Reading == reader = "reading" /\ ~closed /\ stream # <<>>

(* A first-packet rule that does not look at the biz type. *)
AdmitsAnyRequest(p) == FirstRequired /\ firstInbound => p.type = "Request"

(* The first packet must be a Request of the required biz type. *)
Admits(p) == FirstRequired /\ firstInbound => p.type = "Request" /\ p.biz

(* EOF, a read error, or a packet that does not decode or decompress: the *)
(* loop ends in shutdown().                                                *)
ReadFails ==
  /\ reader = "reading" /\ ~closed
  /\ eof
  /\ reader' = "ended"
  /\ Shutdown
  /\ UNCHANGED <<wireVars, firstInbound, read, inboundRequests, inboundEvents, delivered>>

(* A first packet that is not admitted ends the loop the same way. *)
RejectFirst ==
  /\ Reading /\ ~Admits(Head(stream))
  /\ firstInbound' = FALSE
  /\ reader' = "ended"
  /\ Shutdown
  /\ UNCHANGED <<wireVars, read, inboundRequests, inboundEvents, delivered>>

(* A Response delivered by the handler loop, between two requests. *)
ReadResponseInTurn ==
  /\ Reading
  /\ Head(stream).type = "Response" /\ Admits(Head(stream))
  /\ handler = "waiting"
  /\ stream' = Tail(stream)
  /\ firstInbound' = FALSE
  /\ delivered' = delivered \cup {"Response"}
  /\ UNCHANGED <<asked, notified, answered, eof, opening, reader, read, inboundRequests, inboundEvents,
                 handlerVars, closed>>

(* A Response completes the pending reverse request with its id, at once;  *)
(* one without a pending request is dropped.                               *)
ReadResponse ==
  /\ Reading
  /\ Head(stream).type = "Response" /\ Admits(Head(stream))
  /\ stream' = Tail(stream)
  /\ firstInbound' = FALSE
  /\ IF handler = "reverse" /\ Head(stream).n = calls
       THEN handler' = "handling" /\ delivered' = delivered \cup {"Response"}
       ELSE UNCHANGED <<handler, delivered>>
  /\ UNCHANGED <<asked, notified, answered, eof, opening, reader, read, inboundRequests, inboundEvents,
                 current, calls, taken, replies, closed>>

(* A Request goes to inboundRequests.send, a OneWay to inboundEvents.send. *)
ReadMessage ==
  /\ Reading
  /\ Head(stream).type # "Response" /\ Admits(Head(stream))
  /\ firstInbound' = FALSE
  /\ reader' = IF Head(stream).type = "Request" THEN "putting" ELSE "emitting"
  /\ UNCHANGED <<wireVars, read, inboundRequests, inboundEvents, handlerVars, closed, delivered>>

(* inboundRequests.send into a queue without a bound. *)
PutUnbounded ==
  /\ reader = "putting" /\ ~closed
  /\ reader' = "reading"
  /\ stream' = Tail(stream)
  /\ read' = read + 1
  /\ IF handler = "waiting"
       THEN handler' = "woken" /\ current' = read + 1 /\ UNCHANGED inboundRequests
       ELSE inboundRequests' = Append(inboundRequests, read + 1) /\ UNCHANGED <<handler, current>>
  /\ UNCHANGED <<asked, notified, answered, eof, opening, firstInbound, inboundEvents, calls, taken,
                 replies, closed, delivered>>

(* inboundRequests.send: to the waiting handler loop or into the queue;    *)
(* while the queue is full the read loop is suspended.                     *)
PutRequest ==
  /\ reader = "putting" /\ ~closed
  /\ reader' = "reading"
  /\ stream' = Tail(stream)
  /\ read' = read + 1
  /\ IF handler = "waiting"
       THEN handler' = "woken" /\ current' = read + 1 /\ UNCHANGED inboundRequests
       ELSE /\ Len(inboundRequests) < InboundCapacity
            /\ inboundRequests' = Append(inboundRequests, read + 1)
            /\ UNCHANGED <<handler, current>>
  /\ UNCHANGED <<asked, notified, answered, eof, opening, firstInbound, inboundEvents, calls, taken,
                 replies, closed, delivered>>

(* inboundEvents.send: suspended while the application does not collect.   *)
EmitEvent ==
  /\ reader = "emitting" /\ ~closed
  /\ inboundEvents < InboundCapacity
  /\ reader' = "reading"
  /\ stream' = Tail(stream)
  /\ inboundEvents' = inboundEvents + 1
  /\ delivered' = delivered \cup {"OneWay"}
  /\ UNCHANGED <<asked, notified, answered, eof, opening, firstInbound, read, inboundRequests,
                 handlerVars, closed>>

(* The application collects from events(). *)
CollectEvent ==
  /\ inboundEvents > 0
  /\ inboundEvents' = inboundEvents - 1
  /\ UNCHANGED <<wireVars, readVars, inboundRequests, handlerVars, closed, delivered>>

(* The read loop finds its read, its send or itself closed or cancelled.   *)
ReaderEnds ==
  /\ closed /\ reader # "ended"
  /\ reader' = "ended"
  /\ UNCHANGED <<wireVars, firstInbound, read, inboundRequests, inboundEvents, handlerVars,
                 closed, delivered>>

-----------------------------------------------------------------------------
(* handlerLoop *)

(* The loop that was parked in receive() runs: it was handed a request,    *)
(* which it handles also when shutdown() came in between.                  *)
TakeHanded ==
  /\ handler = "woken"
  /\ handler' = "handling"
  /\ taken' = taken + 1
  /\ delivered' = delivered \cup {"Request"}
  /\ UNCHANGED <<wireVars, readVars, inboundRequests, inboundEvents, current, calls, replies,
                 closed>>

(* enqueue has returned and the loop receives again: the head of the       *)
(* queue, which a closed queue still gives out; if it is empty the loop    *)
(* ends (closed) or parks.                                                 *)
Receive ==
  /\ handler = "writing"
  /\ IF inboundRequests # <<>>
       THEN /\ handler' = "handling"
            /\ current' = Head(inboundRequests)
            /\ inboundRequests' = Tail(inboundRequests)
            /\ taken' = taken + 1
            /\ delivered' = delivered \cup {"Request"}
       ELSE /\ handler' = IF closed THEN "ended" ELSE "waiting"
            /\ current' = 0
            /\ UNCHANGED <<inboundRequests, taken, delivered>>
  /\ UNCHANGED <<wireVars, readVars, inboundEvents, calls, replies, closed>>

(* The handler issues a reverse request without a deadline and awaits it. *)
CallBack ==
  /\ handler = "handling" /\ ~closed
  /\ calls < MaxReverse
  /\ calls' = calls + 1
  /\ handler' = "reverse"
  /\ UNCHANGED <<wireVars, readVars, inboundRequests, inboundEvents, current, taken, replies,
                 closed, delivered>>

HandlerReturns ==
  /\ handler = "handling"
  /\ handler' = "replying"
  /\ UNCHANGED <<wireVars, readVars, inboundRequests, inboundEvents, current, calls, taken,
                 replies, closed, delivered>>

(* The handler throws, its response is too large, or the write of it       *)
(* fails: the loop ends in shutdown().                                     *)
HandlerFails ==
  /\ handler \in {"handling", "replying", "writing"} /\ ~closed
  /\ handler' = "ended"
  /\ closed' = TRUE
  /\ UNCHANGED <<wireVars, readVars, inboundRequests, inboundEvents, current, calls, taken,
                 replies, delivered>>

(* enqueue that takes backpressure for a lost response and tries again. *)
ReplyAgain ==
  /\ handler = "replying" /\ ~closed
  /\ Len(replies) < MaxRequests
  /\ replies' = Append(replies, current)
  /\ handler' \in {"writing", "replying"}
  /\ UNCHANGED <<wireVars, readVars, inboundRequests, inboundEvents, current, calls, taken,
                 closed, delivered>>

(* enqueue puts the response on the outbound path, once there is room.     *)
(* Before it returns it may be suspended in the channel or in the write.   *)
Reply ==
  /\ handler = "replying" /\ ~closed
  /\ replies' = Append(replies, current)
  /\ handler' = "writing"
  /\ UNCHANGED <<wireVars, readVars, inboundRequests, inboundEvents, current, calls, taken,
                 closed, delivered>>

(* The cancellation reaches a loop that is parked in its queue only. *)
HandlerEndsIdle ==
  /\ closed /\ handler = "waiting"
  /\ handler' = "ended"
  /\ UNCHANGED <<wireVars, readVars, inboundRequests, inboundEvents, current, calls, taken,
                 replies, closed, delivered>>

(* A closed queue returns null, a suspended handler or enqueue throws. *)
HandlerEnds ==
  /\ closed /\ handler \notin {"woken", "ended"}
  /\ handler' = "ended"
  /\ UNCHANGED <<wireVars, readVars, inboundRequests, inboundEvents, current, calls, taken,
                 replies, closed, delivered>>

-----------------------------------------------------------------------------
Reader ==
  \/ ReadFails \/ RejectFirst \/ ReadResponse \/ ReadMessage
  \/ PutRequest \/ EmitEvent \/ ReaderEnds

Next ==
  \/ \E biz \in BOOLEAN : PeerRequests(biz)
  \/ PeerNotifies \/ PeerAnswers \/ PeerEnds
  \/ ReadFails \/ RejectFirst \/ ReadResponse \/ ReadMessage
  \/ PutRequest \/ EmitEvent \/ ReaderEnds
  \/ CollectEvent
  \/ TakeHanded \/ Receive \/ CallBack \/ HandlerReturns \/ HandlerFails \/ Reply \/ HandlerEnds
  \/ Close

Spec == Init /\ [][Next]_vars

(* The reactor runs the read loop, hands over what was received and lets a *)
(* cancelled loop end (a suspended handler heeds its cancellation).  While *)
(* it is open, the handler and the write of its response may take for      *)
(* ever, the application need not collect events, and nothing is assumed   *)
(* of the peer.                                                            *)
Fairness == WF_vars(Reader) /\ WF_vars(TakeHanded) /\ WF_vars(HandlerEnds)

FairSpec == Spec /\ Fairness

(* The same with a prompt handler and collector and a peer that answers. *)
PromptSpec ==
  /\ FairSpec
  /\ WF_vars(HandlerReturns) /\ WF_vars(Reply) /\ WF_vars(Receive)
  /\ WF_vars(CollectEvent) /\ WF_vars(PeerAnswers)

-----------------------------------------------------------------------------
(* Properties *)

(* "serialized per connection": requests are handled one at a time in the  *)
(* order they arrived, each is answered at most once, and only after the   *)
(* one before it; nothing queued is lost or handled twice.                 *)
HandledInOrder ==
  /\ \A i \in DOMAIN replies : replies[i] = i
  /\ Len(replies) \in {taken, taken - 1}
  /\ handler \in {"handling", "reverse", "replying"} => current = taken /\ Len(replies) = taken - 1
  /\ handler = "writing" => current = taken /\ Len(replies) = taken
  /\ LET inHand == IF handler = "woken" THEN 1 ELSE 0
     IN  /\ read = taken + inHand + Len(inboundRequests)
         /\ \A i \in DOMAIN inboundRequests : inboundRequests[i] = taken + inHand + i

Required(p) == p.type = "Request" /\ p.biz

(* "Any Response, OneWay frame or different Request is a protocol fault    *)
(* and closes only that connection without running an application          *)
(* handler": under the rule nothing is queued and nothing reaches the      *)
(* application unless the first packet the peer sent is a Request of the   *)
(* required biz type, however late it is read and whatever follows it, and *)
(* nothing else reaches the application before that Request is queued.     *)
FirstPacketGate ==
  FirstRequired => /\ read > 0 \/ delivered # {} => Required(opening)
                   /\ delivered # {} => read > 0

(* The read loop and the handler loop use the queue as its contract says. *)
Queue == INSTANCE BoundedChannel
           WITH Capacity <- InboundCapacity, sent <- read, received <- taken, last <- taken

QueueAsSpecified == Queue!Spec

(* After shutdown() no reply is queued ... *)
NoReplyAfterClose == [][closed => replies' = replies]_vars

(* ... and the handler is called at most once more: for a request that was *)
(* already handed over, or for one that a returning enqueue still finds in *)
(* the closed queue.                                                       *)
OneMoreAfterClose ==
  \A n \in 0 .. MaxRequests : [](closed /\ taken = n => [](taken <= n + 1))

(* shutdown() ends both loops, wherever they are suspended, and they do no *)
(* more than that before they end.                                         *)
QuietAfterClose ==
  /\ closed ~> (reader = "ended" /\ handler = "ended")
  /\ NoReplyAfterClose
  /\ OneMoreAfterClose

ResponseAt(n) == \E i \in DOMAIN stream : stream[i].type = "Response" /\ stream[i].n = n

(* A handler that takes for ever does not keep the read loop from          *)
(* completing responses, as long as the inbound queues have room.          *)
ResponsesOvertakeHandler ==
  \A n \in 1 .. MaxReverse :
    ResponseAt(n) ~> (~ResponseAt(n) \/ closed \/ Len(inboundRequests) = InboundCapacity
                        \/ inboundEvents = InboundCapacity)

(* "a slow or reentrant handler cannot block response completion or        *)
(* deadlock on its own reverse request": a reverse request whose response  *)
(* the peer has sent returns, or the connection closes.                    *)
ReverseCallReturns ==
  \A n \in 1 .. MaxReverse : ResponseAt(n) ~> (~ResponseAt(n) \/ closed)
=============================================================================
