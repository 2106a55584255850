---------------------------- MODULE InboundProofs ---------------------------
(***************************************************************************)
(* Inbound for every capacity and every number of packets: requests are    *)
(* handled once and in order, the first-packet rule holds, the two loops   *)
(* use their queue as BoundedChannel says, and shutdown() silences the     *)
(* handler loop.                                                           *)
(***************************************************************************)
EXTENDS Inbound, TLAPS

RequestsIn(s) == {i \in DOMAIN s : s[i].type = "Request"}

(* The requests in s are those numbered from lo + 1 to hi, in that order. *)
Numbered(s, lo, hi) ==
  /\ lo <= hi
  /\ \A i \in RequestsIn(s) : s[i].n \in lo + 1 .. hi
  /\ \A n \in lo + 1 .. hi : \E i \in RequestsIn(s) : s[i].n = n
  /\ \A i, j \in RequestsIn(s) : i < j => s[i].n < s[j].n

(* The requests in the stream are the ones sent and not queued, in the     *)
(* order they were sent.                                                   *)
StreamNumbered == Numbered(stream, read, asked)

(* A suspended read loop has the packet it is suspended with at hand.      *)
ReaderAtHead ==
  /\ reader = "putting" => stream # <<>> /\ Head(stream).type = "Request"
  /\ reader = "emitting" => stream # <<>> /\ Head(stream).type = "OneWay"

(* What HandledInOrder rests on: the handler loop parks only after its     *)
(* queue ran empty and its last reply went out, and a hand-over does not   *)
(* overtake the queue.                                                     *)
HandOver ==
  /\ handler \in {"waiting", "woken"} => Len(replies) = taken
  /\ handler = "waiting" => inboundRequests = <<>>
  /\ handler = "woken" => current = taken + 1
  /\ Len(inboundRequests) <= InboundCapacity

(* What FirstPacketGate rests on: until the first check the packet at the  *)
(* head of the stream is the one the peer sent first, under the rule only  *)
(* a Request gets past that check, and it is queued before the next packet *)
(* is looked at.                                                           *)
GateKept ==
  /\ firstInbound => IF stream = <<>> THEN opening = Unsent ELSE opening = Head(stream)
  /\ reader \in {"putting", "emitting"} \/ read > 0 \/ delivered # {} => ~firstInbound
  /\ FirstRequired /\ ~firstInbound /\ reader \in {"reading", "emitting"} => read > 0
  /\ FirstRequired /\ reader = "putting" => Required(opening)

InboundInv ==
  /\ TypeOK
  /\ StreamNumbered
  /\ ReaderAtHead
  /\ HandOver
  /\ HandledInOrder
  /\ GateKept
  /\ FirstPacketGate

-----------------------------------------------------------------------------
(* What Head and Tail of a nonempty sequence are. *)
LEMMA TailFacts ==
  ASSUME NEW S, NEW s \in Seq(S), s # <<>>
  PROVE  /\ Len(s) \in Nat /\ Len(s) >= 1
         /\ Head(s) = s[1] /\ s[1] \in S
         /\ Tail(s) \in Seq(S)
         /\ Len(Tail(s)) = Len(s) - 1
         /\ \A i \in 1 .. Len(s) - 1 : Tail(s)[i] = s[i + 1]
  OBVIOUS

(* What Append does. *)
LEMMA AppendFacts ==
  ASSUME NEW S, NEW s \in Seq(S), NEW e \in S
  PROVE  /\ Append(s, e) \in Seq(S)
         /\ Append(s, e) # <<>>
         /\ Len(s) \in Nat
         /\ Len(Append(s, e)) = Len(s) + 1
         /\ \A i \in 1 .. Len(s) : Append(s, e)[i] = s[i]
         /\ Append(s, e)[Len(s) + 1] = e
         /\ s # <<>> => Head(Append(s, e)) = Head(s)
<1>1. /\ Append(s, e) \in Seq(S)
      /\ Len(s) \in Nat
      /\ Len(Append(s, e)) = Len(s) + 1
      /\ \A i \in 1 .. Len(s) : Append(s, e)[i] = s[i]
      /\ Append(s, e)[Len(s) + 1] = e
  OBVIOUS
<1>2. Append(s, e) # <<>>
  BY <1>1
<1>3. s # <<>> => Head(Append(s, e)) = Head(s)
  BY <1>1, <1>2, TailFacts
<1> QED BY <1>1, <1>2, <1>3

-----------------------------------------------------------------------------
(* The stream: what sending and reading a packet make of its numbering. *)

(* A packet that is not a request is sent. *)
LEMMA OtherSent ==
  ASSUME NEW s \in Seq(Packets), NEW lo \in Nat, NEW hi \in Nat, Numbered(s, lo, hi),
         NEW p \in Packets, p.type # "Request"
  PROVE  Numbered(Append(s, p), lo, hi)
<1> DEFINE t == Append(s, p)
<1>1. /\ t \in Seq(Packets) /\ Len(s) \in Nat /\ Len(t) = Len(s) + 1
      /\ \A i \in 1 .. Len(s) : t[i] = s[i]
      /\ t[Len(s) + 1] = p
  BY AppendFacts
<1> HIDE DEF t
<1>2. DOMAIN s = 1 .. Len(s) /\ DOMAIN t = 1 .. Len(s) + 1
  BY <1>1
<1>3. \A i : i \in RequestsIn(t) <=> i \in RequestsIn(s)
  BY <1>1, <1>2 DEF RequestsIn
<1>4. \A i \in RequestsIn(s) : t[i] = s[i]
  BY <1>1, <1>2 DEF RequestsIn
<1>5. Numbered(t, lo, hi)
  BY <1>3, <1>4 DEF Numbered
<1> QED BY <1>5 DEF t

(* The next request is sent. *)
LEMMA RequestSent ==
  ASSUME NEW s \in Seq(Packets), NEW lo \in Nat, NEW hi \in Nat, Numbered(s, lo, hi),
         NEW p \in Packets, p.type = "Request", p.n = hi + 1
  PROVE  Numbered(Append(s, p), lo, hi + 1)
<1> DEFINE t == Append(s, p)
<1>1. /\ t \in Seq(Packets) /\ Len(s) \in Nat /\ Len(t) = Len(s) + 1
      /\ \A i \in 1 .. Len(s) : t[i] = s[i]
      /\ t[Len(s) + 1] = p
  BY AppendFacts
<1> HIDE DEF t
<1>2. DOMAIN s = 1 .. Len(s) /\ DOMAIN t = 1 .. Len(s) + 1
  BY <1>1
<1>3. /\ \A i : i \in RequestsIn(t) <=> i \in RequestsIn(s) \/ i = Len(s) + 1
      /\ RequestsIn(s) \subseteq 1 .. Len(s)
      /\ t[Len(s) + 1].n = hi + 1
  BY <1>1, <1>2 DEF RequestsIn
<1>4. \A i \in RequestsIn(s) : t[i].n = s[i].n /\ s[i].n \in lo + 1 .. hi
  BY <1>1, <1>2, <1>3 DEF Numbered
<1>5. \A i \in RequestsIn(t) : t[i].n \in lo + 1 .. hi + 1
  <2> TAKE i \in RequestsIn(t)
  <2>1. lo + 1 .. hi \subseteq lo + 1 .. hi + 1 /\ hi + 1 \in lo + 1 .. hi + 1
    BY DEF Numbered
  <2>2. CASE i \in RequestsIn(s)
    BY <2>1, <2>2, <1>4
  <2>3. CASE i = Len(s) + 1
    BY <2>1, <2>3, <1>3
  <2> QED BY <2>2, <2>3, <1>3
<1>6. \A n \in lo + 1 .. hi + 1 : \E i \in RequestsIn(t) : t[i].n = n
  <2> TAKE n \in lo + 1 .. hi + 1
  <2>1. CASE n = hi + 1
    BY <2>1, <1>3
  <2>2. CASE n \in lo + 1 .. hi
    <3>1. PICK i \in RequestsIn(s) : s[i].n = n
      BY <2>2 DEF Numbered
    <3> QED BY <3>1, <1>3, <1>4
  <2> QED BY <2>1, <2>2
<1>7. \A i, j \in RequestsIn(t) : i < j => t[i].n < t[j].n
  <2> SUFFICES ASSUME NEW i \in RequestsIn(t), NEW j \in RequestsIn(t), i < j
               PROVE  t[i].n < t[j].n
    OBVIOUS
  <2>1. i \in RequestsIn(s)
    BY <1>1, <1>3
  <2>2. CASE j \in RequestsIn(s)
    <3>1. s[i].n < s[j].n
      BY <2>1, <2>2 DEF Numbered
    <3> QED BY <3>1, <2>1, <2>2, <1>4
  <2>3. CASE j = Len(s) + 1
    BY <2>1, <2>3, <1>3, <1>4
  <2> QED BY <2>2, <2>3, <1>3
<1>8. Numbered(t, lo, hi + 1)
  BY <1>5, <1>6, <1>7 DEF Numbered
<1> QED BY <1>8 DEF t

(* The packet at the head has been dealt with: it was no request, or the   *)
(* first of the requests.                                                  *)
LEMMA HeadConsumed ==
  ASSUME NEW s \in Seq(Packets), NEW lo \in Nat, NEW hi \in Nat, Numbered(s, lo, hi), s # <<>>
  PROVE  /\ Head(s).type # "Request" => Numbered(Tail(s), lo, hi)
         /\ Head(s).type = "Request" =>
              Head(s).n = lo + 1 /\ lo < hi /\ Numbered(Tail(s), lo + 1, hi)
<1> DEFINE t == Tail(s)
<1>1. /\ t \in Seq(Packets) /\ Len(s) \in Nat /\ Len(s) >= 1 /\ Len(t) = Len(s) - 1
      /\ Head(s) = s[1]
      /\ \A i \in 1 .. Len(s) - 1 : t[i] = s[i + 1]
  BY TailFacts
<1> HIDE DEF t
<1>2. DOMAIN s = 1 .. Len(s) /\ DOMAIN t = 1 .. Len(s) - 1
  BY <1>1
<1>3. /\ RequestsIn(s) \subseteq 1 .. Len(s) /\ RequestsIn(t) \subseteq 1 .. Len(s) - 1
      /\ 1 \in RequestsIn(s) <=> Head(s).type = "Request"
  BY <1>1, <1>2 DEF RequestsIn
<1>4. \A i \in RequestsIn(t) : i + 1 \in RequestsIn(s) /\ t[i].n = s[i + 1].n /\ 1 < i + 1
  BY <1>1, <1>2, <1>3 DEF RequestsIn
<1>5. \A i \in RequestsIn(s) : i # 1 => i - 1 \in RequestsIn(t) /\ t[i - 1].n = s[i].n
  BY <1>1, <1>2, <1>3 DEF RequestsIn
<1>6. \A i, j \in RequestsIn(t) : i < j => t[i].n < t[j].n
  <2> SUFFICES ASSUME NEW i \in RequestsIn(t), NEW j \in RequestsIn(t), i < j
               PROVE  t[i].n < t[j].n
    OBVIOUS
  <2>1. i + 1 \in RequestsIn(s) /\ j + 1 \in RequestsIn(s) /\ i + 1 < j + 1
    BY <1>1, <1>3, <1>4
  <2>2. s[i + 1].n < s[j + 1].n
    BY <2>1 DEF Numbered
  <2> QED BY <2>2, <1>4
<1>7. ASSUME Head(s).type # "Request"
      PROVE  Numbered(t, lo, hi)
  <2>1. \A i \in RequestsIn(t) : t[i].n \in lo + 1 .. hi
    BY <1>4 DEF Numbered
  <2>2. \A n \in lo + 1 .. hi : \E i \in RequestsIn(t) : t[i].n = n
    <3> TAKE n \in lo + 1 .. hi
    <3>1. PICK i \in RequestsIn(s) : s[i].n = n
      BY DEF Numbered
    <3>2. i # 1
      BY <3>1, <1>3, <1>7
    <3> QED BY <3>1, <3>2, <1>5
  <2> QED BY <2>1, <2>2, <1>6 DEF Numbered
<1>8. ASSUME Head(s).type = "Request"
      PROVE  Head(s).n = lo + 1 /\ lo < hi /\ Numbered(t, lo + 1, hi)
  <2>1. 1 \in RequestsIn(s) /\ s[1].n \in lo + 1 .. hi
    BY <1>3, <1>8 DEF Numbered
  <2>2. PICK i \in RequestsIn(s) : s[i].n = lo + 1
    BY <2>1 DEF Numbered
  <2>3. i = 1
    <3>1. i \in Nat /\ i >= 1
      BY <1>1, <1>3, <2>2
    <3> QED BY <3>1, <2>1, <2>2 DEF Numbered
  <2>4. \A j \in RequestsIn(t) : t[j].n \in lo + 2 .. hi
    <3> TAKE j \in RequestsIn(t)
    <3>1. s[j + 1].n \in lo + 1 .. hi /\ s[1].n < s[j + 1].n
      BY <1>4, <2>1 DEF Numbered
    <3> QED BY <3>1, <2>2, <2>3, <1>4
  <2>5. \A n \in lo + 2 .. hi : \E j \in RequestsIn(t) : t[j].n = n
    <3> TAKE n \in lo + 2 .. hi
    <3>1. PICK j \in RequestsIn(s) : s[j].n = n
      BY DEF Numbered
    <3>2. j # 1
      BY <3>1, <2>2, <2>3
    <3> QED BY <3>1, <3>2, <1>5
  <2>6. lo < hi /\ Head(s).n = lo + 1
    BY <2>1, <2>2, <2>3, <1>1
  <2> QED BY <2>4, <2>5, <2>6, <1>6 DEF Numbered
<1> QED BY <1>7, <1>8 DEF t

-----------------------------------------------------------------------------
(* Packets that arrive, and the read loop's use of the stream. *)
LEMMA StreamStep ==
  ASSUME InboundInv, Next
  PROVE  StreamNumbered' /\ ReaderAtHead'
<1>0. /\ stream \in Seq(Packets) /\ read \in Nat /\ asked \in Nat
      /\ notified \in Nat /\ answered \in Nat
      /\ StreamNumbered /\ ReaderAtHead
  BY InboundAssumption DEF InboundInv, TypeOK
<1>1. ASSUME NEW p \in Packets, stream' = Append(stream, p), read' = read, reader' = reader,
             \/ p.type # "Request" /\ asked' = asked
             \/ p.type = "Request" /\ p.n = asked + 1 /\ asked' = asked + 1
      PROVE  StreamNumbered' /\ ReaderAtHead'
  <2>1. StreamNumbered'
    BY <1>0, <1>1, OtherSent, RequestSent DEF StreamNumbered
  <2>2. stream' # <<>> /\ (stream # <<>> => Head(stream') = Head(stream))
    BY <1>0, <1>1, AppendFacts
  <2> QED BY <1>0, <1>1, <2>1, <2>2 DEF ReaderAtHead
<1>2. CASE \E biz \in BOOLEAN : PeerRequests(biz)
  <2>1. PICK biz \in BOOLEAN : PeerRequests(biz)
    BY <1>2
  <2>2. /\ Packet("Request", asked + 1, biz) \in Packets
        /\ Packet("Request", asked + 1, biz).type = "Request"
        /\ Packet("Request", asked + 1, biz).n = asked + 1
    BY <1>0 DEF Packet, Packets
  <2> QED BY <1>1, <2>1, <2>2 DEF PeerRequests, Arrives, readVars
<1>3. CASE PeerNotifies
  <2>1. /\ Packet("OneWay", notified + 1, FALSE) \in Packets
        /\ Packet("OneWay", notified + 1, FALSE).type # "Request"
    BY <1>0 DEF Packet, Packets
  <2> QED BY <1>1, <1>3, <2>1 DEF PeerNotifies, Arrives, readVars
<1>4. CASE PeerAnswers
  <2>1. /\ Packet("Response", answered + 1, FALSE) \in Packets
        /\ Packet("Response", answered + 1, FALSE).type # "Request"
    BY <1>0 DEF Packet, Packets
  <2> QED BY <1>1, <1>4, <2>1 DEF PeerAnswers, Arrives, readVars
<1>5. CASE ReadResponse
  BY <1>0, <1>5, HeadConsumed DEF ReadResponse, Reading, StreamNumbered, ReaderAtHead
<1>6. CASE EmitEvent
  BY <1>0, <1>6, HeadConsumed DEF EmitEvent, StreamNumbered, ReaderAtHead
<1>7. CASE PutRequest
  BY <1>0, <1>7, HeadConsumed DEF PutRequest, StreamNumbered, ReaderAtHead
<1>8. CASE ReadMessage
  <2>1. Head(stream).type \in {"Request", "Response", "OneWay"}
    <3>1. Head(stream) \in Packets
      BY <1>0, <1>8, TailFacts DEF ReadMessage, Reading
    <3> QED BY <3>1 DEF Packets
  <2> QED BY <1>0, <1>8, <2>1
          DEF ReadMessage, Reading, wireVars, StreamNumbered, ReaderAtHead
<1>9. ASSUME UNCHANGED <<stream, asked, read>>, reader' \in {reader, "ended"}
      PROVE  StreamNumbered' /\ ReaderAtHead'
  BY <1>0, <1>9 DEF StreamNumbered, ReaderAtHead
<1>10. CASE PeerEnds \/ CollectEvent \/ Close
  BY <1>9, <1>10 DEF PeerEnds, CollectEvent, Close, wireVars, readVars
<1>11. CASE ReadFails \/ RejectFirst \/ ReaderEnds
  BY <1>9, <1>11 DEF ReadFails, RejectFirst, ReaderEnds, wireVars
<1>12. CASE TakeHanded \/ Receive \/ CallBack \/ HandlerReturns \/ HandlerFails \/ Reply \/ HandlerEnds
  BY <1>9, <1>12 DEF TakeHanded, Receive, CallBack, HandlerReturns, HandlerFails, Reply,
                     HandlerEnds, wireVars, readVars
<1> QED BY <1>2, <1>3, <1>4, <1>5, <1>6, <1>7, <1>8, <1>10, <1>11, <1>12 DEF Next

(* Types.  That a queued request has a number the peer has used needs the  *)
(* numbering of the stream, that a handled one has needs HandledInOrder.   *)
LEMMA TypeStep ==
  ASSUME InboundInv, Next
  PROVE  TypeOK'
<1> USE InboundAssumption
<1>0. TypeOK
  BY DEF InboundInv
<1>1. CASE \E biz \in BOOLEAN : PeerRequests(biz)
  <2>1. PICK biz \in BOOLEAN : PeerRequests(biz)
    BY <1>1
  <2>2. Packet("Request", asked + 1, biz) \in Packets
    BY <1>0 DEF Packet, Packets, TypeOK
  <2>3. stream' \in Seq(Packets)
    BY <1>0, <2>1, <2>2, AppendFacts DEF PeerRequests, Arrives, TypeOK
  <2>4. opening' \in Packets \cup {Unsent}
    BY <1>0, <2>1, <2>2 DEF PeerRequests, Arrives, TypeOK
  <2> QED BY <1>0, <2>1, <2>3, <2>4 DEF PeerRequests, readVars, handlerVars, TypeOK
<1>2. CASE PeerNotifies
  <2>2. Packet("OneWay", notified + 1, FALSE) \in Packets
    BY <1>0 DEF Packet, Packets, TypeOK
  <2>3. stream' \in Seq(Packets)
    BY <1>0, <1>2, <2>2, AppendFacts DEF PeerNotifies, Arrives, TypeOK
  <2>4. notified' \in 0 .. MaxOneWays
    BY <1>0, <1>2 DEF PeerNotifies, TypeOK
  <2>5. opening' \in Packets \cup {Unsent}
    BY <1>0, <1>2, <2>2 DEF PeerNotifies, Arrives, TypeOK
  <2> QED BY <1>0, <1>2, <2>3, <2>4, <2>5 DEF PeerNotifies, readVars, handlerVars, TypeOK
<1>3. CASE PeerAnswers
  <2>2. Packet("Response", answered + 1, FALSE) \in Packets
    BY <1>0 DEF Packet, Packets, TypeOK
  <2>3. stream' \in Seq(Packets)
    BY <1>0, <1>3, <2>2, AppendFacts DEF PeerAnswers, Arrives, TypeOK
  <2>4. answered' \in 0 .. calls'
    BY <1>0, <1>3 DEF PeerAnswers, handlerVars, TypeOK
  <2>5. opening' \in Packets \cup {Unsent}
    BY <1>0, <1>3, <2>2 DEF PeerAnswers, Arrives, TypeOK
  <2> QED BY <1>0, <1>3, <2>3, <2>4, <2>5 DEF PeerAnswers, readVars, handlerVars, TypeOK
<1>4. CASE PeerEnds \/ CollectEvent \/ Close
  <2>1. CASE PeerEnds
    BY <1>0, <2>1 DEF PeerEnds, readVars, handlerVars, TypeOK
  <2>2. CASE CollectEvent
    <3>1. inboundEvents' \in 0 .. InboundCapacity
      BY <1>0, <2>2 DEF CollectEvent, TypeOK
    <3> QED BY <1>0, <2>2, <3>1 DEF CollectEvent, wireVars, readVars, handlerVars, TypeOK
  <2>3. CASE Close
    BY <1>0, <2>3 DEF Close, Shutdown, wireVars, readVars, TypeOK
  <2> QED BY <1>4, <2>1, <2>2, <2>3
<1>5. CASE ReadFails \/ RejectFirst \/ ReaderEnds
  BY <1>0, <1>5 DEF ReadFails, RejectFirst, ReaderEnds, Shutdown, wireVars, handlerVars, TypeOK
<1>6. CASE ReadResponse
  <2>1. stream' \in Seq(Packets)
    BY <1>0, <1>6, TailFacts DEF ReadResponse, Reading, TypeOK
  <2> QED BY <1>0, <1>6, <2>1 DEF ReadResponse, TypeOK
<1>7. CASE ReadMessage
  BY <1>0, <1>7 DEF ReadMessage, wireVars, handlerVars, TypeOK
<1>8. CASE EmitEvent
  <2>1. stream' \in Seq(Packets)
    BY <1>0, <1>8, TailFacts DEF EmitEvent, InboundInv, ReaderAtHead, TypeOK
  <2> QED BY <1>0, <1>8, <2>1 DEF EmitEvent, handlerVars, TypeOK
<1>9. CASE PutRequest
  <2>1. stream # <<>> /\ Head(stream).type = "Request"
    BY <1>9 DEF PutRequest, InboundInv, ReaderAtHead
  <2>2. stream' \in Seq(Packets)
    BY <1>0, <1>9, <2>1, TailFacts DEF PutRequest, TypeOK
  <2>3. read + 1 \in 1 .. MaxRequests
    BY <1>0, <2>1, HeadConsumed DEF InboundInv, StreamNumbered, TypeOK
  <2>4. inboundRequests' \in Seq(1 .. MaxRequests)
    <3>1. inboundRequests \in Seq(1 .. MaxRequests)
      BY <1>0 DEF TypeOK
    <3>2. Append(inboundRequests, read + 1) \in Seq(1 .. MaxRequests)
      BY <2>3, <3>1, AppendFacts
    <3> QED BY <1>9, <3>1, <3>2 DEF PutRequest
  <2>5. /\ read' = read + 1 /\ reader' = "reading"
        /\ \/ handler' = "woken" /\ current' = read + 1
           \/ handler' = handler /\ current' = current
    BY <1>9 DEF PutRequest
  <2>6. /\ UNCHANGED <<asked, notified, answered, eof, opening, firstInbound, inboundEvents>>
        /\ UNCHANGED <<calls, taken, replies, closed, delivered>>
    BY <1>9 DEF PutRequest
  <2>7. read' \in 0 .. MaxRequests /\ current' \in 0 .. MaxRequests
    BY <1>0, <2>3, <2>5 DEF TypeOK
  <2>8. handler' \in {"waiting", "woken", "handling", "reverse", "replying", "writing", "ended"}
    BY <1>0, <2>5 DEF TypeOK
  <2> QED BY <1>0, <2>2, <2>4, <2>5, <2>6, <2>7, <2>8 DEF TypeOK
<1>10. CASE TakeHanded
  <2>1. taken' \in 0 .. MaxRequests
    BY <1>0, <1>10 DEF TakeHanded, InboundInv, HandledInOrder, TypeOK
  <2> QED BY <1>0, <1>10, <2>1 DEF TakeHanded, wireVars, readVars, TypeOK
<1>11. CASE Receive
  <2>1. CASE inboundRequests = <<>>
    <3>1. /\ handler' \in {"ended", "waiting"} /\ current' = 0
          /\ UNCHANGED <<inboundRequests, taken, delivered>>
      BY <1>11, <2>1 DEF Receive
    <3> QED BY <1>0, <1>11, <3>1 DEF Receive, wireVars, readVars, TypeOK
  <2>2. CASE inboundRequests # <<>>
    <3>1. /\ Len(inboundRequests) \in Nat /\ Len(inboundRequests) >= 1
          /\ inboundRequests' \in Seq(1 .. MaxRequests)
          /\ current' \in 1 .. MaxRequests
      <4>1. inboundRequests \in Seq(1 .. MaxRequests)
        BY <1>0 DEF TypeOK
      <4>2. inboundRequests' = Tail(inboundRequests) /\ current' = Head(inboundRequests)
        BY <1>11, <2>2 DEF Receive
      <4> QED BY <2>2, <4>1, <4>2, TailFacts
    <3>2. taken' = taken + 1 /\ handler' = "handling" /\ delivered' = delivered \cup {"Request"}
      BY <1>11, <2>2 DEF Receive
    <3>3. taken' \in 0 .. MaxRequests
      BY <1>0, <1>11, <3>1, <3>2 DEF Receive, InboundInv, HandledInOrder, TypeOK
    <3>4. UNCHANGED <<wireVars, readVars, inboundEvents, calls, replies, closed>>
      BY <1>11 DEF Receive
    <3> QED BY <1>0, <3>1, <3>2, <3>3, <3>4 DEF wireVars, readVars, TypeOK
  <2> QED BY <2>1, <2>2
<1>12. CASE CallBack \/ HandlerReturns \/ HandlerFails \/ HandlerEnds
  <2>1. CASE CallBack
    <3>1. calls' \in 0 .. MaxReverse /\ answered' \in 0 .. calls'
      BY <1>0, <2>1 DEF CallBack, wireVars, TypeOK
    <3> QED BY <1>0, <2>1, <3>1 DEF CallBack, wireVars, readVars, TypeOK
  <2>2. CASE HandlerReturns \/ HandlerFails \/ HandlerEnds
    BY <1>0, <2>2 DEF HandlerReturns, HandlerFails, HandlerEnds, wireVars, readVars, TypeOK
  <2> QED BY <1>12, <2>1, <2>2
<1>13. CASE Reply
  <2>1. current \in 1 .. MaxRequests
    BY <1>0, <1>13 DEF Reply, InboundInv, HandledInOrder, TypeOK
  <2>2. replies' \in Seq(1 .. MaxRequests)
    BY <1>0, <1>13, <2>1, AppendFacts DEF Reply, TypeOK
  <2> QED BY <1>0, <1>13, <2>2 DEF Reply, wireVars, readVars, TypeOK
<1> QED BY <1>1, <1>2, <1>3, <1>4, <1>5, <1>6, <1>7, <1>8, <1>9, <1>10, <1>11, <1>12, <1>13
        DEF Next

-----------------------------------------------------------------------------
(* The queue and the handler loop.  The steps that only move the handler   *)
(* loop along, or end it, disturb nothing that is counted.                 *)
LEMMA CountsKept ==
  ASSUME TypeOK, HandOver, HandledInOrder,
         UNCHANGED <<inboundRequests, read, taken, replies, current>>,
         \/ handler' \in {handler, "ended"} /\ ~(handler = "woken" /\ handler' = "ended")
         \/ handler \in {"handling", "reverse"} /\ handler' \in {"handling", "reverse", "replying"}
  PROVE  HandOver' /\ HandledInOrder'
<1>1. HandOver'
  BY DEF HandOver
<1>2. (handler' = "woken") <=> (handler = "woken")
  OBVIOUS
<1> QED BY <1>1, <1>2 DEF HandledInOrder

LEMMA HandlerStep ==
  ASSUME InboundInv, Next
  PROVE  HandOver' /\ HandledInOrder'
<1>0. /\ TypeOK /\ HandOver /\ HandledInOrder
      /\ inboundRequests \in Seq(1 .. MaxRequests) /\ replies \in Seq(1 .. MaxRequests)
      /\ Len(inboundRequests) \in Nat /\ Len(replies) \in Nat
      /\ read \in Nat /\ taken \in Nat /\ current \in Nat /\ InboundCapacity \in Nat
  BY InboundAssumption DEF InboundInv, TypeOK
<1>1. CASE PutRequest
  <2>1. CASE handler = "waiting"
    <3>1. /\ inboundRequests = <<>> /\ Len(inboundRequests) = 0 /\ read = taken
          /\ Len(replies) = taken
      BY <1>0, <2>1 DEF HandOver, HandledInOrder
    <3>2. /\ handler' = "woken" /\ current' = read + 1 /\ read' = read + 1
          /\ inboundRequests' = <<>> /\ taken' = taken /\ replies' = replies
      BY <1>1, <2>1, <3>1 DEF PutRequest
    <3> QED BY <1>0, <3>1, <3>2 DEF HandOver, HandledInOrder
  <2>2. CASE handler # "waiting"
    <3> DEFINE inHand == IF handler = "woken" THEN 1 ELSE 0
    <3>1. /\ handler' = handler /\ current' = current /\ read' = read + 1
          /\ inboundRequests' = Append(inboundRequests, read + 1)
          /\ Len(inboundRequests) < InboundCapacity
          /\ taken' = taken /\ replies' = replies
      BY <1>1, <2>2 DEF PutRequest
    <3>2. inHand \in 0 .. 1 /\ read = taken + inHand + Len(inboundRequests)
      BY <1>0 DEF HandledInOrder
    <3>3. read + 1 \in 1 .. MaxRequests
      <4>1. reader = "putting"
        BY <1>1 DEF PutRequest
      <4>2. stream # <<>> /\ Head(stream).type = "Request"
        BY <4>1 DEF InboundInv, ReaderAtHead
      <4> QED BY <1>0, <4>2, HeadConsumed, InboundAssumption DEF InboundInv, StreamNumbered, TypeOK
    <3>4. /\ Len(inboundRequests') = Len(inboundRequests) + 1
          /\ \A i \in 1 .. Len(inboundRequests) : inboundRequests'[i] = inboundRequests[i]
          /\ inboundRequests'[Len(inboundRequests) + 1] = read + 1
          /\ inboundRequests' \in Seq(1 .. MaxRequests)
      BY <1>0, <3>1, <3>3, AppendFacts
    <3>5. \A i \in DOMAIN inboundRequests' : inboundRequests'[i] = taken + inHand + i
      <4> TAKE i \in DOMAIN inboundRequests'
      <4>1. CASE i \in 1 .. Len(inboundRequests)
        BY <4>1, <1>0, <3>4 DEF HandledInOrder
      <4>2. CASE i = Len(inboundRequests) + 1
        <5>1. inboundRequests'[i] = read + 1
          BY <4>2, <3>4
        <5>2. read + 1 = taken + inHand + i
          BY <4>2, <1>0, <3>2
        <5> QED BY <5>1, <5>2
      <4> QED BY <4>1, <4>2, <1>0, <3>4
    <3>6. read' = taken + inHand + Len(inboundRequests')
      <4>1. read' = read + 1 /\ Len(inboundRequests') = Len(inboundRequests) + 1
        BY <3>1, <3>4
      <4>2. read \in Nat /\ taken \in Nat /\ Len(inboundRequests) \in Nat
        BY <1>0
      <4> HIDE DEF inHand
      <4> QED BY <3>2, <4>1, <4>2
    <3>7. HandOver'
      BY <1>0, <2>2, <3>1, <3>4 DEF HandOver
    <3> HIDE DEF inHand
    <3>8. inHand = IF handler' = "woken" THEN 1 ELSE 0
      BY <3>1 DEF inHand
    <3> QED BY <1>0, <3>1, <3>5, <3>6, <3>7, <3>8 DEF HandledInOrder
  <2> QED BY <2>1, <2>2
<1>2. CASE TakeHanded
  <2>1. /\ handler = "woken" /\ handler' = "handling" /\ taken' = taken + 1
        /\ UNCHANGED <<read, inboundRequests, replies, current>>
    BY <1>2 DEF TakeHanded, readVars
  <2>2. current = taken + 1 /\ Len(replies) = taken
    BY <1>0, <2>1 DEF HandOver
  <2>3. HandOver'
    BY <1>0, <2>1 DEF HandOver
  <2>4. read = taken' + 0 + Len(inboundRequests)
    BY <1>0, <2>1 DEF HandledInOrder
  <2>5. \A i \in DOMAIN inboundRequests : inboundRequests[i] = taken' + 0 + i
    BY <1>0, <2>1 DEF HandledInOrder
  <2> QED BY <1>0, <2>1, <2>2, <2>3, <2>4, <2>5 DEF HandledInOrder
<1>3. CASE Receive
  <2>1. handler = "writing" /\ current = taken /\ Len(replies) = taken /\ UNCHANGED <<read, replies>>
    BY <1>0, <1>3 DEF Receive, HandledInOrder, readVars
  <2>2. CASE inboundRequests = <<>>
    <3>1. /\ handler' \in {"ended", "waiting"} /\ current' = 0
          /\ UNCHANGED <<inboundRequests, taken>>
      BY <1>3, <2>2 DEF Receive
    <3> QED BY <1>0, <2>1, <2>2, <3>1 DEF HandOver, HandledInOrder
  <2>3. CASE inboundRequests # <<>>
    <3>1. /\ handler' = "handling" /\ current' = Head(inboundRequests)
          /\ inboundRequests' = Tail(inboundRequests) /\ taken' = taken + 1
      BY <1>3, <2>3 DEF Receive
    <3>2. /\ Len(inboundRequests) >= 1
          /\ Len(inboundRequests') = Len(inboundRequests) - 1
          /\ Head(inboundRequests) = inboundRequests[1]
          /\ \A i \in 1 .. Len(inboundRequests) - 1 : inboundRequests'[i] = inboundRequests[i + 1]
          /\ inboundRequests' \in Seq(1 .. MaxRequests)
      BY <1>0, <2>3, <3>1, TailFacts
    <3>3. \A i \in 1 .. Len(inboundRequests) : inboundRequests[i] = taken + i
      BY <1>0, <2>1 DEF HandledInOrder
    <3>4. current' = taken'
      BY <1>0, <3>1, <3>2, <3>3
    <3>5. \A i \in DOMAIN inboundRequests' : inboundRequests'[i] = taken' + 0 + i
      <4> TAKE i \in DOMAIN inboundRequests'
      <4>1. i \in 1 .. Len(inboundRequests) - 1 /\ i + 1 \in 1 .. Len(inboundRequests)
        BY <1>0, <3>2
      <4> QED BY <4>1, <1>0, <3>1, <3>2, <3>3
    <3>6. read' = taken' + 0 + Len(inboundRequests')
      BY <1>0, <2>1, <3>1, <3>2 DEF HandledInOrder
    <3>7. HandOver'
      BY <1>0, <3>1, <3>2 DEF HandOver
    <3>8. /\ \A i \in DOMAIN replies' : replies'[i] = i
          /\ Len(replies') = taken' - 1
      BY <1>0, <2>1, <3>1 DEF HandledInOrder
    <3>9. HandledInOrder'
      BY <3>1, <3>4, <3>5, <3>6, <3>8 DEF HandledInOrder
    <3> QED BY <3>7, <3>9
  <2> QED BY <2>2, <2>3
<1>4. CASE Reply
  <2>1. /\ handler = "replying" /\ handler' = "writing" /\ replies' = Append(replies, current)
        /\ UNCHANGED <<read, inboundRequests, taken, current>>
    BY <1>4 DEF Reply, readVars
  <2>2. current = taken /\ Len(replies) = taken - 1 /\ current \in 1 .. MaxRequests
    BY <1>0, <2>1 DEF HandledInOrder, TypeOK
  <2>3. /\ Len(replies') = taken
        /\ \A i \in 1 .. Len(replies) : replies'[i] = replies[i]
        /\ replies'[Len(replies) + 1] = taken
        /\ replies' \in Seq(1 .. MaxRequests)
    BY <1>0, <2>1, <2>2, AppendFacts
  <2>4. \A i \in DOMAIN replies' : replies'[i] = i
    <3> TAKE i \in DOMAIN replies'
    <3>1. CASE i \in 1 .. Len(replies)
      BY <3>1, <1>0, <2>3 DEF HandledInOrder
    <3>2. CASE i = Len(replies) + 1
      BY <3>2, <1>0, <2>2, <2>3
    <3> QED BY <3>1, <3>2, <1>0, <2>2, <2>3
  <2>5. HandOver'
    BY <1>0, <2>1 DEF HandOver
  <2> QED BY <1>0, <2>1, <2>2, <2>3, <2>4, <2>5 DEF HandledInOrder
<1>5. CASE \/ \E biz \in BOOLEAN : PeerRequests(biz)
           \/ PeerNotifies \/ PeerAnswers \/ PeerEnds \/ CollectEvent
  BY <1>0, <1>5, CountsKept
     DEF PeerRequests, PeerNotifies, PeerAnswers, PeerEnds, CollectEvent, readVars, handlerVars
<1>6. CASE ReadFails \/ RejectFirst \/ Close
  BY <1>0, <1>6, CountsKept DEF ReadFails, RejectFirst, Close, Shutdown, readVars
<1>7. CASE ReadResponse
  BY <1>0, <1>7, CountsKept DEF ReadResponse
<1>8. CASE ReadMessage \/ EmitEvent \/ ReaderEnds
  BY <1>0, <1>8, CountsKept DEF ReadMessage, EmitEvent, ReaderEnds, handlerVars
<1>9. CASE CallBack \/ HandlerReturns
  BY <1>0, <1>9, CountsKept DEF CallBack, HandlerReturns, readVars
<1>10. CASE HandlerFails \/ HandlerEnds
  BY <1>0, <1>10, CountsKept DEF HandlerFails, HandlerEnds, readVars
<1> QED BY <1>1, <1>2, <1>3, <1>4, <1>5, <1>6, <1>7, <1>8, <1>9, <1>10 DEF Next

-----------------------------------------------------------------------------
(* The first-packet rule. *)

(* Sending a packet leaves the first one the first. *)
LEMMA ArrivesKeepsGate ==
  ASSUME InboundInv, NEW p \in Packets, Arrives(p), UNCHANGED <<readVars, delivered>>
  PROVE  GateKept' /\ FirstPacketGate'
<1>0. GateKept /\ FirstPacketGate /\ stream \in Seq(Packets)
  BY DEF InboundInv, TypeOK
<1>1. UNCHANGED <<firstInbound, reader, read, delivered>>
  BY DEF readVars
<1>2. stream' # <<>> /\ (stream # <<>> => Head(stream') = Head(stream) /\ Head(stream) \in Packets)
  BY <1>0, AppendFacts, TailFacts DEF Arrives
<1>3. stream = <<>> => Head(stream') = p
  <2>1. Len(stream') = Len(stream) + 1 /\ stream'[Len(stream) + 1] = p /\ stream' \in Seq(Packets)
    BY <1>0, AppendFacts DEF Arrives
  <2> QED BY <1>2, <2>1, TailFacts
<1>4. opening # Unsent => opening' = opening
  BY DEF Arrives
<1>5. Unsent \notin Packets /\ ~Required(Unsent)
  BY DEF Unsent, Packet, Packets, Required
<1>6. firstInbound' => opening' = Head(stream')
  <2>1. CASE stream = <<>>
    BY <1>0, <1>1, <1>3, <2>1 DEF GateKept, Arrives
  <2>2. CASE stream # <<>>
    BY <1>0, <1>1, <1>2, <1>4, <1>5, <2>2 DEF GateKept
  <2> QED BY <2>1, <2>2
<1>7. Required(opening) => Required(opening')
  BY <1>4, <1>5
<1>8. GateKept'
  BY <1>0, <1>1, <1>2, <1>6, <1>7 DEF GateKept
<1>9. FirstPacketGate'
  BY <1>0, <1>1, <1>7 DEF FirstPacketGate
<1> QED BY <1>8, <1>9

LEMMA GateStep ==
  ASSUME InboundInv, Next
  PROVE  GateKept' /\ FirstPacketGate'
<1>0. GateKept /\ FirstPacketGate /\ read \in Nat /\ taken \in Nat
  BY InboundAssumption DEF InboundInv, TypeOK
<1>1. CASE ReadMessage
  <2>1. /\ reader = "reading" /\ Admits(Head(stream)) /\ firstInbound' = FALSE /\ stream # <<>>
        /\ reader' = IF Head(stream).type = "Request" THEN "putting" ELSE "emitting"
        /\ UNCHANGED <<read, delivered, opening>>
    BY <1>1 DEF ReadMessage, Reading, wireVars
  <2>2. FirstRequired /\ firstInbound => Required(opening) /\ Head(stream).type = "Request"
    BY <1>0, <2>1 DEF GateKept, Admits, Required
  <2>3. FirstRequired /\ ~firstInbound => Required(opening) /\ read > 0
    BY <1>0, <2>1 DEF GateKept, FirstPacketGate
  <2>4. GateKept'
    BY <1>0, <2>1, <2>2, <2>3 DEF GateKept
  <2> QED BY <1>0, <2>1, <2>4 DEF FirstPacketGate
<1>2. CASE ReadResponse
  <2>1. /\ reader = "reading" /\ Head(stream).type = "Response" /\ Admits(Head(stream))
        /\ firstInbound' = FALSE /\ UNCHANGED <<reader, read, opening>>
        /\ delivered' \in {delivered, delivered \cup {"Response"}}
    BY <1>2 DEF ReadResponse, Reading
  <2>2. FirstRequired => ~firstInbound /\ read > 0 /\ Required(opening)
    BY <1>0, <2>1 DEF GateKept, FirstPacketGate, Admits
  <2> QED BY <1>0, <2>1, <2>2 DEF GateKept, FirstPacketGate
<1>3. CASE RejectFirst
  <2>1. firstInbound' = FALSE /\ reader' = "ended" /\ UNCHANGED <<read, delivered, opening>>
    BY <1>3 DEF RejectFirst, wireVars
  <2> QED BY <1>0, <2>1 DEF GateKept, FirstPacketGate
<1>4. CASE PutRequest
  <2>1. /\ reader = "putting" /\ reader' = "reading" /\ read' = read + 1
        /\ UNCHANGED <<firstInbound, delivered, opening>>
    BY <1>4 DEF PutRequest
  <2> QED BY <1>0, <2>1 DEF GateKept, FirstPacketGate
<1>5. CASE EmitEvent
  <2>1. /\ reader = "emitting" /\ reader' = "reading"
        /\ delivered' = delivered \cup {"OneWay"}
        /\ UNCHANGED <<firstInbound, read, opening>>
    BY <1>5 DEF EmitEvent
  <2>2. ~firstInbound /\ (FirstRequired => read > 0)
    BY <1>0, <2>1 DEF GateKept
  <2> QED BY <1>0, <2>1, <2>2 DEF GateKept, FirstPacketGate
<1>6. ASSUME UNCHANGED <<stream, opening, reader, firstInbound, read>>, read > 0,
             delivered' \in {delivered, delivered \cup {"Request"}}
      PROVE  GateKept' /\ FirstPacketGate'
  BY <1>0, <1>6 DEF GateKept, FirstPacketGate
<1>7. CASE TakeHanded
  <2>1. read > 0
    BY <1>0, <1>7 DEF TakeHanded, InboundInv, HandledInOrder, TypeOK
  <2> QED BY <1>6, <1>7, <2>1 DEF TakeHanded, readVars, wireVars
<1>8. CASE Receive /\ inboundRequests # <<>>
  <2>1. Len(inboundRequests) \in Nat /\ Len(inboundRequests) >= 1
    BY <1>8, TailFacts DEF InboundInv, TypeOK
  <2>2. read > 0
    BY <1>0, <1>8, <2>1 DEF Receive, InboundInv, HandledInOrder
  <2> QED BY <1>6, <1>8, <2>2 DEF Receive, readVars, wireVars
<1>9. ASSUME UNCHANGED <<stream, opening, firstInbound, read, delivered>>,
             reader' \in {reader, "ended"}
      PROVE  GateKept' /\ FirstPacketGate'
  BY <1>0, <1>9 DEF GateKept, FirstPacketGate
<1>10. CASE Receive /\ inboundRequests = <<>>
  BY <1>9, <1>10 DEF Receive, readVars, wireVars
<1>11. CASE \E biz \in BOOLEAN : PeerRequests(biz)
  <2>1. PICK biz \in BOOLEAN : PeerRequests(biz)
    BY <1>11
  <2>2. Packet("Request", asked + 1, biz) \in Packets
    BY InboundAssumption DEF Packet, Packets, InboundInv, TypeOK
  <2> QED BY <2>1, <2>2, ArrivesKeepsGate DEF PeerRequests
<1>12. CASE PeerNotifies
  <2>1. Packet("OneWay", notified + 1, FALSE) \in Packets
    BY InboundAssumption DEF Packet, Packets, InboundInv, TypeOK
  <2> QED BY <1>12, <2>1, ArrivesKeepsGate DEF PeerNotifies
<1>13. CASE PeerAnswers
  <2>1. Packet("Response", answered + 1, FALSE) \in Packets
    BY InboundAssumption DEF Packet, Packets, InboundInv, TypeOK
  <2> QED BY <1>13, <2>1, ArrivesKeepsGate DEF PeerAnswers
<1>14. CASE PeerEnds \/ CollectEvent \/ Close
  BY <1>9, <1>14 DEF PeerEnds, CollectEvent, Close, readVars, wireVars
<1>15. CASE ReadFails \/ ReaderEnds
  BY <1>9, <1>15 DEF ReadFails, ReaderEnds, wireVars
<1>16. CASE CallBack \/ HandlerReturns \/ HandlerFails \/ Reply \/ HandlerEnds
  BY <1>9, <1>16 DEF CallBack, HandlerReturns, HandlerFails, Reply, HandlerEnds, readVars, wireVars
<1> QED BY <1>1, <1>2, <1>3, <1>4, <1>5, <1>7, <1>8, <1>10, <1>11, <1>12, <1>13, <1>14, <1>15, <1>16
        DEF Next

-----------------------------------------------------------------------------
LEMMA InboundInvInit == Init => InboundInv
<1> SUFFICES ASSUME Init PROVE InboundInv
  OBVIOUS
<1> USE InboundAssumption DEF Init
<1>1. TypeOK
  <2>1. <<>> \in Seq(Packets) /\ <<>> \in Seq(1 .. MaxRequests)
    OBVIOUS
  <2>2. eof \in BOOLEAN /\ firstInbound \in BOOLEAN /\ closed \in BOOLEAN
    OBVIOUS
  <2>3. delivered \subseteq {"Request", "Response", "OneWay"}
    OBVIOUS
  <2>4. opening \in Packets \cup {Unsent}
    OBVIOUS
  <2> QED BY <2>1, <2>2, <2>3, <2>4 DEF TypeOK
<1>2. StreamNumbered
  BY DEF StreamNumbered, Numbered, RequestsIn
<1>3. ReaderAtHead /\ HandOver /\ HandledInOrder /\ GateKept /\ FirstPacketGate
  BY DEF ReaderAtHead, HandOver, HandledInOrder, GateKept, FirstPacketGate
<1> QED BY <1>1, <1>2, <1>3 DEF InboundInv

LEMMA InboundInvStep == InboundInv /\ [Next]_vars => InboundInv'
<1> SUFFICES ASSUME InboundInv, [Next]_vars PROVE InboundInv'
  OBVIOUS
<1>1. CASE Next
  BY <1>1, TypeStep, StreamStep, HandlerStep, GateStep DEF InboundInv
<1>2. CASE UNCHANGED vars
  BY <1>2 DEF vars, wireVars, readVars, handlerVars, InboundInv, TypeOK, StreamNumbered, Numbered,
              RequestsIn, ReaderAtHead, HandOver, HandledInOrder, GateKept, FirstPacketGate
<1> QED BY <1>1, <1>2

(* The inductive invariant of the inbound side holds in every reachable    *)
(* state, whatever the capacity and however many packets are sent.         *)
THEOREM InboundCorrect == Spec => []InboundInv
  BY InboundInvInit, InboundInvStep, PTL DEF Spec

(* readLoop and handlerLoop: requests are handled one at a time, in the    *)
(* order they arrived, none is lost, handled or answered twice.            *)
THEOREM RequestsHandledInOrder == Spec => []HandledInOrder
<1>1. InboundInv => HandledInOrder
  BY DEF InboundInv
<1> QED BY <1>1, InboundCorrect, PTL

(* requiredFirstRequestBizType: nothing is queued and nothing reaches the  *)
(* application unless the first packet the peer sent is a Request of the   *)
(* required biz type, and nothing else does before it is queued.           *)
THEOREM FirstPacketDecides == Spec => []FirstPacketGate
<1>1. InboundInv => FirstPacketGate
  BY DEF InboundInv
<1> QED BY <1>1, InboundCorrect, PTL

-----------------------------------------------------------------------------
(* The two loops use inboundRequests as a bounded channel: the step that   *)
(* queues is a Put, the steps that take are Gets, shutdown() is a Close.   *)
THEOREM InboundImplementsChannel == Spec => QueueAsSpecified
<1>1. Init => Queue!Init
  BY DEF Init, Queue!Init
<1>2. InboundInv /\ [Next]_vars => [Queue!Next]_(Queue!chanVars)
  <2> SUFFICES ASSUME InboundInv, [Next]_vars
               PROVE  [Queue!Next]_(Queue!chanVars)
    OBVIOUS
  <2> USE DEF Queue!chanVars
  <2>0. /\ read \in Nat /\ taken \in Nat /\ InboundCapacity \in Nat \ {0}
        /\ inboundRequests \in Seq(1 .. MaxRequests) /\ Len(inboundRequests) \in Nat
        /\ HandledInOrder /\ HandOver
    BY InboundAssumption DEF InboundInv, TypeOK
  <2>1. CASE PutRequest
    <3>1. read - taken <= InboundCapacity
      BY <2>0, <2>1 DEF PutRequest, HandledInOrder, HandOver
    <3>2. Queue!Put
      BY <2>1, <3>1 DEF PutRequest, Queue!Put
    <3> QED BY <3>2 DEF Queue!Next
  <2>2. CASE TakeHanded
    <3>1. taken < read
      BY <2>0, <2>2 DEF TakeHanded, HandledInOrder
    <3>2. Queue!Get
      BY <2>2, <3>1 DEF TakeHanded, readVars, Queue!Get
    <3> QED BY <3>2 DEF Queue!Next
  <2>3. CASE Receive
    <3>1. CASE inboundRequests = <<>>
      BY <2>3, <3>1 DEF Receive, readVars
    <3>2. CASE inboundRequests # <<>>
      <4>1. Len(inboundRequests) >= 1
        BY <2>0, <3>2, TailFacts
      <4>2. taken < read
        BY <2>0, <2>3, <4>1 DEF Receive, HandledInOrder
      <4>3. Queue!Get
        BY <2>3, <3>2, <4>2 DEF Receive, readVars, Queue!Get
      <4> QED BY <4>3 DEF Queue!Next
    <3> QED BY <3>1, <3>2
  <2>4. CASE ReadFails \/ RejectFirst \/ Close \/ HandlerFails
    <3>1. Queue!Close
      BY <2>4 DEF ReadFails, RejectFirst, Close, HandlerFails, Shutdown, readVars, Queue!Close
    <3> QED BY <3>1 DEF Queue!Next
  <2>5. CASE \/ \E biz \in BOOLEAN : PeerRequests(biz)
             \/ PeerNotifies \/ PeerAnswers \/ PeerEnds \/ CollectEvent
    BY <2>5 DEF PeerRequests, PeerNotifies, PeerAnswers, PeerEnds, CollectEvent,
                readVars, handlerVars
  <2>6. CASE ReadResponse \/ ReadMessage \/ EmitEvent \/ ReaderEnds
    BY <2>6 DEF ReadResponse, ReadMessage, EmitEvent, ReaderEnds, handlerVars
  <2>7. CASE CallBack \/ HandlerReturns \/ Reply \/ HandlerEnds
    BY <2>7 DEF CallBack, HandlerReturns, Reply, HandlerEnds, readVars
  <2>8. CASE UNCHANGED vars
    BY <2>8 DEF vars, readVars, handlerVars
  <2> QED BY <2>1, <2>2, <2>3, <2>4, <2>5, <2>6, <2>7, <2>8 DEF Next
<1> QED BY <1>1, <1>2, InboundCorrect, PTL DEF Spec, QueueAsSpecified, Queue!Spec

-----------------------------------------------------------------------------
(* shutdown(): once the connection is closed no reply is queued. *)
THEOREM ClosedMeansNoReply == Spec => NoReplyAfterClose
<1>1. [Next]_vars => [closed => replies' = replies]_vars
  <2> SUFFICES ASSUME Next, closed PROVE replies' = replies
    OBVIOUS
  <2>1. CASE \/ \E biz \in BOOLEAN : PeerRequests(biz)
             \/ PeerNotifies \/ PeerAnswers \/ PeerEnds \/ CollectEvent
    BY <2>1 DEF PeerRequests, PeerNotifies, PeerAnswers, PeerEnds, CollectEvent, handlerVars
  <2>2. CASE ReadFails \/ RejectFirst \/ Close
    BY <2>2 DEF ReadFails, RejectFirst, Close, Shutdown
  <2>3. CASE ReadResponse \/ ReadMessage \/ PutRequest \/ EmitEvent \/ ReaderEnds
    BY <2>3 DEF ReadResponse, ReadMessage, PutRequest, EmitEvent, ReaderEnds, handlerVars
  <2>4. CASE TakeHanded \/ Receive \/ CallBack \/ HandlerReturns \/ HandlerFails \/ HandlerEnds
    BY <2>4 DEF TakeHanded, Receive, CallBack, HandlerReturns, HandlerFails, HandlerEnds
  <2>5. CASE Reply
    BY <2>5 DEF Reply
  <2> QED BY <2>1, <2>2, <2>3, <2>4, <2>5 DEF Next
<1> QED BY <1>1, PTL DEF Spec, NoReplyAfterClose

(* After shutdown() with n requests handled: either none was handled       *)
(* since, or one was and the handler loop will not receive again.          *)
AtMostOneMore(n) ==
  /\ closed
  /\ \/ taken <= n
     \/ taken = n + 1 /\ handler \notin {"woken", "writing"}

(* shutdown(): the handler is called at most once more. *)
THEOREM ClosedMeansOneMore == Spec => OneMoreAfterClose
<1>1. ASSUME NEW n \in 0 .. MaxRequests
      PROVE  Spec => [](closed /\ taken = n => [](taken <= n + 1))
  <2>0. n \in Nat
    BY InboundAssumption
  <2>1. InboundInv /\ closed /\ taken = n => AtMostOneMore(n)
    BY <2>0 DEF AtMostOneMore
  <2>2. InboundInv /\ AtMostOneMore(n) => taken <= n + 1
    BY <2>0, InboundAssumption DEF AtMostOneMore, InboundInv, TypeOK
  <2>3. InboundInv /\ AtMostOneMore(n) /\ [Next]_vars => AtMostOneMore(n)'
    <3> SUFFICES ASSUME InboundInv, AtMostOneMore(n), [Next]_vars
                 PROVE  AtMostOneMore(n)'
      OBVIOUS
    <3>0. taken \in Nat /\ closed
      BY InboundAssumption DEF InboundInv, TypeOK, AtMostOneMore
    <3>1. CASE TakeHanded \/ Receive
      <4>1. closed' = closed /\ handler \in {"woken", "writing"}
        BY <3>1 DEF TakeHanded, Receive
      <4>2. taken <= n
        BY <4>1 DEF AtMostOneMore
      <4>3. taken' = taken \/ (taken' = taken + 1 /\ handler' = "handling")
        BY <3>1 DEF TakeHanded, Receive
      <4> QED BY <2>0, <3>0, <4>1, <4>2, <4>3 DEF AtMostOneMore
    <3>2. CASE \/ \E biz \in BOOLEAN : PeerRequests(biz)
               \/ PeerNotifies \/ PeerAnswers \/ PeerEnds \/ CollectEvent
      BY <3>2 DEF PeerRequests, PeerNotifies, PeerAnswers, PeerEnds, CollectEvent, handlerVars,
                  AtMostOneMore
    <3>3. CASE ReaderEnds
      BY <3>3 DEF ReaderEnds, handlerVars, AtMostOneMore
    <3>4. CASE HandlerReturns \/ HandlerEnds
      BY <3>4 DEF HandlerReturns, HandlerEnds, AtMostOneMore
    <3>5. CASE \/ Close \/ ReadFails \/ RejectFirst \/ ReadResponse \/ ReadMessage
               \/ PutRequest \/ EmitEvent \/ CallBack \/ HandlerFails \/ Reply
      BY <3>0, <3>5 DEF Close, ReadFails, RejectFirst, Reading, ReadResponse, ReadMessage,
                        PutRequest, EmitEvent, CallBack, HandlerFails, Reply
    <3>6. CASE UNCHANGED vars
      BY <3>6 DEF vars, handlerVars, AtMostOneMore
    <3> QED BY <3>1, <3>2, <3>3, <3>4, <3>5, <3>6 DEF Next
  <2> QED BY <2>1, <2>2, <2>3, InboundCorrect, PTL DEF Spec
<1> QED BY <1>1 DEF OneMoreAfterClose
=============================================================================
