---------------------------- MODULE ServerProofs ----------------------------
(***************************************************************************)
(* The WebSocket server's handshake permits and its queue of upgraded      *)
(* sessions, for every number of permits, every queue length and any       *)
(* number of clients.                                                      *)
(***************************************************************************)
EXTENDS Server, FiniteSetTheorems, TLAPS

Phases == {"away", "backlog", "incoming", "handshake", "waiting", "ready", "taken", "launched",
           "running", "closed", "abandoned"}

TypeOK ==
  /\ kind \in Kinds
  /\ phase \in [Clients -> Phases]
  /\ permits \in Nat
  /\ acceptor \in {"permit", "accept", "ended"}

(* Of the clients, however many, finitely many are in their handshake or   *)
(* ready at any time.                                                      *)
FewAtOnce ==
  kind = "WebSocket" => IsFiniteSet(In("handshake")) /\ IsFiniteSet(In("ready"))

ServerInv == TypeOK /\ FewAtOnce /\ HandshakesAccounted

-----------------------------------------------------------------------------
(* What Becomes(c, q) does to the set of clients in each phase. *)
LEMMA BecomesFacts ==
  ASSUME phase \in [Clients -> Phases], NEW c \in Clients, NEW q \in Phases, Becomes(c, q)
  PROVE  /\ phase' \in [Clients -> Phases]
         /\ \A r \in Phases : In(r)' = IF r = q THEN In(r) \cup {c} ELSE In(r) \ {c}
  BY DEF Becomes, In

(* CutOff empties the phases it is given and leaves the others alone, but  *)
(* for "closed".                                                           *)
LEMMA CutOffFacts ==
  ASSUME phase \in [Clients -> Phases], NEW ps \in SUBSET Phases, CutOff(ps)
  PROVE  /\ phase' \in [Clients -> Phases]
         /\ \A r \in Phases \ {"closed"} : In(r)' = IF r \in ps THEN {} ELSE In(r)
  BY DEF CutOff, In, Phases

(* The cardinality of a finite set that loses or gains a member. *)
LEMMA OneMoreOrLess ==
  ASSUME NEW S, IsFiniteSet(S), NEW c
  PROVE  /\ Cardinality(S) \in Nat
         /\ IsFiniteSet(S \cup {c}) /\ IsFiniteSet(S \ {c})
         /\ c \notin S => Cardinality(S \cup {c}) = Cardinality(S) + 1 /\ S \ {c} = S
         /\ c \in S => Cardinality(S \ {c}) = Cardinality(S) - 1 /\ S \cup {c} = S
<1>1. c \notin S => S \ {c} = S
  OBVIOUS
<1>2. c \in S => S \cup {c} = S
  OBVIOUS
<1> QED BY <1>1, <1>2, FS_CardinalityType, FS_AddElement, FS_RemoveElement

(* A step that moves no client in or out of "handshake" and "ready" and    *)
(* leaves the permits alone.                                               *)
LEMMA AccountsKept ==
  ASSUME ServerInv, phase' \in [Clients -> Phases],
         In("handshake")' = In("handshake"), In("ready")' = In("ready"),
         UNCHANGED <<kind, permits, acceptor>>
  PROVE  ServerInv'
  BY DEF ServerInv, TypeOK, FewAtOnce, HandshakesAccounted

LEMMA ServerInvInit == Init => ServerInv
<1> SUFFICES ASSUME Init PROVE ServerInv
  OBVIOUS
<1>1. TypeOK
  BY ServerAssumption DEF Init, TypeOK, Phases
<1>2. In("handshake") = {} /\ In("ready") = {}
  BY DEF Init, In
<1>3. IsFiniteSet({}) /\ Cardinality({}) = 0
  BY FS_EmptySet
<1> QED BY <1>1, <1>2, <1>3, ServerAssumption DEF Init, ServerInv, FewAtOnce, HandshakesAccounted

-----------------------------------------------------------------------------
LEMMA ServerInvStep == ServerInv /\ [Next]_vars => ServerInv'
<1> SUFFICES ASSUME ServerInv, [Next]_vars PROVE ServerInv'
  OBVIOUS
<1>0. /\ phase \in [Clients -> Phases] /\ TypeOK
      /\ MaxHandshakes \in Nat /\ MaxPending \in Nat /\ permits \in Nat
  BY ServerAssumption DEF ServerInv, TypeOK
<1>1. ASSUME NEW c \in Clients, NEW q \in Phases, Becomes(c, q),
             UNCHANGED <<kind, permits, acceptor>>,
             kind = "WebSocket" => /\ phase[c] \notin {"handshake", "ready"}
                                   /\ q \notin {"handshake", "ready"}
      PROVE  ServerInv'
  <2>1. phase' \in [Clients -> Phases]
    BY <1>0, <1>1, BecomesFacts
  <2>2. CASE kind = "WebSocket"
    <3>1. In("handshake")' = In("handshake") /\ In("ready")' = In("ready")
      BY <1>0, <1>1, <2>2, BecomesFacts DEF In, Phases
    <3> QED BY <1>1, <2>1, <3>1, AccountsKept
  <2>3. CASE kind # "WebSocket"
    BY <1>0, <1>1, <2>1, <2>3 DEF ServerInv, TypeOK, FewAtOnce, HandshakesAccounted
  <2> QED BY <2>2, <2>3
<1>2. ASSUME NEW c \in Clients, Connect(c)
      PROVE  ServerInv'
  BY <1>1, <1>2 DEF Connect, Phases
<1>3. ASSUME NEW c \in Clients, AcceptTcp(c)
      PROVE  ServerInv'
  <2>1. /\ kind = "WebSocket" /\ kind' = kind /\ permits' = permits
        /\ acceptor = "accept" /\ acceptor' = "permit"
        /\ phase[c] = "backlog" /\ Becomes(c, "handshake")
    BY <1>3 DEF AcceptTcp
  <2>2. /\ phase' \in [Clients -> Phases]
        /\ c \notin In("handshake") /\ c \notin In("ready")
        /\ In("handshake")' = In("handshake") \cup {c} /\ In("ready")' = In("ready") \ {c}
    BY <1>0, <2>1, BecomesFacts DEF In, Phases
  <2>3. IsFiniteSet(In("handshake")) /\ IsFiniteSet(In("ready"))
    BY <2>1 DEF ServerInv, FewAtOnce
  <2>4. /\ Cardinality(In("handshake")) \in Nat
        /\ IsFiniteSet(In("handshake")') /\ In("ready")' = In("ready")
        /\ Cardinality(In("handshake")') = Cardinality(In("handshake")) + 1
    <3>1. /\ IsFiniteSet(In("handshake") \cup {c}) /\ Cardinality(In("handshake")) \in Nat
          /\ Cardinality(In("handshake") \cup {c}) = Cardinality(In("handshake")) + 1
      BY <2>2, <2>3, OneMoreOrLess
    <3>2. In("ready") \ {c} = In("ready")
      BY <2>2
    <3> QED BY <2>2, <3>1, <3>2
  <2>5. permits + Cardinality(In("handshake")) + 1 = MaxHandshakes
    BY <2>1 DEF ServerInv, HandshakesAccounted
  <2>6. HandshakesAccounted'
    BY <1>0, <2>1, <2>4, <2>5 DEF ServerInv, HandshakesAccounted
  <2> QED BY <1>0, <2>1, <2>2, <2>3, <2>4, <2>6 DEF ServerInv, TypeOK, FewAtOnce
<1>4. ASSUME NEW c \in Clients, HandshakeDone(c) \/ HandshakeEnds(c)
      PROVE  ServerInv'
  <2>1. /\ kind = "WebSocket" /\ kind' = kind /\ permits' = permits + 1 /\ acceptor' = acceptor
        /\ phase[c] = "handshake"
    BY <1>4 DEF HandshakeDone, HandshakeEnds
  <2>2. PICK q \in {"ready", "closed"} :
          Becomes(c, q) /\ (q = "ready" => Cardinality(In("ready")) < MaxPending)
    BY <1>4 DEF HandshakeDone, HandshakeEnds
  <2>3. /\ phase' \in [Clients -> Phases]
        /\ c \in In("handshake") /\ c \notin In("ready")
        /\ In("handshake")' = In("handshake") \ {c}
        /\ In("ready")' = IF q = "ready" THEN In("ready") \cup {c} ELSE In("ready") \ {c}
    BY <1>0, <2>1, <2>2, BecomesFacts DEF In, Phases
  <2>4. IsFiniteSet(In("handshake")) /\ IsFiniteSet(In("ready"))
    BY <2>1 DEF ServerInv, FewAtOnce
  <2>5. /\ Cardinality(In("handshake")) \in Nat /\ IsFiniteSet(In("handshake")')
        /\ Cardinality(In("handshake")') = Cardinality(In("handshake")) - 1
    BY <2>3, <2>4, OneMoreOrLess
  <2>6. /\ IsFiniteSet(In("ready")') /\ Cardinality(In("ready")) \in Nat
        /\ \/ In("ready")' = In("ready")
           \/ /\ Cardinality(In("ready")') = Cardinality(In("ready")) + 1
              /\ Cardinality(In("ready")) < MaxPending
    <3>1. /\ IsFiniteSet(In("ready") \cup {c}) /\ Cardinality(In("ready")) \in Nat
          /\ Cardinality(In("ready") \cup {c}) = Cardinality(In("ready")) + 1
      BY <2>3, <2>4, OneMoreOrLess
    <3>2. In("ready") \ {c} = In("ready")
      BY <2>3
    <3> QED BY <2>2, <2>3, <2>4, <3>1, <3>2
  <2>7. permits' + Cardinality(In("handshake")') + (IF acceptor = "accept" THEN 1 ELSE 0)
          = MaxHandshakes
    BY <1>0, <2>1, <2>5 DEF ServerInv, HandshakesAccounted
  <2>8. Cardinality(In("ready")') <= MaxPending
    BY <1>0, <2>1, <2>6 DEF ServerInv, HandshakesAccounted
  <2>9. HandshakesAccounted'
    BY <2>1, <2>7, <2>8 DEF HandshakesAccounted
  <2> QED BY <1>0, <2>1, <2>3, <2>5, <2>6, <2>9 DEF ServerInv, TypeOK, FewAtOnce
<1>5. ASSUME NEW c \in Clients,
             \/ AcceptIncoming(c) \/ QuicHandshakeDone(c) \/ StreamOpened(c) \/ QuicFails(c)
             \/ QuicBegins(c) \/ QuicCancelled(c)
      PROVE  ServerInv'
  <2>1. /\ kind # "WebSocket" /\ UNCHANGED <<kind, permits, acceptor>>
        /\ \E q \in Phases : Becomes(c, q)
    BY <1>5 DEF AcceptIncoming, QuicBegins, QuicHandshakeDone, StreamOpened, QuicFails,
                QuicCancelled, Phases
  <2> QED BY <1>1, <2>1
<1>6. ASSUME NEW c \in Clients, Taken(c)
      PROVE  ServerInv'
  <2>1. /\ UNCHANGED <<kind, permits, acceptor>> /\ Becomes(c, "taken")
        /\ kind = "WebSocket" => phase[c] = "ready"
    BY <1>6 DEF Taken
  <2>2. CASE kind # "WebSocket"
    BY <1>1, <2>1, <2>2 DEF Phases
  <2>3. CASE kind = "WebSocket"
    <3>1. /\ phase' \in [Clients -> Phases]
          /\ c \notin In("handshake") /\ c \in In("ready")
          /\ In("handshake")' = In("handshake") \ {c} /\ In("ready")' = In("ready") \ {c}
      BY <1>0, <2>1, <2>3, BecomesFacts DEF In, Phases
    <3>2. IsFiniteSet(In("handshake")) /\ IsFiniteSet(In("ready"))
      BY <2>3 DEF ServerInv, FewAtOnce
    <3>3. /\ In("handshake")' = In("handshake")
          /\ IsFiniteSet(In("ready")') /\ Cardinality(In("ready")) \in Nat
          /\ Cardinality(In("ready")') = Cardinality(In("ready")) - 1
      <4>1. /\ IsFiniteSet(In("ready") \ {c}) /\ Cardinality(In("ready")) \in Nat
            /\ Cardinality(In("ready") \ {c}) = Cardinality(In("ready")) - 1
        BY <3>1, <3>2, OneMoreOrLess
      <4>2. In("handshake") \ {c} = In("handshake")
        BY <3>1
      <4> QED BY <3>1, <4>1, <4>2
    <3>4. HandshakesAccounted'
      BY <1>0, <2>1, <2>3, <3>3 DEF ServerInv, HandshakesAccounted
    <3> QED BY <1>0, <2>1, <3>1, <3>2, <3>3, <3>4 DEF ServerInv, TypeOK, FewAtOnce
  <2> QED BY <2>2, <2>3
<1>7. ASSUME NEW c \in Clients,
             \/ TakenByReactor(c) \/ Undelivered(c) \/ StartConnection(c)
             \/ OnConnectionThrows(c) \/ OnConnectionCancels(c) \/ LoopsBegin(c) \/ ConnectionEnds(c)
      PROVE  ServerInv'
  <2>1. /\ UNCHANGED <<kind, permits, acceptor>>
        /\ \E q \in {"taken", "launched", "running", "closed", "abandoned"} : Becomes(c, q)
        /\ kind = "WebSocket" => phase[c] \in {"taken", "launched", "running"}
    BY <1>7 DEF TakenByReactor, Undelivered, StartConnection, OnConnectionThrows,
                OnConnectionCancels, LoopsBegin, ConnectionEnds
  <2> QED BY <1>1, <2>1 DEF Phases
<1>8. CASE AcquirePermit
  <2>1. /\ acceptor = "permit" /\ acceptor' = "accept" /\ permits > 0 /\ permits' = permits - 1
        /\ kind' = kind /\ phase' = phase /\ In("handshake")' = In("handshake")
        /\ In("ready")' = In("ready")
    BY <1>8 DEF AcquirePermit, In
  <2>2. kind = "WebSocket" => Cardinality(In("handshake")) \in Nat
    BY FS_CardinalityType DEF ServerInv, FewAtOnce
  <2>3. HandshakesAccounted'
    BY <1>0, <2>1, <2>2 DEF ServerInv, HandshakesAccounted
  <2> QED BY <1>0, <2>1, <2>3 DEF ServerInv, TypeOK, FewAtOnce
<1>9. CASE AcceptorEnds
  <2>1. /\ kind = "WebSocket" /\ kind' = kind /\ acceptor # "ended" /\ acceptor' = "ended"
        /\ permits' = IF acceptor = "accept" THEN permits + 1 ELSE permits
        /\ CutOff({"backlog", "ready"})
    BY <1>9 DEF AcceptorEnds
  <2>2. /\ phase' \in [Clients -> Phases]
        /\ In("handshake")' = In("handshake") /\ In("ready")' = {}
    BY <1>0, <2>1, CutOffFacts DEF Phases
  <2>3. /\ IsFiniteSet(In("handshake")) /\ Cardinality(In("handshake")) \in Nat
        /\ IsFiniteSet({}) /\ Cardinality({}) = 0
    BY <2>1, FS_EmptySet, FS_CardinalityType DEF ServerInv, FewAtOnce
  <2>4. HandshakesAccounted'
    BY <1>0, <2>1, <2>2, <2>3 DEF ServerInv, HandshakesAccounted
  <2>5. permits' \in Nat
    BY <1>0, <2>1
  <2> QED BY <1>0, <2>1, <2>2, <2>3, <2>4, <2>5 DEF ServerInv, TypeOK, FewAtOnce
<1>10. CASE Close
  <2>1. UNCHANGED <<kind, permits, acceptor>> /\ CutOff({"backlog", "ready"})
    BY <1>10 DEF Close
  <2>2. /\ phase' \in [Clients -> Phases]
        /\ In("handshake")' = In("handshake") /\ In("ready")' = {}
    BY <1>0, <2>1, CutOffFacts DEF Phases
  <2>3. IsFiniteSet({}) /\ Cardinality({}) = 0
    BY FS_EmptySet
  <2>4. HandshakesAccounted'
    BY <1>0, <2>1, <2>2, <2>3 DEF ServerInv, HandshakesAccounted
  <2> QED BY <1>0, <2>1, <2>2, <2>3, <2>4 DEF ServerInv, TypeOK, FewAtOnce
<1>11. CASE QuicAcceptorEnds \/ QuicAcceptorFails
  <2>1. /\ kind = "QUIC" /\ kind' = kind /\ acceptor' = "ended" /\ permits' = permits
        /\ CutOff({"backlog"})
    BY <1>11 DEF QuicAcceptorEnds, QuicAcceptorFails
  <2>2. phase' \in [Clients -> Phases]
    BY <1>0, <2>1, CutOffFacts DEF Phases
  <2> QED BY <1>0, <2>1, <2>2 DEF ServerInv, TypeOK, FewAtOnce, HandshakesAccounted
<1>12. CASE CancelScope \/ LoopEnds \/ UNCHANGED vars
  <2>1. UNCHANGED <<kind, phase, permits, acceptor>>
    BY <1>12 DEF CancelScope, LoopEnds, vars
  <2> QED BY <1>0, <2>1, AccountsKept DEF In
<1> QED BY <1>2, <1>3, <1>4, <1>5, <1>6, <1>7, <1>8, <1>9, <1>10, <1>11, <1>12 DEF Next

(* maxConcurrentHandshakes and maxPendingConnections: through failure,     *)
(* timeout, overflow and cancellation no permit is lost or returned twice, *)
(* and the queue of upgraded sessions keeps its bound.                     *)
THEOREM PermitsAccounted == Spec => []HandshakesAccounted
<1>1. ServerInv => HandshakesAccounted
  BY DEF ServerInv
<1> QED BY <1>1, ServerInvInit, ServerInvStep, PTL DEF Spec

-----------------------------------------------------------------------------
(* Why close() stops accepting: it closes the listener, whose backlog is   *)
(* cut off, cancels the acceptor's scope and empties the queue, and        *)
(* neither fills again.                                                    *)
Closes ==
  /\ phase \in [Clients -> Phases]
  /\ closing => down
  /\ down => ~listening
  /\ ~listening => \A c \in Clients : phase[c] # "backlog"
  /\ closing => \A c \in Clients : phase[c] # "ready"

LEMMA ClosesInit == Init => Closes
  BY DEF Init, Closes, Phases

LEMMA ClosesStep == Closes /\ [Next]_vars => Closes'
<1> SUFFICES ASSUME Closes, [Next]_vars PROVE Closes'
  OBVIOUS
<1>1. ASSUME NEW c \in Clients, NEW q \in Phases, Becomes(c, q),
             UNCHANGED <<listening, down, closing>>,
             q = "backlog" => listening, q = "ready" => ~down
      PROVE  Closes'
  BY <1>1 DEF Closes, Becomes
<1>2. ASSUME NEW c \in Clients,
             \/ Connect(c) \/ AcceptTcp(c) \/ HandshakeDone(c) \/ HandshakeEnds(c)
             \/ AcceptIncoming(c) \/ QuicHandshakeDone(c) \/ StreamOpened(c) \/ QuicFails(c)
             \/ QuicBegins(c) \/ QuicCancelled(c)
      PROVE  Closes'
  <2>1. /\ UNCHANGED <<listening, down, closing>>
        /\ \E q \in Phases : Becomes(c, q) /\ (q = "backlog" => listening) /\ (q = "ready" => ~down)
    BY <1>2 DEF Connect, AcceptTcp, HandshakeDone, HandshakeEnds, AcceptIncoming, QuicBegins,
                QuicHandshakeDone, StreamOpened, QuicFails, QuicCancelled, Phases
  <2> QED BY <1>1, <2>1
<1>3. ASSUME NEW c \in Clients,
             \/ Taken(c) \/ TakenByReactor(c) \/ Undelivered(c) \/ StartConnection(c)
             \/ OnConnectionThrows(c) \/ OnConnectionCancels(c) \/ LoopsBegin(c) \/ ConnectionEnds(c)
      PROVE  Closes'
  <2>1. /\ UNCHANGED <<listening, down, closing>>
        /\ \E q \in {"taken", "closed", "launched", "running", "abandoned"} : Becomes(c, q)
    BY <1>3 DEF Taken, TakenByReactor, Undelivered, StartConnection, OnConnectionThrows,
                OnConnectionCancels, LoopsBegin, ConnectionEnds
  <2> QED BY <1>1, <2>1 DEF Phases
<1>4. CASE AcceptorEnds \/ Close
  BY <1>4 DEF AcceptorEnds, Close, CutOff, Closes, Phases
<1>5. CASE QuicAcceptorEnds \/ QuicAcceptorFails
  <2>1. /\ listening' = FALSE /\ closing' = closing /\ CutOff({"backlog"})
        /\ down' = down \/ down' = TRUE
    BY <1>5 DEF QuicAcceptorEnds, QuicAcceptorFails
  <2>2. phase \in [Clients -> Phases]
    BY DEF Closes
  <2>3. /\ phase' \in [Clients -> Phases]
        /\ \A c \in Clients : phase'[c] \in {phase[c], "closed"} /\ phase'[c] # "backlog"
    BY <2>1, <2>2 DEF CutOff, Phases
  <2>4. closing => down
    BY DEF Closes
  <2>5. (closing => down)' /\ (down => ~listening)'
    BY <2>1, <2>4
  <2> QED BY <2>1, <2>3, <2>5 DEF Closes
<1>6. CASE AcquirePermit \/ CancelScope \/ LoopEnds \/ UNCHANGED vars
  <2>1. UNCHANGED <<phase, listening, down, closing>>
    BY <1>6 DEF AcquirePermit, CancelScope, LoopEnds, vars
  <2> QED BY <2>1 DEF Closes
<1> QED BY <1>2, <1>3, <1>4, <1>5, <1>6 DEF Next

(* close() of any of the acceptors: no session is handed to                *)
(* startConnection() after it.                                             *)
THEOREM CloseStopsAccepting == Spec => NothingHandedOut
<1>1. Closes /\ [Next]_vars =>
        [closing => \A c \in Clients : phase'[c] = "taken" => phase[c] = "taken"]_vars
  <2> SUFFICES ASSUME Closes, Next, closing, NEW d \in Clients, phase'[d] = "taken"
               PROVE  phase[d] = "taken"
    OBVIOUS
  <2>0. /\ phase \in [Clients -> Phases] /\ ~listening /\ down
        /\ phase[d] # "backlog" /\ phase[d] # "ready"
    BY DEF Closes
  <2>1. ASSUME NEW c \in Clients,
               \/ Connect(c) \/ AcceptTcp(c) \/ HandshakeDone(c) \/ HandshakeEnds(c)
               \/ AcceptIncoming(c) \/ QuicHandshakeDone(c) \/ StreamOpened(c) \/ QuicFails(c)
               \/ QuicBegins(c) \/ QuicCancelled(c)
               \/ Undelivered(c) \/ StartConnection(c)
               \/ OnConnectionThrows(c) \/ OnConnectionCancels(c) \/ LoopsBegin(c)
               \/ ConnectionEnds(c)
        PROVE  phase[d] = "taken"
    BY <2>0, <2>1 DEF Connect, AcceptTcp, HandshakeDone, HandshakeEnds, AcceptIncoming,
                      QuicBegins, QuicHandshakeDone, StreamOpened, QuicFails, QuicCancelled,
                      Undelivered, StartConnection, OnConnectionThrows, OnConnectionCancels,
                      LoopsBegin, ConnectionEnds, Becomes
  <2>2. ASSUME NEW c \in Clients, Taken(c) \/ TakenByReactor(c)
        PROVE  phase[d] = "taken"
    <3>1. phase[c] \in {"backlog", "ready"}
      BY <2>2 DEF Taken, TakenByReactor
    <3> QED BY <2>0, <3>1 DEF Closes
  <2>3. CASE AcceptorEnds \/ Close \/ QuicAcceptorEnds \/ QuicAcceptorFails
    BY <2>0, <2>3 DEF AcceptorEnds, Close, QuicAcceptorEnds, QuicAcceptorFails, CutOff
  <2>4. CASE AcquirePermit \/ CancelScope \/ LoopEnds
    BY <2>4 DEF AcquirePermit, CancelScope, LoopEnds
  <2> QED BY <2>1, <2>2, <2>3, <2>4 DEF Next
<1> QED BY <1>1, ClosesInit, ClosesStep, PTL DEF Spec, NothingHandedOut
=============================================================================
