----------------------- MODULE WebSocketStreamProofs ------------------------
(***************************************************************************)
(* Proofs about WebSocketStream: packets reach the WebSocket whole and in  *)
(* order, a write that returns has sent them, and neither the keepalive    *)
(* nor the closing handshake cuts a connection whose peer answers.         *)
(***************************************************************************)
EXTENDS WebSocketStream, WellFoundedInduction, TLAPS

-----------------------------------------------------------------------------
(* Sequences *)

Distinct(s) == \A i, j \in 1 .. Len(s) : s[i] = s[j] => i = j

LEMMA ConcatFacts ==
  ASSUME NEW T, NEW a \in Seq(T), NEW b \in Seq(T)
  PROVE  /\ a \o b \in Seq(T) /\ Len(a \o b) = Len(a) + Len(b)
         /\ \A i \in 1 .. Len(a) : (a \o b)[i] = a[i]
         /\ \A i \in 1 .. Len(b) : (a \o b)[Len(a) + i] = b[i]
<1>1. Len(a) \in Nat /\ Len(b) \in Nat /\ a \o b \in Seq(T) /\ Len(a \o b) = Len(a) + Len(b)
  OBVIOUS
<1>2. ASSUME NEW i \in 1 .. Len(a) PROVE (a \o b)[i] = a[i]
  OBVIOUS
<1>3. ASSUME NEW i \in 1 .. Len(b) PROVE (a \o b)[Len(a) + i] = b[i]
  <2>1. Len(a) + i \in 1 .. Len(a) + Len(b) /\ ~(Len(a) + i <= Len(a)) /\ (Len(a) + i) - Len(a) = i
    BY <1>1
  <2> QED BY <1>1, <2>1
<1> QED BY <1>1, <1>2, <1>3

LEMMA SeqByItems ==
  ASSUME NEW T, NEW s \in Seq(T)
  PROVE  s = [i \in 1 .. Len(s) |-> s[i]]
  OBVIOUS

LEMMA SuffixFacts ==
  ASSUME NEW T, NEW s \in Seq(T), NEW k \in 1 .. Len(s)
  PROVE  /\ SubSeq(s, k + 1, Len(s)) \in Seq(T)
         /\ Len(SubSeq(s, k + 1, Len(s))) = Len(s) - k
         /\ \A i \in 1 .. Len(s) - k : SubSeq(s, k + 1, Len(s))[i] = s[k + i]
<1> DEFINE b == SubSeq(s, k + 1, Len(s))
<1>1. Len(s) \in Nat /\ b \in Seq(T)
  OBVIOUS
<1>2. Len(b) = Len(s) - k
  BY <1>1
<1>3. ASSUME NEW i \in 1 .. Len(s) - k PROVE b[i] = s[k + i]
  <2>1. i \in 1 .. (Len(s) - (k + 1)) + 1 /\ ((k + 1) + i) - 1 = k + i
    BY <1>1
  <2> QED BY <1>1, <2>1
<1> QED BY <1>1, <1>2, <1>3

LEMMA EmptyQueue == ToSet(<<>>) = {} /\ Distinct(<<>>) /\ <<>> \in Seq(Actors)
  BY DEF ToSet, Distinct

(* What an appended element, a concatenation and a tail hold. *)
LEMMA AppendHolds ==
  ASSUME NEW T, NEW s \in Seq(T), NEW e \in T
  PROVE  ToSet(Append(s, e)) = ToSet(s) \cup {e} /\ Append(s, e) \in Seq(T)
<1>1. PICK t : t = Append(s, e)
  OBVIOUS
<1>2. /\ t \in Seq(T) /\ Len(t) = Len(s) + 1 /\ Len(s) \in Nat /\ t[Len(s) + 1] = e
      /\ \A i \in 1 .. Len(s) : t[i] = s[i]
      /\ DOMAIN s = 1 .. Len(s) /\ DOMAIN t = 1 .. Len(s) + 1
  BY <1>1
<1>3. ASSUME NEW x \in ToSet(t) PROVE x \in ToSet(s) \cup {e}
  <2>1. PICK i \in 1 .. Len(s) + 1 : x = t[i]
    BY <1>2 DEF ToSet
  <2>2. i \in 1 .. Len(s) \/ i = Len(s) + 1
    BY <1>2
  <2> QED BY <1>2, <2>1, <2>2 DEF ToSet
<1>4. ASSUME NEW x \in ToSet(s) PROVE x \in ToSet(t)
  <2>1. PICK i \in 1 .. Len(s) : x = s[i]
    BY <1>2 DEF ToSet
  <2>2. i \in 1 .. Len(s) + 1
    BY <1>2
  <2> QED BY <1>2, <2>1, <2>2 DEF ToSet
<1>5. e \in ToSet(t)
  <2>1. Len(s) + 1 \in 1 .. Len(s) + 1
    BY <1>2
  <2> QED BY <1>2, <2>1 DEF ToSet
<1> QED BY <1>1, <1>2, <1>3, <1>4, <1>5

LEMMA ConcatHolds ==
  ASSUME NEW T, NEW a \in Seq(T), NEW b \in Seq(T)
  PROVE  ToSet(a \o b) = ToSet(a) \cup ToSet(b)
<1>1. PICK t, m, n : t = a \o b /\ m = Len(a) /\ n = Len(b)
  OBVIOUS
<1>2. /\ a \o b \in Seq(T) /\ Len(a \o b) = Len(a) + Len(b)
      /\ \A i \in 1 .. Len(a) : (a \o b)[i] = a[i]
      /\ \A i \in 1 .. Len(b) : (a \o b)[Len(a) + i] = b[i]
  BY ConcatFacts
<1>3. /\ m \in Nat /\ n \in Nat /\ DOMAIN a = 1 .. m /\ DOMAIN b = 1 .. n
      /\ DOMAIN t = 1 .. m + n
      /\ (\A i \in 1 .. m : t[i] = a[i]) /\ (\A i \in 1 .. n : t[m + i] = b[i])
  BY <1>1, <1>2
<1>4. ASSUME NEW x \in ToSet(t) PROVE x \in ToSet(a) \cup ToSet(b)
  <2>1. PICK i \in 1 .. m + n : x = t[i]
    BY <1>3 DEF ToSet
  <2>2. CASE i <= m
    <3>1. i \in 1 .. m
      BY <1>3, <2>2
    <3> QED BY <1>3, <2>1, <3>1 DEF ToSet
  <2>3. CASE ~(i <= m)
    <3>1. i - m \in 1 .. n /\ m + (i - m) = i
      BY <1>3, <2>3
    <3>2. x = b[i - m]
      BY <1>3, <2>1, <3>1
    <3> QED BY <1>3, <3>1, <3>2 DEF ToSet
  <2> QED BY <2>2, <2>3
<1>5. ASSUME NEW x \in ToSet(a) PROVE x \in ToSet(t)
  <2>1. PICK i \in 1 .. m : x = a[i]
    BY <1>3 DEF ToSet
  <2>2. i \in 1 .. m + n
    BY <1>3
  <2> QED BY <1>3, <2>1, <2>2 DEF ToSet
<1>6. ASSUME NEW x \in ToSet(b) PROVE x \in ToSet(t)
  <2>1. PICK i \in 1 .. n : x = b[i]
    BY <1>3 DEF ToSet
  <2>2. m + i \in 1 .. m + n
    BY <1>3
  <2> QED BY <1>3, <2>1, <2>2 DEF ToSet
<1> QED BY <1>1, <1>4, <1>5, <1>6

LEMMA TailHolds ==
  ASSUME NEW T, NEW s \in Seq(T), s # <<>>
  PROVE  /\ Head(s) \in T /\ Tail(s) \in Seq(T) /\ Len(Tail(s)) = Len(s) - 1 /\ Head(s) = s[1]
         /\ \A i \in 1 .. Len(s) - 1 : Tail(s)[i] = s[i + 1]
         /\ ToSet(s) = ToSet(Tail(s)) \cup {Head(s)}
<1>1. PICK t, n, h : t = Tail(s) /\ n = Len(s) /\ h = Head(s)
  OBVIOUS
<1>2. /\ n \in Nat \ {0} /\ t \in Seq(T) /\ Len(t) = n - 1 /\ h = s[1] /\ h \in T
      /\ \A i \in 1 .. n - 1 : t[i] = s[i + 1]
      /\ DOMAIN s = 1 .. n /\ DOMAIN t = 1 .. n - 1
  BY <1>1
<1>3. ASSUME NEW x \in ToSet(s), x # h PROVE x \in ToSet(t)
  <2>1. PICK i \in 1 .. n : x = s[i]
    BY <1>2 DEF ToSet
  <2>2. i - 1 \in 1 .. n - 1 /\ (i - 1) + 1 = i
    BY <1>2, <1>3, <2>1
  <2>3. t[i - 1] = x
    BY <1>2, <2>1, <2>2
  <2> QED BY <1>2, <2>2, <2>3 DEF ToSet
<1>4. ASSUME NEW x \in ToSet(t) PROVE x \in ToSet(s)
  <2>1. PICK i \in 1 .. n - 1 : x = t[i]
    BY <1>2 DEF ToSet
  <2>2. i + 1 \in 1 .. n
    BY <1>2
  <2> QED BY <1>2, <2>1, <2>2 DEF ToSet
<1>5. h \in ToSet(s)
  <2>1. 1 \in 1 .. n
    BY <1>2
  <2> QED BY <1>2, <2>1 DEF ToSet
<1> QED BY <1>1, <1>2, <1>3, <1>4, <1>5

(* Waiting, the lock's hand-over and a cancellation keep every coroutine   *)
(* at most once in the queue.                                              *)
LEMMA AppendDistinct ==
  ASSUME NEW T, NEW s \in Seq(T), NEW e \in T, Distinct(s), e \notin ToSet(s)
  PROVE  Distinct(Append(s, e))
<1>1. PICK t : t = Append(s, e)
  OBVIOUS
<1>2. /\ Len(t) = Len(s) + 1 /\ Len(s) \in Nat /\ t[Len(s) + 1] = e
      /\ \A i \in 1 .. Len(s) : t[i] = s[i] /\ s[i] \in ToSet(s)
  BY <1>1 DEF ToSet
<1>3. \A i \in 1 .. Len(t) : i \in 1 .. Len(s) \/ i = Len(s) + 1
  BY <1>2
<1> QED BY <1>1, <1>2, <1>3 DEF Distinct

LEMMA TailDistinct ==
  ASSUME NEW T, NEW s \in Seq(T), s # <<>>, Distinct(s)
  PROVE  Distinct(Tail(s)) /\ ToSet(Tail(s)) = ToSet(s) \ {Head(s)}
<1>1. PICK t, n, h : t = Tail(s) /\ n = Len(s) /\ h = Head(s)
  OBVIOUS
<1>2. /\ Head(s) \in T /\ Tail(s) \in Seq(T) /\ Len(Tail(s)) = Len(s) - 1 /\ Head(s) = s[1]
      /\ \A i \in 1 .. Len(s) - 1 : Tail(s)[i] = s[i + 1]
      /\ ToSet(s) = ToSet(Tail(s)) \cup {Head(s)}
  BY TailHolds
<1>3. /\ n \in Nat \ {0} /\ Len(t) = n - 1 /\ h = s[1] /\ DOMAIN t = 1 .. n - 1
      /\ \A i \in 1 .. n - 1 : t[i] = s[i + 1]
  BY <1>1, <1>2
<1>4. \A i \in 1 .. n - 1 : i + 1 \in 1 .. n /\ i + 1 # 1
  BY <1>3
<1>5. Distinct(t)
  <2>1. \A i, j \in 1 .. n - 1 : t[i] = t[j] => i + 1 = j + 1
    BY <1>1, <1>3, <1>4 DEF Distinct
  <2>2. \A i, j \in 1 .. n - 1 : i + 1 = j + 1 => i = j
    BY <1>3
  <2> QED BY <1>3, <2>1, <2>2 DEF Distinct
<1>6. h \notin ToSet(t)
  <2>1. 1 \in 1 .. n
    BY <1>3
  <2>2. \A i \in 1 .. n - 1 : t[i] # h
    BY <1>1, <1>3, <1>4, <2>1 DEF Distinct
  <2> QED BY <1>3, <2>2 DEF ToSet
<1> QED BY <1>1, <1>2, <1>5, <1>6

LEMMA WithoutQueue ==
  ASSUME NEW T, NEW s \in Seq(T), NEW e, Distinct(s)
  PROVE  /\ ToSet(Without(s, e)) = ToSet(s) \ {e}
         /\ Distinct(Without(s, e)) /\ Without(s, e) \in Seq(T)
<1>1. CASE \E i \in 1 .. Len(s) : s[i] = e
  <2> DEFINE k == CHOOSE i \in 1 .. Len(s) : s[i] = e
             t == Without(s, e)
  <2>1. k \in 1 .. Len(s) /\ s[k] = e
    BY <1>1
  <2>2. t = RemoveAt(s, k)
    BY <1>1 DEF Without
  <2> HIDE DEF k, t
  <2>3. Len(s) \in Nat /\ DOMAIN s = 1 .. Len(s) /\ \A i \in 1 .. Len(s) : s[i] \in T
    OBVIOUS
  <2>4. /\ t \in Seq(T) /\ Len(t) = Len(s) - 1 /\ DOMAIN t = 1 .. Len(t)
        /\ \A i \in 1 .. Len(t) : t[i] = IF i < k THEN s[i] ELSE s[i + 1]
    <3> DEFINE a == SubSeq(s, 1, k - 1)
               b == SubSeq(s, k + 1, Len(s))
    <3>1. /\ a \in Seq(T) /\ Len(a) = k - 1
          /\ \A i \in 1 .. k - 1 : a[i] = s[i]
      BY <2>1, <2>3
    <3>2. /\ b \in Seq(T) /\ Len(b) = Len(s) - k
          /\ \A i \in 1 .. Len(s) - k : b[i] = s[k + i]
      BY <2>1, SuffixFacts
    <3>3. t = a \o b
      BY <2>2 DEF RemoveAt
    <3> HIDE DEF a, b
    <3>4. /\ t \in Seq(T) /\ Len(t) = Len(a) + Len(b)
          /\ \A i \in 1 .. Len(a) : t[i] = a[i]
          /\ \A i \in 1 .. Len(b) : t[Len(a) + i] = b[i]
      <4>1. a \in Seq(T) /\ b \in Seq(T)
        BY <3>1, <3>2
      <4>2. /\ a \o b \in Seq(T) /\ Len(a \o b) = Len(a) + Len(b)
            /\ \A i \in 1 .. Len(a) : (a \o b)[i] = a[i]
            /\ \A i \in 1 .. Len(b) : (a \o b)[Len(a) + i] = b[i]
        BY <4>1, ConcatFacts
      <4> QED BY <3>3, <4>2, Zenon
    <3>5. Len(t) = Len(s) - 1 /\ DOMAIN t = 1 .. Len(t)
      BY <2>1, <2>3, <3>1, <3>2, <3>4
    <3>6. ASSUME NEW i \in 1 .. Len(t), i < k PROVE t[i] = s[i]
      BY <2>1, <3>1, <3>4, <3>5, <3>6
    <3>7. ASSUME NEW i \in 1 .. Len(t), ~(i < k) PROVE t[i] = s[i + 1]
      <4>1. i - (k - 1) \in 1 .. Len(b) /\ i - (k - 1) \in 1 .. Len(s) - k
        BY <2>1, <2>3, <3>2, <3>5, <3>7
      <4>2. t[(k - 1) + (i - (k - 1))] = s[k + (i - (k - 1))]
        BY <3>1, <3>2, <3>4, <4>1
      <4>3. (k - 1) + (i - (k - 1)) = i /\ k + (i - (k - 1)) = i + 1
        BY <2>1
      <4> QED BY <4>2, <4>3
    <3> QED BY <3>4, <3>5, <3>6, <3>7
  <2>5. ASSUME NEW x \in ToSet(t) PROVE x \in ToSet(s) \ {e}
    <3>1. PICK i \in 1 .. Len(t) : x = t[i]
      BY <2>4 DEF ToSet
    <3>2. PICK j \in 1 .. Len(s) : x = s[j] /\ j # k
      <4>1. i \in 1 .. Len(s) /\ i + 1 \in 1 .. Len(s)
        BY <2>3, <2>4
      <4> QED BY <2>1, <2>3, <2>4, <3>1, <4>1
    <3> QED BY <2>1, <2>3, <3>2 DEF ToSet, Distinct
  <2>6. ASSUME NEW x \in ToSet(s) \ {e} PROVE x \in ToSet(t)
    <3>1. PICK j \in 1 .. Len(s) : x = s[j] /\ j # k
      BY <2>1, <2>3 DEF ToSet
    <3>2. CASE j < k
      <4>1. j \in 1 .. Len(t)
        BY <2>1, <2>3, <2>4, <3>2
      <4> QED BY <2>4, <3>1, <3>2, <4>1 DEF ToSet
    <3>3. CASE ~(j < k)
      <4>1. j - 1 \in 1 .. Len(t) /\ ~(j - 1 < k) /\ (j - 1) + 1 = j
        BY <2>1, <2>3, <2>4, <3>1, <3>3
      <4>2. t[j - 1] = s[j]
        BY <2>4, <4>1
      <4> QED BY <2>4, <3>1, <4>1, <4>2 DEF ToSet
    <3> QED BY <3>2, <3>3
  <2>7. Distinct(t)
    <3>1. SUFFICES ASSUME NEW i \in 1 .. Len(t), NEW j \in 1 .. Len(t), t[i] = t[j]
                   PROVE  i = j
      BY DEF Distinct
    <3> DEFINE m == IF i < k THEN i ELSE i + 1
               n == IF j < k THEN j ELSE j + 1
    <3>2. m \in 1 .. Len(s) /\ n \in 1 .. Len(s) /\ s[m] = t[i] /\ s[n] = t[j]
      BY <2>1, <2>3, <2>4
    <3>3. m = n
      BY <3>1, <3>2 DEF Distinct
    <3> QED BY <2>1, <3>3
  <2>8. ToSet(t) = ToSet(s) \ {e}
    BY <2>5, <2>6
  <2> QED BY <2>4, <2>7, <2>8 DEF t
<1>2. CASE ~ \E i \in 1 .. Len(s) : s[i] = e
  <2>1. e \notin ToSet(s)
    BY <1>2 DEF ToSet
  <2> QED BY <1>2, <2>1 DEF Without
<1> QED BY <1>1, <1>2

-----------------------------------------------------------------------------
(* The inductive invariant *)

Places == {"idle", "sleep", "none", "lock", "flush", "pong", "failed", "cancelled", "ended"}
Messages == 0 .. MaxPackets + 1

TypesOK ==
  /\ pc \in [Actors -> Places]
  /\ out \in Seq(Messages) /\ wire \in Seq(Messages)
  /\ written \in 0 .. 2 * MaxPackets
  /\ inbox \in Seq({"pong", "packet"}) /\ reader \in {"reading", "blocked"}
  /\ torn \in Nat

(* Whoever waits for writeLock is in the queue of somebody who holds it,   *)
(* and only coroutines on their way through withLock do either.            *)
LockOK(l, q, p) ==
  /\ q \in Seq(Actors) /\ Distinct(q)
  /\ l \in Actors \cup {Nobody} /\ l \notin ToSet(q)
  /\ l = Nobody => q = <<>>
  /\ \A a \in Actors : p[a] = "lock" => a = l \/ a \in ToSet(q)
  /\ \A a \in ToSet(q) : p[a] \in {"lock", "cancelled"}
  /\ l \in Actors => p[l] \in {"lock", "flush", "cancelled"}

(* The Close frame is fed once, by the closer. *)
CloseOK ==
  /\ pc["closer"] # "cancelled"
  /\ pc["closer"] # "none" => closed
  /\ pc["closer"] \in {"none", "lock"} => CloseFrame \notin ToSet(out) \cup ToSet(wire)
  /\ pc["closer"] = "flush" => CloseFrame \in ToSet(out) \cup ToSet(wire)

(* A writer in flush() left no whole packet behind, and one that is not    *)
(* left nothing in the WebSocket unless it was cancelled.                  *)
WriterOK ==
  /\ pc["writer"] # "cancelled"
  /\ pc["writer"] = "flush" => Len(pending) < 2
  /\ torn = 0 /\ pc["writer"] \in {"idle", "lock"} => PacketsIn(out) = {}

(* A ping whose pong was not read is in the WebSocket, with the peer, or   *)
(* its pong is under way.                                                  *)
PongOK ==
  /\ ~ponged /\ pc["keepalive"] = "flush" => Ping \in ToSet(out) \/ pinged \/ "pong" \in ToSet(inbox)
  /\ ~ponged /\ pc["keepalive"] = "pong" => pinged \/ "pong" \in ToSet(inbox)


-----------------------------------------------------------------------------
(* writeLock *)

Away == Places \ {"lock", "flush", "cancelled"}
Moves(p, r, a, w) == p \in [Actors -> Places] /\ r = [p EXCEPT ![a] = w]
Taken(l, q, a, m, t) == IF l = Nobody THEN m = a /\ t = q ELSE t = Append(q, a) /\ m = l
Given(l, q, a, m, t) ==
  IF l # a THEN t = Without(q, a) /\ m = l
  ELSE IF q = <<>> THEN m = Nobody /\ t = q ELSE m = Head(q) /\ t = Tail(q)

LEMMA MovesTo ==
  ASSUME NEW p, NEW r, NEW a \in Actors, NEW w \in Places, Moves(p, r, a, w)
  PROVE  r \in [Actors -> Places] /\ \A b \in Actors : r[b] = IF b = a THEN w ELSE p[b]
  BY DEF Moves

LEMMA QueueOfActors ==
  ASSUME NEW q \in Seq(Actors)
  PROVE  ToSet(q) \subseteq Actors /\ Nobody \notin Actors /\ (q = <<>> <=> ToSet(q) = {})
<1>1. Len(q) \in Nat /\ \A i \in DOMAIN q : q[i] \in Actors
  OBVIOUS
<1>2. q # <<>> => 1 \in DOMAIN q
  BY <1>1
<1> QED BY <1>1, <1>2 DEF ToSet, Actors, Nobody

LEMMA LockTaken ==
  ASSUME NEW l, NEW q, NEW p, LockOK(l, q, p), NEW a \in Actors, p[a] \in Away,
         NEW r, Moves(p, r, a, "lock"), NEW m, NEW t, Taken(l, q, a, m, t)
  PROVE  LockOK(m, t, r)
<1>1. \A b \in Actors : r[b] = IF b = a THEN "lock" ELSE p[b]
  BY MovesTo DEF Places
<1>2. q \in Seq(Actors) /\ Distinct(q) /\ ToSet(q) \subseteq Actors /\ (q = <<>> <=> ToSet(q) = {})
  BY QueueOfActors DEF LockOK
<1>3. a # l /\ a \notin ToSet(q) /\ a # Nobody
  BY QueueOfActors DEF LockOK, Away, Actors, Nobody
<1>4. CASE l = Nobody
  <2>1. m = a /\ t = q /\ q = <<>> /\ ToSet(t) = {}
    BY <1>2, <1>4 DEF LockOK, Taken
  <2>2. \A b \in Actors : p[b] # "lock"
    BY <1>2, <1>4, <2>1, QueueOfActors DEF LockOK, Actors, Nobody
  <2> QED BY <1>1, <1>2, <1>3, <2>1, <2>2 DEF LockOK
<1>5. CASE l # Nobody
  <2>1. t = Append(q, a) /\ m = l
    BY <1>5 DEF Taken
  <2>2. ToSet(t) = ToSet(q) \cup {a} /\ t \in Seq(Actors)
    BY <1>2, <2>1, AppendHolds
  <2>3. Distinct(t)
    BY <1>2, <1>3, <2>1, AppendDistinct
  <2> QED BY <1>1, <1>2, <1>3, <1>5, <2>1, <2>2, <2>3 DEF LockOK
<1> QED BY <1>4, <1>5

LEMMA LockGiven ==
  ASSUME NEW l, NEW q, NEW p, LockOK(l, q, p), NEW a \in Actors, NEW w \in Away,
         NEW r, Moves(p, r, a, w), NEW m, NEW t, Given(l, q, a, m, t)
  PROVE  LockOK(m, t, r)
<1>1. w \in Places /\ w \notin {"lock", "flush", "cancelled"}
  BY DEF Away
<1>2. \A b \in Actors : r[b] = IF b = a THEN w ELSE p[b]
  BY <1>1 DEF Moves
<1>3. q \in Seq(Actors) /\ Distinct(q) /\ ToSet(q) \subseteq Actors /\ (q = <<>> <=> ToSet(q) = {})
  BY QueueOfActors DEF LockOK
<1>4. Nobody \notin Actors
  BY DEF Actors, Nobody
<1>5. CASE l # a
  <2>1. t = Without(q, a) /\ m = l
    BY <1>5 DEF Given
  <2>2. ToSet(t) = ToSet(q) \ {a} /\ Distinct(t) /\ t \in Seq(Actors)
    BY <1>3, <2>1, WithoutQueue
  <2>3. t = <<>> <=> ToSet(t) = {}
    BY <2>2, QueueOfActors
  <2> QED BY <1>1, <1>2, <1>3, <1>4, <1>5, <2>1, <2>2, <2>3 DEF LockOK
<1>6. CASE l = a /\ q = <<>>
  <2>1. m = Nobody /\ t = <<>> /\ ToSet(t) = {}
    BY <1>3, <1>6 DEF Given
  <2> QED BY <1>1, <1>2, <1>3, <1>4, <1>6, <2>1 DEF LockOK
<1>7. CASE l = a /\ q # <<>>
  <2>1. m = Head(q) /\ t = Tail(q)
    BY <1>7 DEF Given
  <2>2. Head(q) \in Actors /\ t \in Seq(Actors) /\ ToSet(q) = ToSet(t) \cup {m}
    BY <1>3, <1>7, <2>1, TailHolds
  <2>3. Distinct(t) /\ ToSet(t) = ToSet(q) \ {m}
    BY <1>3, <1>7, <2>1, TailDistinct
  <2> QED BY <1>1, <1>2, <1>3, <1>4, <1>7, <2>1, <2>2, <2>3 DEF LockOK
<1> QED BY <1>5, <1>6, <1>7

LEMMA LockKept ==
  ASSUME NEW l, NEW q, NEW p, LockOK(l, q, p), NEW a \in Actors, NEW w \in Places,
         NEW r, Moves(p, r, a, w),
         \/ w = "cancelled"
         \/ p[a] \in Away /\ w \in Away
         \/ l = a /\ w = "flush"
  PROVE  LockOK(l, q, r)
<1>1. \A b \in Actors : r[b] = IF b = a THEN w ELSE p[b]
  BY MovesTo
<1>2. q \in Seq(Actors) /\ Distinct(q) /\ ToSet(q) \subseteq Actors
  BY QueueOfActors DEF LockOK
<1>3. p[a] \in Away => a # l /\ a \notin ToSet(q)
  BY DEF LockOK, Away
<1> QED BY <1>1, <1>2, <1>3 DEF LockOK, Away

(* A coroutine that waits waits for one that holds the lock. *)
LEMMA Waited ==
  ASSUME NEW l, NEW q, NEW p, LockOK(l, q, p), NEW a \in Actors, p[a] = "lock"
  PROVE  l \in Actors /\ p[l] \in {"lock", "flush", "cancelled"}
<1>1. q \in Seq(Actors) /\ (q = <<>> <=> ToSet(q) = {})
  BY QueueOfActors DEF LockOK
<1> QED BY <1>1 DEF LockOK

-----------------------------------------------------------------------------
(* What the WebSocket was given *)

Numbers == 1 .. MaxPackets

(* The second and the third part of MessagesInOrder. *)
Ordered(s) ==
  /\ \A i, j \in DOMAIN s : i < j /\ s[j] \in 1 .. MaxPackets => s[i] < s[j]
  /\ \A i \in DOMAIN s : s[i] = CloseFrame => i = Len(s)

LEMMA MessageKinds ==
  /\ MaxPackets \in Nat /\ Ping \in Messages /\ CloseFrame \in Messages
  /\ Ping \notin Numbers /\ CloseFrame \notin Numbers /\ Ping # CloseFrame
  /\ Messages \subseteq Nat /\ Numbers \subseteq Messages
  /\ \A x \in Messages : x # CloseFrame => x < CloseFrame
  BY StreamAssumption DEF Ping, CloseFrame, Messages, Numbers

(* The packets fed after the n-th, k of them. *)
Run(f, n, k) == f = [i \in 1 .. k |-> n + i]

(* Packets are fed before the Close frame only. *)
LEMMA FedInOrder ==
  ASSUME NEW s \in Seq(Messages), Ordered(s), CloseFrame \notin ToSet(s),
         NEW n \in Nat, PacketsIn(s) = 1 .. n,
         NEW k \in Nat, n + k <= MaxPackets,
         NEW f, Run(f, n, k)
  PROVE  /\ f \in Seq(Messages) /\ s \o f \in Seq(Messages) /\ ToSet(f) = n + 1 .. n + k
         /\ Ordered(s \o f) /\ PacketsIn(s \o f) = 1 .. n + k /\ CloseFrame \notin ToSet(s \o f)
<1>1. MaxPackets \in Nat /\ CloseFrame = MaxPackets + 1
  BY MessageKinds DEF CloseFrame
<1>2. /\ f \in Seq(Messages) /\ Len(f) = k /\ DOMAIN f = 1 .. k
      /\ \A i \in 1 .. k : f[i] = n + i /\ n + i \in 1 .. MaxPackets /\ n + i \in n + 1 .. n + k
  BY <1>1 DEF Messages, Run
<1>3. ToSet(f) = n + 1 .. n + k
  <2>1. ASSUME NEW x \in n + 1 .. n + k PROVE x - n \in 1 .. k /\ n + (x - n) = x
    OBVIOUS
  <2>2. ASSUME NEW x \in n + 1 .. n + k PROVE x \in ToSet(f)
    BY <1>2, <2>1 DEF ToSet
  <2> QED BY <1>2, <2>2 DEF ToSet
<1>4. PICK t, m : t = s \o f /\ m = Len(s)
  OBVIOUS
<1>5. /\ s \o f \in Seq(Messages) /\ Len(s \o f) = Len(s) + Len(f)
      /\ \A i \in 1 .. Len(s) : (s \o f)[i] = s[i]
      /\ \A i \in 1 .. Len(f) : (s \o f)[Len(s) + i] = f[i]
  <2>1. f \in Seq(Messages)
    BY <1>2
  <2> QED BY <2>1, ConcatFacts
<1>6. /\ t \in Seq(Messages) /\ m \in Nat /\ DOMAIN t = 1 .. m + k /\ DOMAIN s = 1 .. m
      /\ Len(t) = m + k
      /\ (\A i \in 1 .. m : t[i] = s[i]) /\ (\A i \in 1 .. k : t[m + i] = n + i)
  <2>1. Len(f) = k /\ \A i \in 1 .. k : f[i] = n + i
    BY <1>2
  <2>2. m \in Nat /\ DOMAIN s = 1 .. m
    BY <1>4
  <2> QED BY <1>4, <1>5, <2>1, <2>2
<1>7. ToSet(t) = ToSet(s) \cup (n + 1 .. n + k)
  <2>1. f \in Seq(Messages)
    BY <1>2
  <2>2. ToSet(s \o f) = ToSet(s) \cup ToSet(f)
    BY <2>1, ConcatHolds
  <2> QED BY <1>3, <1>4, <2>2
<1>8. \A i \in 1 .. m : s[i] \in ToSet(s) /\ s[i] \in Messages /\ s[i] # CloseFrame
  BY <1>6 DEF ToSet
<1>9. \A i \in 1 .. m : s[i] < n + 1
  <2> TAKE i \in 1 .. m
  <2>1. s[i] \in 0 .. MaxPackets
    BY <1>1, <1>8 DEF Messages
  <2>2. s[i] \in 1 .. MaxPackets => s[i] \in 1 .. n
    BY <1>8 DEF PacketsIn
  <2> QED BY <1>1, <2>1, <2>2
<1>10. \A i \in 1 .. m + k : i \in 1 .. m \/ (i - m \in 1 .. k /\ t[i] = n + (i - m))
  <2> TAKE i \in 1 .. m + k
  <2>1. i \in 1 .. m \/ (i - m \in 1 .. k /\ m + (i - m) = i)
    BY <1>6
  <2> QED BY <1>6, <2>1
<1>11. ASSUME NEW i \in 1 .. m + k, NEW j \in 1 .. m + k, i < j, t[j] \in 1 .. MaxPackets
       PROVE  t[i] < t[j]
  <2>1. CASE j \in 1 .. m
    <3>1. i \in 1 .. m
      BY <1>6, <1>11, <2>1
    <3> QED BY <1>6, <1>11, <2>1, <3>1 DEF Ordered
  <2>2. CASE j - m \in 1 .. k /\ t[j] = n + (j - m)
    <3>1. CASE i \in 1 .. m
      <4>1. t[i] = s[i] /\ s[i] \in Nat /\ s[i] < n + 1
        BY <1>6, <1>8, <1>9, <3>1, MessageKinds
      <4> QED BY <2>2, <4>1
    <3>2. CASE i - m \in 1 .. k /\ t[i] = n + (i - m)
      BY <1>6, <1>11, <2>2, <3>2
    <3> QED BY <1>10, <3>1, <3>2
  <2> QED BY <1>10, <2>1, <2>2
<1>12. \A i \in 1 .. m + k : t[i] # CloseFrame
  <2> TAKE i \in 1 .. m + k
  <2>1. CASE i \in 1 .. m
    BY <1>6, <1>8, <2>1
  <2>2. CASE i - m \in 1 .. k /\ t[i] = n + (i - m)
    BY <1>1, <2>2
  <2> QED BY <1>10, <2>1, <2>2
<1>13. CloseFrame \notin ToSet(t)
  BY <1>6, <1>12 DEF ToSet
<1>14. PacketsIn(t) = 1 .. n + k
  <2>1. \A x \in n + 1 .. n + k : x \in 1 .. MaxPackets
    BY <1>1
  <2>2. 1 .. n + k = (1 .. n) \cup (n + 1 .. n + k)
    OBVIOUS
  <2> QED BY <1>7, <2>1, <2>2 DEF PacketsIn
<1>15. Ordered(t)
  BY <1>6, <1>11, <1>12 DEF Ordered
<1> QED BY <1>2, <1>3, <1>4, <1>6, <1>13, <1>14, <1>15

LEMMA OtherInOrder ==
  ASSUME NEW s \in Seq(Messages), Ordered(s), CloseFrame \notin ToSet(s), NEW e \in {Ping, CloseFrame}
  PROVE  /\ Append(s, e) \in Seq(Messages) /\ Ordered(Append(s, e)) /\ PacketsIn(Append(s, e)) = PacketsIn(s)
         /\ ToSet(Append(s, e)) = ToSet(s) \cup {e}
<1>1. e \in Messages /\ e \notin 1 .. MaxPackets
  BY MessageKinds DEF Numbers
<1>2. PICK t, m : t = Append(s, e) /\ m = Len(s)
  OBVIOUS
<1>3. ToSet(t) = ToSet(s) \cup {e} /\ t \in Seq(Messages)
  BY <1>1, <1>2, AppendHolds
<1>4. /\ m \in Nat /\ Len(t) = m + 1 /\ DOMAIN t = 1 .. m + 1 /\ DOMAIN s = 1 .. m /\ t[m + 1] = e
      /\ \A i \in 1 .. m : t[i] = s[i] /\ s[i] \in ToSet(s)
  BY <1>1, <1>2 DEF ToSet
<1>5. \A i \in 1 .. m + 1 : i \in 1 .. m \/ i = m + 1
  BY <1>4
<1>6. ASSUME NEW i \in 1 .. m + 1, NEW j \in 1 .. m + 1, i < j, t[j] \in 1 .. MaxPackets
      PROVE  t[i] < t[j]
  <2>1. j \in 1 .. m
    BY <1>1, <1>4, <1>5, <1>6
  <2>2. i \in 1 .. m
    BY <1>4, <1>6, <2>1
  <2> QED BY <1>4, <1>6, <2>1, <2>2 DEF Ordered
<1>7. \A i \in 1 .. m + 1 : t[i] = CloseFrame => i = m + 1
  BY <1>4, <1>5
<1>8. Ordered(t)
  BY <1>4, <1>6, <1>7 DEF Ordered
<1> QED BY <1>1, <1>2, <1>3, <1>8 DEF PacketsIn

(* The socket takes what is not a ping ... *)
LEMMA TakenInOrder ==
  ASSUME NEW w \in Seq(Messages), NEW o \in Seq(Messages), o # <<>>
  PROVE  Append(w, Head(o)) \o Tail(o) = w \o o
  OBVIOUS

(* ... and a ping, which MessagesInOrder is not about. *)
LEMMA PingTaken ==
  ASSUME NEW w \in Seq(Messages), NEW o \in Seq(Messages), o # <<>>, Head(o) = Ping, Ordered(w \o o)
  PROVE  Ordered(w \o Tail(o)) /\ PacketsIn(w \o Tail(o)) = PacketsIn(w \o o)
<1>1. PICK s, t, m, n, r : s = w \o o /\ r = Tail(o) /\ t = w \o r /\ m = Len(w) /\ n = Len(o)
  OBVIOUS
<1>2. /\ Tail(o) \in Seq(Messages) /\ Len(Tail(o)) = Len(o) - 1
      /\ \A i \in 1 .. Len(o) - 1 : Tail(o)[i] = o[i + 1]
      /\ ToSet(o) = ToSet(Tail(o)) \cup {Ping}
  BY TailHolds
<1>3. /\ w \o o \in Seq(Messages) /\ Len(w \o o) = Len(w) + Len(o)
      /\ \A i \in 1 .. Len(w) : (w \o o)[i] = w[i]
      /\ \A i \in 1 .. Len(o) : (w \o o)[Len(w) + i] = o[i]
  BY ConcatFacts
<1>4. r \in Seq(Messages)
  BY <1>1, <1>2
<1>5. /\ w \o r \in Seq(Messages) /\ Len(w \o r) = Len(w) + Len(r)
      /\ \A i \in 1 .. Len(w) : (w \o r)[i] = w[i]
      /\ \A i \in 1 .. Len(r) : (w \o r)[Len(w) + i] = r[i]
  BY <1>4, ConcatFacts
<1>6. m \in Nat /\ n \in Nat \ {0} /\ Len(r) = n - 1
  BY <1>1, <1>2
<1>7. /\ DOMAIN s = 1 .. m + n /\ Len(s) = m + n /\ DOMAIN t = 1 .. m + (n - 1) /\ Len(t) = m + (n - 1)
  BY <1>1, <1>3, <1>5, <1>6
<1>8. ASSUME NEW i \in 1 .. m + (n - 1)
      PROVE  LET k == IF i <= m THEN i ELSE i + 1 IN k \in 1 .. m + n /\ t[i] = s[k]
  <2>1. CASE i <= m
    <3>1. i \in 1 .. m /\ i \in 1 .. m + n
      BY <1>6, <2>1
    <3> QED BY <1>1, <1>3, <1>5, <2>1, <3>1
  <2>2. CASE ~(i <= m)
    <3>1. i - m \in 1 .. n - 1 /\ (i - m) + 1 \in 1 .. n /\ m + (i - m) = i /\ m + ((i - m) + 1) = i + 1
      BY <1>6, <2>2
    <3>2. t[i] = r[i - m]
      BY <1>1, <1>5, <1>6, <3>1
    <3>3. r[i - m] = o[(i - m) + 1]
      BY <1>1, <1>2, <3>1
    <3>4. s[i + 1] = o[(i - m) + 1]
      BY <1>1, <1>3, <3>1
    <3>5. i + 1 \in 1 .. m + n
      BY <1>6, <3>1
    <3> QED BY <2>2, <3>2, <3>3, <3>4, <3>5
  <2> QED BY <2>1, <2>2
<1>9. ASSUME NEW i \in 1 .. m + (n - 1), NEW j \in 1 .. m + (n - 1), i < j, t[j] \in 1 .. MaxPackets
      PROVE  t[i] < t[j]
  <2>1. PICK k \in 1 .. m + n, l \in 1 .. m + n :
          /\ k = IF i <= m THEN i ELSE i + 1
          /\ l = IF j <= m THEN j ELSE j + 1
          /\ t[i] = s[k] /\ t[j] = s[l]
    BY <1>8
  <2>2. k < l
    BY <1>6, <1>9, <2>1
  <2> QED BY <1>1, <1>7, <1>9, <2>1, <2>2 DEF Ordered
<1>10. ASSUME NEW i \in 1 .. m + (n - 1), t[i] = CloseFrame PROVE i = m + (n - 1)
  <2>1. PICK k \in 1 .. m + n : k = (IF i <= m THEN i ELSE i + 1) /\ t[i] = s[k]
    BY <1>8
  <2>2. k = m + n
    BY <1>1, <1>7, <1>10, <2>1 DEF Ordered
  <2>3. CASE ~(i <= m)
    BY <1>6, <2>1, <2>2, <2>3
  <2>4. CASE i <= m
    BY <1>6, <2>1, <2>2, <2>4
  <2> QED BY <2>3, <2>4
<1>11. Ordered(t)
  BY <1>7, <1>9, <1>10 DEF Ordered
<1>12. ToSet(s) = ToSet(w) \cup ToSet(o)
  BY <1>1, ConcatHolds
<1>13. ToSet(t) = ToSet(w) \cup ToSet(r)
  <2>1. ToSet(w \o r) = ToSet(w) \cup ToSet(r)
    BY <1>4, ConcatHolds
  <2> QED BY <1>1, <2>1
<1>14. Ping \notin 1 .. MaxPackets
  BY MessageKinds DEF Numbers
<1> QED BY <1>1, <1>2, <1>11, <1>12, <1>13, <1>14 DEF PacketsIn

-----------------------------------------------------------------------------
(* pending *)

LEMMA UnitIs ==
  ASSUME NEW j \in Nat \ {0}
  PROVE  Unit(2 * j - 1) = <<j, 1>> /\ Unit(2 * j) = <<j, 2>>
<1>1. (2 * j - 1 + 1) \div 2 = j /\ (2 * j - 1) % 2 = 1 /\ (2 * j + 1) \div 2 = j /\ (2 * j) % 2 = 0
  OBVIOUS
<1> QED BY <1>1 DEF Unit

(* The units from the one after packet n to the last one written. *)
Backlog(u, n, w) == u = [i \in 1 .. w - 2 * n |-> Unit(2 * n + i)]

LEMMA BacklogIs ==
  ASSUME NEW u, NEW n \in Nat, NEW w \in Nat, 2 * n <= w, Backlog(u, n, w)
  PROVE  /\ u \in Seq(Nat \X {1, 2}) /\ Len(u) = w - 2 * n
         /\ \A i \in 1 .. w - 2 * n : u[i] = Unit(2 * n + i)
<1>1. w - 2 * n \in Nat
  OBVIOUS
<1>2. \A i \in 1 .. w - 2 * n : Unit(2 * n + i) \in Nat \X {1, 2}
  <2> TAKE i \in 1 .. w - 2 * n
  <2>1. 2 * n + i \in Nat /\ (2 * n + i + 1) \div 2 \in Nat
    OBVIOUS
  <2> QED BY <2>1 DEF Unit
<1>3. PICK d, f : d = w - 2 * n /\ f = [i \in 1 .. d |-> Unit(2 * n + i)]
  OBVIOUS
<1>4. d \in Nat /\ u = f
  BY <1>1, <1>3 DEF Backlog
<1>5. f \in [1 .. d -> Nat \X {1, 2}] /\ \A i \in 1 .. d : f[i] = Unit(2 * n + i)
  BY <1>2, <1>3
<1>6. f \in Seq(Nat \X {1, 2}) /\ Len(f) = d
  BY <1>4, <1>5
<1> QED BY <1>3, <1>4, <1>5, <1>6

(* A write puts its units behind. *)
LEMMA BacklogGrows ==
  ASSUME NEW u, NEW n \in Nat, NEW w \in Nat, 2 * n <= w, Backlog(u, n, w), NEW m \in Nat,
         NEW v, v = u \o [i \in 1 .. m |-> Unit(w + i)]
  PROVE  Backlog(v, n, w + m)
<1>1. /\ u \in Seq(Nat \X {1, 2}) /\ Len(u) = w - 2 * n
      /\ \A i \in 1 .. w - 2 * n : u[i] = Unit(2 * n + i)
  BY BacklogIs
<1>2. PICK x : x = [i \in 1 .. m |-> Unit(w + i)]
  OBVIOUS
<1>3. x \in Seq(Nat \X {1, 2}) /\ Len(x) = m /\ \A i \in 1 .. m : x[i] = Unit(w + i)
  <2>1. \A i \in 1 .. m : Unit(w + i) \in Nat \X {1, 2}
    <3> TAKE i \in 1 .. m
    <3>1. w + i \in Nat /\ (w + i + 1) \div 2 \in Nat
      OBVIOUS
    <3> QED BY <3>1 DEF Unit
  <2> QED BY <1>2, <2>1
<1>4. PICK y : y = [i \in 1 .. (w + m) - 2 * n |-> Unit(2 * n + i)]
  OBVIOUS
<1>5. Backlog(y, n, w + m) /\ w + m \in Nat /\ 2 * n <= w + m
  BY <1>4 DEF Backlog
<1>6. /\ y \in Seq(Nat \X {1, 2}) /\ Len(y) = (w + m) - 2 * n
      /\ \A i \in 1 .. (w + m) - 2 * n : y[i] = Unit(2 * n + i)
  <2>1. \A i \in 1 .. (w + m) - 2 * n : Unit(2 * n + i) \in Nat \X {1, 2}
    <3> TAKE i \in 1 .. (w + m) - 2 * n
    <3>1. 2 * n + i \in Nat /\ (2 * n + i + 1) \div 2 \in Nat
      OBVIOUS
    <3> QED BY <3>1 DEF Unit
  <2>2. (w + m) - 2 * n \in Nat
    OBVIOUS
  <2> QED BY <1>4, <2>1, <2>2
<1>7. u \in Seq(Nat \X {1, 2}) /\ x \in Seq(Nat \X {1, 2})
  BY <1>1, <1>3
<1>8. /\ u \o x \in Seq(Nat \X {1, 2}) /\ Len(u \o x) = Len(u) + Len(x)
      /\ \A i \in 1 .. Len(u) : (u \o x)[i] = u[i]
      /\ \A i \in 1 .. Len(x) : (u \o x)[Len(u) + i] = x[i]
  BY <1>7, ConcatFacts
<1>9. PICK t : t = u \o x
  OBVIOUS
<1>10. /\ t \in Seq(Nat \X {1, 2}) /\ Len(t) = (w + m) - 2 * n
  BY <1>1, <1>3, <1>8, <1>9
<1>11. ASSUME NEW i \in 1 .. (w + m) - 2 * n PROVE t[i] = y[i]
  <2>1. CASE i <= w - 2 * n
    <3>1. i \in 1 .. w - 2 * n
      BY <2>1
    <3> QED BY <1>1, <1>6, <1>8, <1>9, <3>1
  <2>2. CASE ~(i <= w - 2 * n)
    <3>1. PICK j : j = i - (w - 2 * n)
      OBVIOUS
    <3>2. j \in 1 .. m /\ (w - 2 * n) + j = i /\ w + j = 2 * n + i
      BY <2>2, <3>1
    <3>3. t[(w - 2 * n) + j] = x[j]
      BY <1>1, <1>3, <1>8, <1>9, <3>2
    <3> QED BY <1>3, <1>6, <3>2, <3>3
  <2> QED BY <2>1, <2>2
<1>12. t = y
  BY <1>6, <1>10, <1>11
<1> QED BY <1>2, <1>5, <1>9, <1>12

(* The loop cuts whole packets off the front, and reads their numbers. *)
LEMMA BacklogCut ==
  ASSUME NEW u, NEW n \in Nat, NEW w \in Nat, 2 * n <= w, Backlog(u, n, w),
         NEW k \in Nat, k <= Len(u) \div 2,
         NEW v, v = SubSeq(u, 2 * k + 1, Len(u))
  PROVE  /\ 2 * (n + k) <= w /\ Backlog(v, n + k, w)
         /\ Run([i \in 1 .. k |-> u[2 * i - 1][1]], n, k)
<1>1. /\ u \in Seq(Nat \X {1, 2}) /\ Len(u) = w - 2 * n
      /\ \A i \in 1 .. w - 2 * n : u[i] = Unit(2 * n + i)
  BY BacklogIs
<1>2. PICK d : d = w - 2 * n
  OBVIOUS
<1>3. d \in Nat /\ k <= d \div 2 /\ Len(u) = d
  BY <1>1, <1>2
<1>4. 2 * k <= d
  BY <1>3
<1>5. ASSUME NEW i \in 1 .. k PROVE u[2 * i - 1][1] = n + i
  <2>1. 2 * i - 1 \in 1 .. d /\ 2 * n + (2 * i - 1) = 2 * (n + i) - 1 /\ n + i \in Nat \ {0}
    BY <1>3, <1>4
  <2>2. u[2 * i - 1] = Unit(2 * (n + i) - 1)
    BY <1>1, <1>2, <2>1
  <2>3. PICK j : j = n + i
    OBVIOUS
  <2>4. Unit(2 * j - 1) = <<j, 1>>
    BY <2>1, <2>3, UnitIs
  <2> QED BY <2>2, <2>3, <2>4
<1>6. Run([i \in 1 .. k |-> u[2 * i - 1][1]], n, k)
  BY <1>5 DEF Run
<1>7. PICK e : e = d - 2 * k
  OBVIOUS
<1>8. e \in Nat /\ e = w - 2 * (n + k) /\ 2 * (n + k) <= w
  BY <1>2, <1>3, <1>4, <1>7
<1>9. v \in Seq(Nat \X {1, 2}) /\ Len(v) = e /\ \A i \in 1 .. e : v[i] = u[2 * k + i]
  <2>1. CASE k = 0
    BY <1>1, <1>3, <1>7, <2>1
  <2>2. CASE k # 0
    <3>1. PICK c : c = 2 * k
      OBVIOUS
    <3>2. c \in 1 .. Len(u)
      BY <1>3, <1>4, <2>2, <3>1
    <3>3. u \in Seq(Nat \X {1, 2})
      BY <1>1
    <3>4. /\ SubSeq(u, c + 1, Len(u)) \in Seq(Nat \X {1, 2})
          /\ Len(SubSeq(u, c + 1, Len(u))) = Len(u) - c
          /\ \A i \in 1 .. Len(u) - c : SubSeq(u, c + 1, Len(u))[i] = u[c + i]
      BY <3>2, <3>3, SuffixFacts
    <3> QED BY <1>3, <1>7, <3>1, <3>4
  <2> QED BY <2>1, <2>2
<1>10. \A i \in 1 .. e : v[i] = Unit(2 * (n + k) + i)
  <2> TAKE i \in 1 .. e
  <2>1. 2 * k + i \in 1 .. d /\ 2 * n + (2 * k + i) = 2 * (n + k) + i
    BY <1>3, <1>4, <1>7
  <2>2. u[2 * k + i] = Unit(2 * n + (2 * k + i))
    BY <1>1, <1>2, <2>1
  <2> QED BY <1>9, <2>1, <2>2
<1>11. v = [i \in 1 .. e |-> Unit(2 * (n + k) + i)]
  <2>1. v \in Seq(Nat \X {1, 2}) /\ Len(v) = e
    BY <1>9
  <2>2. v = [i \in 1 .. e |-> v[i]]
    BY <2>1, SeqByItems
  <2> QED BY <1>10, <2>2, Zenon
<1> QED BY <1>6, <1>8, <1>11 DEF Backlog

LEMMA LeastNumber ==
  ASSUME NEW T, T \subseteq Nat, T # {}
  PROVE  \E n \in T : \A m \in T : ~(m < n)
<1> DEFINE R == OpToRel(<, Nat)
<1>1. IsWellFoundedOn(R, Nat)
  BY NatLessThanWellFounded DEF OpToRel
<1>2. R = {ss \in Nat \X Nat : ss[1] < ss[2]}
  BY DEF OpToRel
<1> HIDE DEF R
<1>3. \E x \in T : \A y \in T : ~(<<y, x>> \in R)
  BY <1>1, WFMin
<1> QED BY <1>2, <1>3

(* The loop ends: at the first packet that is too long, or out of packets. *)
LEMMA SendableIs ==
  ASSUME Whole \in Nat
  PROVE  Sendable \in 0 .. Whole
<1> DEFINE T == {k \in 0 .. Whole : k = Whole \/ Header(k + 1) \in TooLong}
<1>1. T \subseteq Nat /\ Whole \in T
  OBVIOUS
<1>2. PICK k \in T : \A m \in T : ~(m < k)
  BY <1>1, LeastNumber
<1>3. ASSUME NEW i \in 1 .. k PROVE Header(i) \notin TooLong
  <2>1. i - 1 \in 0 .. Whole /\ i - 1 < k /\ (i - 1) + 1 = i
    BY <1>2
  <2>2. i - 1 \notin T
    BY <1>2, <2>1
  <2> QED BY <2>1, <2>2
<1>4. /\ k \in 0 .. Whole /\ \A i \in 1 .. k : Header(i) \notin TooLong
      /\ k = Whole \/ Header(k + 1) \in TooLong
  BY <1>2, <1>3
<1> QED BY <1>4 DEF Sendable

-----------------------------------------------------------------------------
(* Every step keeps the invariant *)

(* MessagesInOrder of any WebSocket w, o with u in pending. *)
InOrder(w, o, u, k) ==
  /\ \E n \in 0 .. MaxPackets : PacketsIn(w \o o) = 1 .. n /\ 2 * n <= k /\ Backlog(u, n, k)
  /\ Ordered(w \o o)

StreamInv ==
  /\ TypesOK /\ LockOK(lock, queue, pc) /\ CloseOK /\ WriterOK /\ PongOK
  /\ InOrder(wire, out, pending, written)

LEMMA PcAfter ==
  ASSUME TypesOK, NEW a \in Actors, NEW w \in Places, Goes(a, w)
  PROVE  /\ Moves(pc, pc', a, w) /\ pc' \in [Actors -> Places]
         /\ \A b \in Actors : pc'[b] = IF b = a THEN w ELSE pc[b]
  BY DEF TypesOK, Goes, Moves

LEMMA ActorsAre ==
  /\ "writer" \in Actors /\ "keepalive" \in Actors /\ "closer" \in Actors
  /\ \A a \in Actors : a = "writer" \/ a = "keepalive" \/ a = "closer"
  BY DEF Actors

LEMMA Init_Inv == Init => StreamInv
<1> SUFFICES ASSUME Init PROVE StreamInv
  OBVIOUS
<1>1. MaxPackets \in Nat
  BY StreamAssumption
<1>2. TypesOK
  BY <1>1 DEF Init, TypesOK, Actors, Places, Messages
<1>3. ToSet(<<>>) = {} /\ Distinct(<<>>) /\ <<>> \in Seq(Actors)
  BY EmptyQueue
<1>4. LockOK(lock, queue, pc)
  BY <1>3 DEF Init, LockOK, Actors, Nobody
<1>5. CloseOK /\ WriterOK /\ PongOK
  BY <1>3 DEF Init, CloseOK, WriterOK, PongOK, PacketsIn
<1>6. wire \o out = <<>>
  BY DEF Init
<1>7. PacketsIn(<<>>) = 1 .. 0 /\ Ordered(<<>>)
  BY <1>3 DEF PacketsIn, Ordered
<1>8. Backlog(<<>>, 0, 0)
  BY DEF Backlog
<1>9. 0 \in 0 .. MaxPackets /\ 2 * 0 <= 0
  BY <1>1
<1>10. InOrder(wire, out, pending, written)
  BY <1>6, <1>7, <1>8, <1>9 DEF Init, InOrder
<1> QED BY <1>2, <1>4, <1>5, <1>10 DEF StreamInv

(* A coroutine leaves withLock, by returning, failing or a cancellation. *)
LEMMA ReleaseStep ==
  ASSUME StreamInv, NEW a \in Actors, NEW w \in Away, Goes(a, w), Release(a),
         UNCHANGED <<pending, written, out, wire, pinged, ponged, inbox, reader>>,
         closed => closed', torn' \in Nat, torn' = 0 => torn = 0,
         a = "writer" => w = "failed" \/ (w = "idle" /\ (torn' = 0 => PacketsIn(out) = {})),
         a = "keepalive" => w = "ended" \/ (w = "pong" /\ pc["keepalive"] = "flush" /\ out = <<>>),
         a = "closer" => w = "ended" /\ closed'
  PROVE  StreamInv'
<1>1. w \in Places /\ w \notin {"lock", "flush", "cancelled"}
  BY DEF Away
<1>2. TypesOK /\ LockOK(lock, queue, pc)
  BY DEF StreamInv
<1>3. /\ Moves(pc, pc', a, w) /\ pc' \in [Actors -> Places]
      /\ \A b \in Actors : pc'[b] = IF b = a THEN w ELSE pc[b]
  BY <1>1, <1>2, PcAfter
<1>4. Given(lock, queue, a, lock', queue')
  BY DEF Release, Given
<1>5. Moves(pc, pc', a, w)
  BY <1>3
<1>6. LockOK(lock', queue', pc')
  BY <1>2, <1>4, <1>5, LockGiven
<1>7. TypesOK'
  BY <1>2, <1>3 DEF TypesOK
<1>8. CloseOK'
  BY <1>1, <1>3, ActorsAre DEF CloseOK, StreamInv
<1>9. WriterOK'
  BY <1>1, <1>3, ActorsAre DEF WriterOK, StreamInv, PacketsIn
<1>10. PongOK'
  BY <1>1, <1>3, ActorsAre, EmptyQueue DEF PongOK, StreamInv
<1>11. InOrder(wire', out', pending', written')
  BY DEF StreamInv
<1> QED BY <1>6, <1>7, <1>8, <1>9, <1>10, <1>11 DEF StreamInv

LEMMA WriteStep ==
  ASSUME StreamInv, NEW n \in 1 .. MaxWrite, Write(n)
  PROVE  StreamInv'
<1>1. TypesOK /\ LockOK(lock, queue, pc) /\ pc["writer"] = "idle"
  BY DEF StreamInv, Write
<1>2. /\ Moves(pc, pc', "writer", "lock") /\ pc' \in [Actors -> Places]
      /\ \A b \in Actors : pc'[b] = IF b = "writer" THEN "lock" ELSE pc[b]
  BY <1>1, PcAfter, ActorsAre DEF Write, Places
<1>3. Taken(lock, queue, "writer", lock', queue')
  BY DEF Write, Acquire, Taken
<1>4. Moves(pc, pc', "writer", "lock") /\ pc["writer"] \in Away
  BY <1>1, <1>2 DEF Away, Places
<1>5. LockOK(lock', queue', pc')
  BY <1>1, <1>3, <1>4, LockTaken, ActorsAre
<1>6. UNCHANGED <<out, wire, pinged, ponged, closed, aborted, torn, inbox, reader, alive>>
  BY DEF Write, outside
<1>7. written' \in 0 .. 2 * MaxPackets /\ written' = written + n /\ written \in Nat /\ n \in Nat
  BY <1>1, StreamAssumption DEF Write, TypesOK
<1>8. TypesOK'
  BY <1>1, <1>2, <1>6, <1>7 DEF TypesOK
<1>9. CloseOK' /\ PongOK'
  BY <1>2, <1>6, ActorsAre DEF CloseOK, PongOK, StreamInv
<1>10. WriterOK'
  BY <1>1, <1>2, <1>6, ActorsAre DEF WriterOK, StreamInv, PacketsIn
<1>11. InOrder(wire', out', pending', written')
  <2>1. PICK m \in 0 .. MaxPackets :
          PacketsIn(wire \o out) = 1 .. m /\ 2 * m <= written /\ Backlog(pending, m, written)
    BY DEF StreamInv, InOrder
  <2>2. m \in Nat
    BY StreamAssumption
  <2>3. pending' = pending \o [i \in 1 .. n |-> Unit(written + i)]
    BY DEF Write
  <2>4. Backlog(pending', m, written + n)
    BY <1>7, <2>1, <2>2, <2>3, BacklogGrows
  <2>5. 2 * m <= written'
    BY <1>7, <2>1, <2>2
  <2> QED BY <1>6, <1>7, <2>1, <2>4, <2>5 DEF StreamInv, InOrder
<1> QED BY <1>5, <1>8, <1>9, <1>10, <1>11 DEF StreamInv

(* The packets cut off pending go to the WebSocket. *)
LEMMA CutKeeps ==
  ASSUME StreamInv, WsOpen, NEW k \in 0 .. Whole, Cut(k), wire' = wire, written' = written
  PROVE  /\ InOrder(wire', out', pending', written') /\ out' \in Seq(Messages)
         /\ CloseFrame \notin ToSet(out') \cup ToSet(wire')
         /\ ToSet(out) \subseteq ToSet(out')
         /\ k = 0 => out' = out
         /\ k = Whole => Len(pending') < 2
<1>1. /\ MaxPackets \in Nat /\ out \in Seq(Messages) /\ wire \in Seq(Messages)
      /\ written \in Nat /\ written <= 2 * MaxPackets
  BY StreamAssumption DEF StreamInv, TypesOK
<1>2. PICK n \in 0 .. MaxPackets :
        PacketsIn(wire \o out) = 1 .. n /\ 2 * n <= written /\ Backlog(pending, n, written)
  BY DEF StreamInv, InOrder
<1>3. n \in Nat /\ Ordered(wire \o out)
  BY <1>1 DEF StreamInv, InOrder
<1>4. pending \in Seq(Nat \X {1, 2}) /\ Len(pending) = written - 2 * n
  BY <1>1, <1>2, <1>3, BacklogIs
<1>5. k \in Nat /\ k <= Len(pending) \div 2 /\ Whole \in Nat
  BY <1>1, <1>2, <1>3, <1>4 DEF Whole
<1>6. PICK f : f = [i \in 1 .. k |-> pending[2 * i - 1][1]]
  OBVIOUS
<1>7. out' = out \o f /\ pending' = SubSeq(pending, 2 * k + 1, Len(pending))
  BY <1>6 DEF Cut, Header
<1>8. 2 * (n + k) <= written /\ Backlog(pending', n + k, written) /\ Run(f, n, k)
  <2>1. /\ 2 * (n + k) <= written /\ Backlog(pending', n + k, written)
        /\ Run([i \in 1 .. k |-> pending[2 * i - 1][1]], n, k)
    BY <1>1, <1>2, <1>3, <1>5, <1>7, BacklogCut
  <2> QED BY <1>6, <2>1
<1>9. wire \o out \in Seq(Messages) /\ ToSet(wire \o out) = ToSet(wire) \cup ToSet(out)
  BY <1>1, ConcatFacts, ConcatHolds
<1>10. CloseFrame \notin ToSet(wire \o out)
  BY <1>9 DEF WsOpen
<1>11. PICK s : s = wire \o out
  OBVIOUS
<1>12. /\ s \in Seq(Messages) /\ Ordered(s) /\ CloseFrame \notin ToSet(s) /\ PacketsIn(s) = 1 .. n
       /\ n + k <= MaxPackets
  BY <1>1, <1>2, <1>3, <1>5, <1>8, <1>9, <1>10, <1>11
<1>13. /\ f \in Seq(Messages) /\ s \o f \in Seq(Messages) /\ ToSet(f) = n + 1 .. n + k
       /\ Ordered(s \o f) /\ PacketsIn(s \o f) = 1 .. n + k /\ CloseFrame \notin ToSet(s \o f)
  BY <1>3, <1>5, <1>8, <1>12, FedInOrder
<1>14. f \in Seq(Messages)
  BY <1>13
<1>15. /\ out \o f \in Seq(Messages) /\ ToSet(out \o f) = ToSet(out) \cup ToSet(f)
       /\ wire \o (out \o f) = (wire \o out) \o f
  <2>1. out \o f \in Seq(Messages)
    BY <1>1, <1>14
  <2>2. ToSet(out \o f) = ToSet(out) \cup ToSet(f)
    BY <1>1, <1>14, ConcatHolds
  <2>3. wire \o (out \o f) = (wire \o out) \o f
    BY <1>1, <1>14
  <2> QED BY <2>1, <2>2, <2>3
<1>16. wire' \o out' = s \o f
  BY <1>7, <1>11, <1>15
<1>17. n + k \in 0 .. MaxPackets
  BY <1>3, <1>5, <1>12
<1>18. InOrder(wire', out', pending', written')
  <2>1. PICK m : m = n + k
    OBVIOUS
  <2>2. m \in 0 .. MaxPackets /\ PacketsIn(wire' \o out') = 1 .. m /\ 2 * m <= written'
        /\ Backlog(pending', m, written')
    BY <1>8, <1>13, <1>16, <1>17, <2>1
  <2>3. Ordered(wire' \o out')
    BY <1>13, <1>16
  <2> QED BY <2>2, <2>3 DEF InOrder
<1>19. CloseFrame \notin ToSet(out') \cup ToSet(wire')
  <2>1. ToSet(f) \subseteq ToSet(s \o f)
    <3>1. ToSet(s \o f) = ToSet(s) \cup ToSet(f)
      BY <1>12, <1>14, ConcatHolds
    <3> QED BY <3>1
  <2> QED BY <1>7, <1>13, <1>15, <2>1 DEF WsOpen
<1>20. k = 0 => out' = out
  <2>1. ASSUME k = 0 PROVE f = <<>>
    BY <1>6, <2>1
  <2> QED BY <1>1, <1>7, <2>1
<1>21. k = Whole => Len(pending') < 2
  <2>1. PICK m : m = n + k
    OBVIOUS
  <2>2. m \in Nat /\ 2 * m <= written /\ Backlog(pending', m, written)
    BY <1>3, <1>5, <1>8, <2>1
  <2>3. Len(pending') = written - 2 * m
    BY <1>1, <2>2, BacklogIs
  <2>4. k = Whole => written - 2 * m < 2
    BY <1>1, <1>3, <1>4, <1>5, <2>1 DEF Whole
  <2> QED BY <2>3, <2>4
<1> QED BY <1>7, <1>15, <1>18, <1>19, <1>20, <1>21

LEMMA WholeNumber ==
  ASSUME StreamInv
  PROVE  Whole \in Nat
<1>1. PICK n \in 0 .. MaxPackets : 2 * n <= written /\ Backlog(pending, n, written)
  BY DEF StreamInv, InOrder
<1>2. n \in Nat /\ written \in Nat
  BY StreamAssumption DEF StreamInv, TypesOK
<1>3. Len(pending) = written - 2 * n
  BY <1>1, <1>2, BacklogIs
<1> QED BY <1>1, <1>2, <1>3 DEF Whole

LEMMA FeedPacketsStep ==
  ASSUME StreamInv, FeedPackets
  PROVE  StreamInv'
<1>1. /\ TypesOK /\ LockOK(lock, queue, pc) /\ pc["writer"] = "lock" /\ lock = "writer" /\ WsOpen
      /\ Cut(Whole) /\ UNCHANGED <<written, wire, pinged, ponged, closed, aborted, torn, inbox, reader, alive>>
  BY DEF StreamInv, FeedPackets, outside
<1>2. Whole \in 0 .. Whole
  BY WholeNumber
<1>3. /\ InOrder(wire', out', pending', written') /\ out' \in Seq(Messages)
      /\ CloseFrame \notin ToSet(out') \cup ToSet(wire')
      /\ ToSet(out) \subseteq ToSet(out')
      /\ Whole = 0 => out' = out
      /\ Len(pending') < 2
  BY <1>1, <1>2, CutKeeps
<1>4. CloseFrame \notin ToSet(out) \cup ToSet(wire)
  BY <1>1 DEF WsOpen
<1>5. CASE Whole = 0
  <2>1. Goes("writer", "idle") /\ Release("writer")
    BY <1>5 DEF FeedPackets
  <2>2. /\ Moves(pc, pc', "writer", "idle") /\ pc' \in [Actors -> Places]
        /\ \A b \in Actors : pc'[b] = IF b = "writer" THEN "idle" ELSE pc[b]
    BY <1>1, <2>1, PcAfter, ActorsAre DEF Places
  <2>3. Given(lock, queue, "writer", lock', queue') /\ Moves(pc, pc', "writer", "idle") /\ "idle" \in Away
    BY <2>1, <2>2 DEF Release, Given, Away, Places
  <2>4. LockOK(lock', queue', pc')
    BY <1>1, <2>3, LockGiven, ActorsAre
  <2>5. TypesOK'
    BY <1>1, <1>3, <2>2 DEF TypesOK
  <2>6. CloseOK' /\ PongOK'
    BY <1>1, <1>3, <1>4, <1>5, <2>2, ActorsAre DEF CloseOK, PongOK, StreamInv
  <2>7. WriterOK'
    BY <1>1, <1>3, <1>5, <2>2, ActorsAre DEF WriterOK, StreamInv, PacketsIn
  <2> QED BY <1>3, <2>4, <2>5, <2>6, <2>7 DEF StreamInv
<1>6. CASE Whole # 0
  <2>1. Goes("writer", "flush") /\ UNCHANGED <<lock, queue>>
    BY <1>6 DEF FeedPackets
  <2>2. /\ Moves(pc, pc', "writer", "flush") /\ pc' \in [Actors -> Places]
        /\ \A b \in Actors : pc'[b] = IF b = "writer" THEN "flush" ELSE pc[b]
    BY <1>1, <2>1, PcAfter, ActorsAre DEF Places
  <2>3. Moves(pc, pc', "writer", "flush") /\ "flush" \in Places
    BY <2>2 DEF Places
  <2>4. LockOK(lock', queue', pc')
    BY <1>1, <2>1, <2>3, LockKept, ActorsAre
  <2>5. TypesOK'
    BY <1>1, <1>3, <2>2 DEF TypesOK
  <2>6. CloseOK'
    BY <1>1, <1>3, <1>4, <2>2, ActorsAre DEF CloseOK, StreamInv
  <2>7. PongOK'
    BY <1>1, <1>3, <2>2, ActorsAre DEF PongOK, StreamInv
  <2>8. WriterOK'
    BY <1>3, <2>2, ActorsAre DEF WriterOK
  <2> QED BY <1>3, <2>4, <2>5, <2>6, <2>7, <2>8 DEF StreamInv
<1> QED BY <1>5, <1>6

LEMMA FeedThrowsStep ==
  ASSUME StreamInv, FeedThrows
  PROVE  StreamInv'
<1>1. /\ TypesOK /\ LockOK(lock, queue, pc) /\ Goes("writer", "failed") /\ Release("writer")
      /\ UNCHANGED <<written, wire, pinged, ponged, closed, aborted, torn, inbox, reader, alive>>
      /\ IF WsOpen THEN Cut(Sendable) ELSE UNCHANGED <<out, pending>>
  BY DEF StreamInv, FeedThrows, outside
<1>2. /\ Moves(pc, pc', "writer", "failed") /\ pc' \in [Actors -> Places]
      /\ \A b \in Actors : pc'[b] = IF b = "writer" THEN "failed" ELSE pc[b]
  BY <1>1, PcAfter, ActorsAre DEF Places
<1>3. Given(lock, queue, "writer", lock', queue') /\ Moves(pc, pc', "writer", "failed") /\ "failed" \in Away
  BY <1>1, <1>2 DEF Release, Given, Away, Places
<1>4. LockOK(lock', queue', pc')
  BY <1>1, <1>3, LockGiven, ActorsAre
<1>5. /\ InOrder(wire', out', pending', written') /\ out' \in Seq(Messages)
      /\ ToSet(out) \subseteq ToSet(out')
      /\ CloseFrame \in ToSet(out') \cup ToSet(wire') <=> CloseFrame \in ToSet(out) \cup ToSet(wire)
  <2>1. CASE WsOpen
    <3>1. Sendable \in 0 .. Whole
      BY WholeNumber, SendableIs
    <3>2. /\ InOrder(wire', out', pending', written') /\ out' \in Seq(Messages)
          /\ CloseFrame \notin ToSet(out') \cup ToSet(wire')
          /\ ToSet(out) \subseteq ToSet(out')
      BY <1>1, <2>1, <3>1, CutKeeps
    <3> QED BY <2>1, <3>2 DEF WsOpen
  <2>2. CASE ~WsOpen
    BY <1>1, <2>2 DEF StreamInv, TypesOK
  <2> QED BY <2>1, <2>2
<1>6. TypesOK'
  BY <1>1, <1>2, <1>5 DEF TypesOK
<1>7. CloseOK'
  BY <1>1, <1>2, <1>5, ActorsAre DEF CloseOK, StreamInv
<1>8. PongOK'
  BY <1>1, <1>2, <1>5, ActorsAre DEF PongOK, StreamInv
<1>9. WriterOK'
  BY <1>2, ActorsAre DEF WriterOK
<1> QED BY <1>4, <1>5, <1>6, <1>7, <1>8, <1>9 DEF StreamInv

(* A ping or the Close frame goes behind what was fed. *)
LEMMA OtherFed ==
  ASSUME StreamInv, NEW e \in {Ping, CloseFrame}, CloseFrame \notin ToSet(out) \cup ToSet(wire),
         out' = Append(out, e), UNCHANGED <<wire, pending, written>>
  PROVE  /\ InOrder(wire', out', pending', written') /\ out' \in Seq(Messages)
         /\ ToSet(out') = ToSet(out) \cup {e} /\ PacketsIn(out') = PacketsIn(out)
<1>1. out \in Seq(Messages) /\ wire \in Seq(Messages) /\ Ordered(wire \o out)
  BY DEF StreamInv, TypesOK, InOrder
<1>2. e \in Messages /\ e \notin 1 .. MaxPackets
  BY MessageKinds DEF Numbers
<1>3. ToSet(out') = ToSet(out) \cup {e} /\ out' \in Seq(Messages)
  BY <1>1, <1>2, AppendHolds
<1>4. PICK s : s = wire \o out
  OBVIOUS
<1>5. s \in Seq(Messages) /\ ToSet(s) = ToSet(wire) \cup ToSet(out) /\ Ordered(s)
  BY <1>1, <1>4, ConcatHolds
<1>6. /\ Append(s, e) \in Seq(Messages) /\ Ordered(Append(s, e))
      /\ PacketsIn(Append(s, e)) = PacketsIn(s)
  BY <1>5, OtherInOrder
<1>7. wire' \o out' = Append(s, e)
  BY <1>1, <1>2, <1>4
<1>8. InOrder(wire', out', pending', written')
  BY <1>4, <1>6, <1>7 DEF StreamInv, InOrder
<1> QED BY <1>2, <1>3, <1>8 DEF PacketsIn

LEMMA PingDueStep ==
  ASSUME StreamInv, PingDue
  PROVE  StreamInv'
<1>1. /\ TypesOK /\ LockOK(lock, queue, pc) /\ pc["keepalive"] = "sleep" /\ Goes("keepalive", "lock")
      /\ UNCHANGED <<pending, written, out, wire, pinged, closed, aborted, torn, inbox, reader, alive>>
  BY DEF StreamInv, PingDue, outside
<1>2. /\ Moves(pc, pc', "keepalive", "lock") /\ pc' \in [Actors -> Places]
      /\ \A b \in Actors : pc'[b] = IF b = "keepalive" THEN "lock" ELSE pc[b]
  BY <1>1, PcAfter, ActorsAre DEF Places
<1>3. Taken(lock, queue, "keepalive", lock', queue')
  BY DEF PingDue, Acquire, Taken
<1>4. Moves(pc, pc', "keepalive", "lock") /\ pc["keepalive"] \in Away
  BY <1>1, <1>2 DEF Away, Places
<1>5. LockOK(lock', queue', pc')
  BY <1>1, <1>3, <1>4, LockTaken, ActorsAre
<1>6. TypesOK'
  BY <1>1, <1>2 DEF TypesOK
<1>7. CloseOK' /\ PongOK' /\ WriterOK'
  BY <1>1, <1>2, ActorsAre DEF CloseOK, PongOK, WriterOK, StreamInv, PacketsIn
<1> QED BY <1>1, <1>5, <1>6, <1>7 DEF StreamInv

LEMMA FeedPingStep ==
  ASSUME StreamInv, FeedPing
  PROVE  StreamInv'
<1>1. /\ TypesOK /\ LockOK(lock, queue, pc) /\ lock = "keepalive" /\ WsOpen /\ out' = Append(out, Ping)
      /\ Goes("keepalive", "flush")
      /\ UNCHANGED <<pending, written, wire, pinged, lock, queue, ponged, closed, aborted, torn, inbox, reader>>
  BY DEF StreamInv, FeedPing, outside
<1>2. /\ Moves(pc, pc', "keepalive", "flush") /\ pc' \in [Actors -> Places]
      /\ \A b \in Actors : pc'[b] = IF b = "keepalive" THEN "flush" ELSE pc[b]
  BY <1>1, PcAfter, ActorsAre DEF Places
<1>3. Moves(pc, pc', "keepalive", "flush") /\ "flush" \in Places
  BY <1>2 DEF Places
<1>4. LockOK(lock', queue', pc')
  BY <1>1, <1>3, LockKept, ActorsAre
<1>5. CloseFrame \notin ToSet(out) \cup ToSet(wire)
  BY <1>1 DEF WsOpen
<1>6. /\ InOrder(wire', out', pending', written') /\ out' \in Seq(Messages)
      /\ ToSet(out') = ToSet(out) \cup {Ping} /\ PacketsIn(out') = PacketsIn(out)
  BY <1>1, <1>5, OtherFed
<1>7. Ping # CloseFrame
  BY MessageKinds
<1>8. TypesOK'
  BY <1>1, <1>2, <1>6 DEF TypesOK
<1>9. CloseOK'
  BY <1>1, <1>2, <1>5, <1>6, <1>7, ActorsAre DEF CloseOK, StreamInv
<1>10. WriterOK'
  BY <1>1, <1>2, <1>6, ActorsAre DEF WriterOK, StreamInv
<1>11. PongOK'
  BY <1>2, <1>6, ActorsAre DEF PongOK
<1> QED BY <1>4, <1>6, <1>8, <1>9, <1>10, <1>11 DEF StreamInv

LEMMA PongCheckStep ==
  ASSUME StreamInv, PongCheck
  PROVE  StreamInv'
<1>1. PICK w \in {"sleep", "ended"} : Goes("keepalive", w)
  BY DEF PongCheck
<1>2. /\ TypesOK /\ LockOK(lock, queue, pc) /\ pc["keepalive"] = "pong" /\ (closed => closed')
      /\ UNCHANGED <<pending, written, out, wire, pinged, lock, queue, ponged, torn, inbox, reader>>
  BY DEF StreamInv, PongCheck, Abort, outside
<1>3. /\ Moves(pc, pc', "keepalive", w) /\ pc' \in [Actors -> Places]
      /\ \A b \in Actors : pc'[b] = IF b = "keepalive" THEN w ELSE pc[b]
  <2>1. w \in Places
    BY DEF Places
  <2> QED BY <1>1, <1>2, <2>1, PcAfter, ActorsAre
<1>4. Moves(pc, pc', "keepalive", w) /\ w \in Places /\ w \in Away /\ pc["keepalive"] \in Away
  BY <1>2, <1>3 DEF Places, Away
<1>5. LockOK(lock', queue', pc')
  BY <1>2, <1>4, LockKept, ActorsAre
<1>6. TypesOK'
  BY <1>2, <1>3 DEF TypesOK
<1>7. CloseOK' /\ PongOK' /\ WriterOK'
  BY <1>2, <1>3, ActorsAre DEF CloseOK, PongOK, WriterOK, StreamInv, PacketsIn
<1> QED BY <1>2, <1>5, <1>6, <1>7 DEF StreamInv

(* close() cancels the keepalive and starts the handshake in one step. *)
LEMMA CloseStep ==
  ASSUME StreamInv, Close
  PROVE  StreamInv'
<1>1. /\ TypesOK /\ LockOK(lock, queue, pc) /\ ~closed /\ closed'
      /\ UNCHANGED <<pending, written, out, wire, pinged, ponged, torn, inbox, reader>>
  BY DEF StreamInv, Close, outside
<1>2. pc["closer"] = "none" /\ CloseFrame \notin ToSet(out) \cup ToSet(wire)
  BY <1>1 DEF StreamInv, CloseOK
<1>3. PICK w \in Places : w = IF pc["keepalive"] = "ended" THEN "ended" ELSE "cancelled"
  BY DEF Places
<1> PICK p : p = [pc EXCEPT !["keepalive"] = w]
  OBVIOUS
<1>4. Moves(pc, p, "keepalive", w) /\ (w = "cancelled" \/ (pc["keepalive"] \in Away /\ w \in Away))
  BY <1>1, <1>3 DEF Moves, TypesOK, Away, Places
<1>5. LockOK(lock, queue, p)
  BY <1>1, <1>4, LockKept, ActorsAre
<1>6. p \in [Actors -> Places] /\ p["closer"] = "none"
  BY <1>1, <1>2, <1>3, ActorsAre DEF TypesOK
<1>7. pc' = [p EXCEPT !["closer"] = "lock"]
  BY <1>1, <1>3 DEF Close, TypesOK, Actors
<1>8. Moves(p, pc', "closer", "lock") /\ p["closer"] \in Away
  BY <1>6, <1>7 DEF Moves, Away, Places
<1>9. Taken(lock, queue, "closer", lock', queue')
  BY DEF Close, Acquire, Taken
<1>10. LockOK(lock', queue', pc')
  BY <1>5, <1>8, <1>9, LockTaken, ActorsAre
<1>11. /\ pc' \in [Actors -> Places] /\ pc'["closer"] = "lock" /\ pc'["writer"] = pc["writer"]
       /\ pc'["keepalive"] \in {"ended", "cancelled"}
  BY <1>1, <1>3, <1>6, <1>7, ActorsAre DEF TypesOK, Places
<1>12. TypesOK'
  BY <1>1, <1>11 DEF TypesOK
<1>13. CloseOK' /\ PongOK' /\ WriterOK'
  BY <1>1, <1>2, <1>11 DEF CloseOK, PongOK, WriterOK, StreamInv, PacketsIn
<1> QED BY <1>1, <1>10, <1>12, <1>13 DEF StreamInv

LEMMA FeedCloseStep ==
  ASSUME StreamInv, FeedClose
  PROVE  StreamInv'
<1>1. /\ TypesOK /\ LockOK(lock, queue, pc) /\ lock = "closer" /\ out' = Append(out, CloseFrame)
      /\ pc["closer"] = "lock" /\ Goes("closer", "flush")
      /\ UNCHANGED <<pending, written, wire, pinged, lock, queue, ponged, closed, aborted, torn, inbox, reader>>
  BY DEF StreamInv, FeedClose, outside
<1>2. /\ Moves(pc, pc', "closer", "flush") /\ pc' \in [Actors -> Places]
      /\ \A b \in Actors : pc'[b] = IF b = "closer" THEN "flush" ELSE pc[b]
  BY <1>1, PcAfter, ActorsAre DEF Places
<1>3. Moves(pc, pc', "closer", "flush") /\ "flush" \in Places
  BY <1>2 DEF Places
<1>4. LockOK(lock', queue', pc')
  BY <1>1, <1>3, LockKept, ActorsAre
<1>5. CloseFrame \notin ToSet(out) \cup ToSet(wire)
  BY <1>1 DEF StreamInv, CloseOK
<1>6. /\ InOrder(wire', out', pending', written') /\ out' \in Seq(Messages)
      /\ ToSet(out') = ToSet(out) \cup {CloseFrame} /\ PacketsIn(out') = PacketsIn(out)
  BY <1>1, <1>5, OtherFed
<1>7. TypesOK'
  BY <1>1, <1>2, <1>6 DEF TypesOK
<1>8. CloseOK'
  BY <1>1, <1>2, <1>6, ActorsAre DEF CloseOK, StreamInv
<1>9. WriterOK'
  BY <1>1, <1>2, <1>6, ActorsAre DEF WriterOK, StreamInv
<1>10. PongOK'
  BY <1>1, <1>2, <1>6, ActorsAre DEF PongOK, StreamInv
<1> QED BY <1>4, <1>6, <1>7, <1>8, <1>9, <1>10 DEF StreamInv

LEMMA SocketTakesStep ==
  ASSUME StreamInv, SocketTakes
  PROVE  StreamInv'
<1>1. /\ TypesOK /\ out # <<>> /\ out' = Tail(out) /\ out \in Seq(Messages) /\ wire \in Seq(Messages)
      /\ UNCHANGED <<pending, written, lock, queue, pc, ponged, closed, aborted, torn, inbox, reader>>
  BY DEF StreamInv, TypesOK, SocketTakes, outside
<1>2. Head(out) \in Messages /\ out' \in Seq(Messages) /\ ToSet(out) = ToSet(out') \cup {Head(out)}
  BY <1>1, TailHolds
<1>3. CASE Head(out) = Ping
  <2>1. pinged' = TRUE /\ wire' = wire
    BY <1>3 DEF SocketTakes
  <2>2. Ordered(wire \o out)
    BY DEF StreamInv, InOrder
  <2>3. Ordered(wire \o Tail(out)) /\ PacketsIn(wire \o Tail(out)) = PacketsIn(wire \o out)
    BY <1>1, <1>3, <2>2, PingTaken
  <2>4. InOrder(wire', out', pending', written')
    BY <1>1, <2>1, <2>3 DEF StreamInv, InOrder
  <2>5. Ping # CloseFrame
    BY MessageKinds
  <2>6. TypesOK'
    BY <1>1, <1>2, <2>1 DEF TypesOK
  <2>7. CloseOK'
    BY <1>1, <1>2, <1>3, <2>1, <2>5 DEF CloseOK, StreamInv
  <2>8. WriterOK'
    BY <1>1, <1>2 DEF WriterOK, StreamInv, PacketsIn
  <2>9. PongOK'
    BY <2>1 DEF PongOK
  <2> QED BY <1>1, <2>4, <2>6, <2>7, <2>8, <2>9 DEF StreamInv
<1>4. CASE Head(out) # Ping
  <2>1. pinged' = pinged /\ wire' = Append(wire, Head(out))
    BY <1>4 DEF SocketTakes
  <2>2. wire' \in Seq(Messages) /\ ToSet(wire') = ToSet(wire) \cup {Head(out)}
    BY <1>1, <1>2, <2>1, AppendHolds
  <2>3. Append(wire, Head(out)) \o Tail(out) = wire \o out
    BY <1>1, TakenInOrder
  <2>4. InOrder(wire', out', pending', written')
    BY <1>1, <2>1, <2>3 DEF StreamInv, InOrder
  <2>5. TypesOK'
    BY <1>1, <1>2, <2>2 DEF TypesOK
  <2>6. ToSet(out') \cup ToSet(wire') = ToSet(out) \cup ToSet(wire)
    BY <1>2, <2>2
  <2>7. CloseOK'
    BY <1>1, <2>6 DEF CloseOK, StreamInv
  <2>8. WriterOK'
    BY <1>1, <1>2 DEF WriterOK, StreamInv, PacketsIn
  <2>9. PongOK'
    BY <1>1, <1>2, <1>4, <2>1 DEF PongOK, StreamInv
  <2> QED BY <1>1, <2>4, <2>5, <2>7, <2>8, <2>9 DEF StreamInv
<1> QED BY <1>3, <1>4

LEMMA PeerSteps ==
  ASSUME StreamInv, PeerPongs \/ PeerSends \/ PeerDies
  PROVE  StreamInv'
<1>1. /\ TypesOK /\ UNCHANGED <<pending, written, out, wire, lock, queue, pc, ponged, reader, closed, aborted, torn>>
      /\ inbox \in Seq({"pong", "packet"})
  BY DEF StreamInv, TypesOK, PeerPongs, PeerSends, PeerDies
<1>2. inbox' \in Seq({"pong", "packet"}) /\ ToSet(inbox) \subseteq ToSet(inbox')
      /\ (pinged /\ ~pinged' => "pong" \in ToSet(inbox'))
  <2>1. CASE PeerPongs
    <3>1. inbox' = Append(inbox, "pong")
      BY <2>1 DEF PeerPongs
    <3>2. ToSet(inbox') = ToSet(inbox) \cup {"pong"} /\ inbox' \in Seq({"pong", "packet"})
      BY <1>1, <3>1, AppendHolds
    <3> QED BY <3>2
  <2>2. CASE PeerSends
    <3>1. inbox' = Append(inbox, "packet") /\ pinged' = pinged
      BY <2>2 DEF PeerSends
    <3>2. ToSet(inbox') = ToSet(inbox) \cup {"packet"} /\ inbox' \in Seq({"pong", "packet"})
      BY <1>1, <3>1, AppendHolds
    <3> QED BY <3>1, <3>2
  <2>3. CASE PeerDies
    BY <1>1, <2>3 DEF PeerDies
  <2> QED BY <2>1, <2>2, <2>3
<1>3. TypesOK'
  BY <1>1, <1>2 DEF TypesOK
<1>4. CloseOK' /\ WriterOK'
  BY <1>1 DEF CloseOK, WriterOK, StreamInv, PacketsIn
<1>5. PongOK'
  BY <1>1, <1>2 DEF PongOK, StreamInv
<1> QED BY <1>1, <1>3, <1>4, <1>5 DEF StreamInv

LEMMA ReaderSteps ==
  ASSUME StreamInv, ReadPacket \/ ReadPong \/ HandlerTakes
  PROVE  StreamInv'
<1>1. /\ TypesOK /\ UNCHANGED <<pending, written, out, wire, pinged, lock, queue, pc, closed, aborted, torn>>
      /\ inbox \in Seq({"pong", "packet"}) /\ reader' \in {"reading", "blocked"}
  BY DEF StreamInv, TypesOK, ReadPacket, ReadPong, HandlerTakes
<1>2. /\ inbox' \in Seq({"pong", "packet"})
      /\ \/ ponged'
         \/ ponged' = ponged /\ ("pong" \in ToSet(inbox) => "pong" \in ToSet(inbox'))
  <2>1. CASE ReadPacket
    <3>1. inbox # <<>> /\ inbox' = Tail(inbox) /\ Head(inbox) = "packet" /\ ponged' = ponged
      BY <2>1 DEF ReadPacket
    <3>2. inbox' \in Seq({"pong", "packet"}) /\ ToSet(inbox) = ToSet(inbox') \cup {Head(inbox)}
      BY <1>1, <3>1, TailHolds
    <3> QED BY <3>1, <3>2
  <2>2. CASE ReadPong
    <3>1. inbox # <<>> /\ inbox' = Tail(inbox) /\ ponged' = TRUE
      BY <2>2 DEF ReadPong
    <3>2. inbox' \in Seq({"pong", "packet"})
      BY <1>1, <3>1, TailHolds
    <3> QED BY <3>1, <3>2
  <2>3. CASE HandlerTakes
    BY <1>1, <2>3 DEF HandlerTakes
  <2> QED BY <2>1, <2>2, <2>3
<1>3. TypesOK'
  BY <1>1, <1>2 DEF TypesOK
<1>4. CloseOK' /\ WriterOK'
  BY <1>1 DEF CloseOK, WriterOK, StreamInv, PacketsIn
<1>5. PongOK'
  BY <1>1, <1>2 DEF PongOK, StreamInv
<1> QED BY <1>1, <1>3, <1>4, <1>5 DEF StreamInv

LEMMA AwayIs == {"idle", "failed", "sleep", "pong", "ended"} \subseteq Away
  BY DEF Away, Places

LEMMA ReleaseSteps ==
  ASSUME StreamInv,
         \/ WriteReturns \/ FeedNothing \/ WriteThrows \/ WriteCancelled \/ PingSent \/ PingTimeout \/ KeepaliveCancelled
         \/ CloseSent \/ CloseTimeout
  PROVE  StreamInv'
<1>0. torn \in Nat
  BY DEF StreamInv, TypesOK
<1>1. CASE WriteReturns
  <2>1. /\ Goes("writer", "idle") /\ Release("writer") /\ "writer" \in Actors /\ "idle" \in Away
        /\ UNCHANGED <<pending, written, out, wire, pinged, ponged, inbox, reader, closed, torn>>
    BY <1>1, ActorsAre, AwayIs DEF WriteReturns, outside
  <2>2. PacketsIn(out) = {}
    BY <1>1, EmptyQueue DEF WriteReturns, PacketsIn
  <2> QED BY <1>0, <2>1, <2>2, ReleaseStep
<1>2. CASE WriteThrows
  <2>1. /\ Goes("writer", "failed") /\ Release("writer") /\ "writer" \in Actors /\ "failed" \in Away
        /\ UNCHANGED <<pending, written, out, wire, pinged, ponged, inbox, reader, closed, torn>>
    BY <1>2, ActorsAre, AwayIs DEF WriteThrows, outside
  <2> QED BY <1>0, <2>1, ReleaseStep
<1>3. CASE WriteCancelled
  <2>1. /\ Goes("writer", "idle") /\ Release("writer") /\ "writer" \in Actors /\ "idle" \in Away
        /\ torn' = torn + 1 /\ UNCHANGED <<pending, written, out, wire, pinged, ponged, inbox, reader, closed>>
    BY <1>3, ActorsAre, AwayIs DEF WriteCancelled, outside
  <2>2. torn' \in Nat /\ torn' # 0
    BY <1>0, <2>1
  <2> QED BY <1>0, <2>1, <2>2, ReleaseStep
<1>4. CASE PingSent
  <2>1. /\ Goes("keepalive", "pong") /\ Release("keepalive") /\ "keepalive" \in Actors /\ "pong" \in Away
        /\ pc["keepalive"] = "flush" /\ out = <<>>
        /\ UNCHANGED <<pending, written, out, wire, pinged, ponged, inbox, reader, closed, torn>>
    BY <1>4, ActorsAre, AwayIs DEF PingSent, outside
  <2> QED BY <1>0, <2>1, ReleaseStep
<1>5. CASE PingTimeout
  <2>1. /\ Goes("keepalive", "ended") /\ Release("keepalive") /\ "keepalive" \in Actors /\ "ended" \in Away
        /\ closed' /\ UNCHANGED <<pending, written, out, wire, pinged, ponged, inbox, reader, torn>>
    BY <1>5, ActorsAre, AwayIs DEF PingTimeout, Abort, outside
  <2> QED BY <1>0, <2>1, ReleaseStep
<1>6. CASE KeepaliveCancelled
  <2>1. /\ Goes("keepalive", "ended") /\ Release("keepalive") /\ "keepalive" \in Actors /\ "ended" \in Away
        /\ UNCHANGED <<pending, written, out, wire, pinged, ponged, inbox, reader, closed, torn>>
    BY <1>6, ActorsAre, AwayIs DEF KeepaliveCancelled, outside
  <2> QED BY <1>0, <2>1, ReleaseStep
<1>7. CASE CloseSent \/ CloseTimeout
  <2>1. /\ Goes("closer", "ended") /\ Release("closer") /\ "closer" \in Actors /\ "ended" \in Away
        /\ closed' /\ UNCHANGED <<pending, written, out, wire, pinged, ponged, inbox, reader, torn>>
    BY <1>7, ActorsAre, AwayIs DEF CloseSent, CloseTimeout, Abort, outside
  <2> QED BY <1>0, <2>1, ReleaseStep
<1>8. CASE FeedNothing
  <2>1. /\ Goes("writer", "idle") /\ Release("writer") /\ "writer" \in Actors /\ "idle" \in Away
        /\ UNCHANGED <<pending, written, out, wire, pinged, ponged, inbox, reader, closed, torn>>
    BY <1>8, ActorsAre, AwayIs DEF FeedNothing, outside
  <2>2. torn = 0 => PacketsIn(out) = {}
    BY <1>8 DEF FeedNothing, StreamInv, WriterOK
  <2> QED BY <1>0, <2>1, <2>2, ReleaseStep
<1> QED BY <1>1, <1>2, <1>3, <1>4, <1>5, <1>6, <1>7, <1>8

LEMMA Next_Inv ==
  ASSUME StreamInv, [Next]_vars
  PROVE  StreamInv'
<1>1. CASE UNCHANGED vars
  BY <1>1 DEF vars, StreamInv, TypesOK, CloseOK, WriterOK, PongOK, PacketsIn
<1>2. ASSUME NEW n \in 1 .. MaxWrite, Write(n) PROVE StreamInv'
  BY <1>2, WriteStep
<1>3. CASE FeedPackets
  BY <1>3, FeedPacketsStep
<1>4. CASE FeedThrows
  BY <1>4, FeedThrowsStep
<1>5. CASE PingDue
  BY <1>5, PingDueStep
<1>6. CASE FeedPing
  BY <1>6, FeedPingStep
<1>7. CASE PongCheck
  BY <1>7, PongCheckStep
<1>8. CASE Close
  BY <1>8, CloseStep
<1>9. CASE FeedClose
  BY <1>9, FeedCloseStep
<1>10. CASE SocketTakes
  BY <1>10, SocketTakesStep
<1>11. CASE PeerPongs \/ PeerSends \/ PeerDies
  BY <1>11, PeerSteps
<1>12. CASE ReadPacket \/ ReadPong \/ HandlerTakes
  BY <1>12, ReaderSteps
<1>13. CASE \/ WriteReturns \/ FeedNothing \/ WriteThrows \/ WriteCancelled \/ PingSent \/ PingTimeout \/ KeepaliveCancelled
            \/ CloseSent \/ CloseTimeout
  BY <1>13, ReleaseSteps
<1> QED
  BY <1>1, <1>2, <1>3, <1>4, <1>5, <1>6, <1>7, <1>8, <1>9, <1>10, <1>11, <1>12, <1>13
  DEF Next, WriterRuns, KeepaliveRuns, CloserRuns, ReaderRuns, Timers

LEMMA StreamInvAlways == Spec => []StreamInv
  BY Init_Inv, Next_Inv, PTL DEF Spec

(* write()'s "cut at packet boundaries": for any number of packets, split  *)
(* over any writes, with any of them too long, and whatever is cancelled,  *)
(* timed out, pinged or closed meanwhile, the WebSocket is given whole     *)
(* packets in order, once each and none lost; what is left in pending is   *)
(* exactly the rest, and nothing is fed after the Close frame.             *)
THEOREM StreamMessagesInOrder == Spec => []MessagesInOrder
<1>1. StreamInv => MessagesInOrder
  BY DEF StreamInv, InOrder, Backlog, Ordered, MessagesInOrder, Sent
<1> QED BY <1>1, StreamInvAlways, PTL

(* write() returns only when every whole packet it and its predecessors    *)
(* took over is in the socket: what a cancelled write left behind too.     *)
THEOREM StreamWrittenMeansSent == Spec => WrittenMeansSent
<1>1. ASSUME StreamInv, StreamInv', [Next]_vars,
             pc["writer"] \in {"lock", "flush"}, pc'["writer"] = "idle", torn' = torn
      PROVE  /\ ~\E i \in DOMAIN pending' : pending'[i][2] = 2
             /\ torn = 0 => PacketsIn(out') = {}
             /\ pc["writer"] = "flush" => PacketsIn(out') = {}
  <2>1. FeedPackets \/ FeedNothing \/ WriteReturns
    <3>1. ASSUME NEW a \in Actors, NEW w \in Places, Goes(a, w), ~(a = "writer" /\ w = "idle") PROVE FALSE
      <4>1. \A b \in Actors : pc'[b] = IF b = a THEN w ELSE pc[b]
        BY <1>1, <3>1, PcAfter DEF StreamInv
      <4> QED BY <1>1, <3>1, <4>1, ActorsAre
    <3>2. {"lock", "flush", "failed", "pong", "ended", "sleep"} \subseteq Places
      BY DEF Places
    <3>3. ~Close
      BY <1>1, ActorsAre DEF Close, StreamInv, TypesOK, Actors
    <3>4. pc' # pc
      BY <1>1
    <3>5. ~UNCHANGED vars /\ ~SocketTakes /\ ~PeerPongs /\ ~PeerSends /\ ~PeerDies /\ ~HandlerTakes
          /\ ~ReadPacket /\ ~ReadPong
      BY <3>4 DEF vars, SocketTakes, PeerPongs, PeerSends, PeerDies, HandlerTakes, ReadPacket, ReadPong
    <3>6. ~WriteCancelled
      BY <1>1 DEF WriteCancelled, StreamInv, TypesOK
    <3>7. ~FeedThrows /\ ~WriteThrows /\ \A n \in 1 .. MaxWrite : ~Write(n)
      BY <3>1, <3>2, ActorsAre DEF FeedThrows, WriteThrows, Write
    <3>8. ~FeedPing /\ ~PingSent /\ ~KeepaliveCancelled /\ ~PingDue /\ ~PingTimeout /\ ~PongCheck
      BY <3>1, <3>2, ActorsAre DEF FeedPing, PingSent, KeepaliveCancelled, PingDue, PingTimeout, PongCheck
    <3>9. ~FeedClose /\ ~CloseSent /\ ~CloseTimeout
      BY <3>1, <3>2, ActorsAre DEF FeedClose, CloseSent, CloseTimeout
    <3> QED
      BY <1>1, <3>3, <3>5, <3>6, <3>7, <3>8, <3>9
      DEF Next, WriterRuns, KeepaliveRuns, CloserRuns, ReaderRuns, Timers
  <2>2. Len(pending') < 2
    <3>1. CASE FeedPackets
      <4>1. WsOpen /\ Cut(Whole) /\ wire' = wire /\ written' = written
        BY <3>1 DEF FeedPackets
      <4>2. Whole \in 0 .. Whole
        BY <1>1, WholeNumber
      <4> QED BY <1>1, <4>1, <4>2, CutKeeps
    <3>2. CASE WriteReturns
      BY <1>1, <3>2 DEF WriteReturns, StreamInv, WriterOK
    <3>3. CASE FeedNothing
      <4>1. Len(pending) \in Nat /\ Len(pending) \div 2 = 0 /\ pending' = pending
        BY <1>1, <3>3, WholeNumber DEF FeedNothing, Whole
      <4> QED BY <4>1
    <3> QED BY <2>1, <3>1, <3>2, <3>3
  <2>3. ~\E i \in DOMAIN pending' : pending'[i][2] = 2
    <3>1. PICK n \in 0 .. MaxPackets : 2 * n <= written' /\ Backlog(pending', n, written')
      BY <1>1 DEF StreamInv, InOrder
    <3>2. n \in Nat /\ written' \in Nat
      BY <1>1, StreamAssumption DEF StreamInv, TypesOK
    <3>3. /\ pending' \in Seq(Nat \X {1, 2}) /\ Len(pending') = written' - 2 * n
          /\ \A i \in 1 .. written' - 2 * n : pending'[i] = Unit(2 * n + i)
      BY <3>1, <3>2, BacklogIs
    <3>4. \A i \in DOMAIN pending' : i = 1 /\ i \in 1 .. written' - 2 * n
      <4>1. PICK d : d = written' - 2 * n
        OBVIOUS
      <4>2. d \in Nat /\ d < 2
        <5>1. 2 * n <= written' /\ n \in Nat /\ written' \in Nat
          BY <3>1, <3>2
        <5>2. Len(pending') = d
          BY <3>3, <4>1
        <5>3. \A m, w \in Nat : 2 * m <= w => w - 2 * m \in Nat
          OBVIOUS
        <5>4. d \in Nat
          BY <4>1, <5>1, <5>3, Zenon
        <5> QED BY <2>2, <5>2, <5>4
      <4>3. DOMAIN pending' = 1 .. Len(pending')
        BY <3>3
      <4>4. DOMAIN pending' = 1 .. d
        BY <3>3, <4>1, <4>3
      <4>5. \A i \in 1 .. d : i = 1
        BY <4>2
      <4> QED BY <4>1, <4>4, <4>5
    <3>5. n + 1 \in Nat \ {0} /\ 2 * (n + 1) - 1 = 2 * n + 1
      BY <3>2
    <3>6. PICK j : j = n + 1
      OBVIOUS
    <3>7. Unit(2 * j - 1) = <<j, 1>>
      BY <3>5, <3>6, UnitIs
    <3>8. \A i \in DOMAIN pending' : pending'[i] = <<j, 1>>
      BY <3>3, <3>4, <3>5, <3>6, <3>7
    <3> QED BY <3>8
  <2>4. pc["writer"] = "flush" => PacketsIn(out') = {}
    <3>1. CASE FeedPackets \/ FeedNothing
      BY <3>1 DEF FeedPackets, FeedNothing
    <3>2. CASE WriteReturns
      BY <3>2, EmptyQueue DEF WriteReturns, PacketsIn
    <3> QED BY <2>1, <3>1, <3>2
  <2>5. torn = 0 => PacketsIn(out') = {}
    BY <1>1 DEF StreamInv, WriterOK, PacketsIn
  <2> QED BY <2>3, <2>4, <2>5
<1>2. ASSUME StreamInv, StreamInv', [Next]_vars
      PROVE  [pc["writer"] \in {"lock", "flush"} /\ pc'["writer"] = "idle" /\ torn' = torn =>
                /\ ~\E i \in DOMAIN pending' : pending'[i][2] = 2
                /\ torn = 0 => PacketsIn(out') = {}
                /\ pc["writer"] = "flush" => PacketsIn(out') = {}]_vars
  BY <1>1, <1>2
<1> QED BY <1>2, StreamInvAlways, PTL DEF Spec, WrittenMeansSent

(* The keepalive and close(): no ping timeout, pong check or close timeout *)
(* cuts a connection whose peer is there, whoever holds writeLock and      *)
(* whatever waits behind it, unless the reader sits before a full inbound  *)
(* queue or the Close frame is out.                                        *)
THEOREM StreamLivePeerKept == Spec => LivePeerKept
<1>1. ASSUME StreamInv, [Next]_vars, ~aborted, aborted', alive
      PROVE  reader = "blocked" \/ CloseFrame \in ToSet(wire)
  <2>1. PingTimeout \/ PongCheck \/ CloseSent \/ CloseTimeout
    BY <1>1
    DEF Next, vars, WriterRuns, KeepaliveRuns, CloserRuns, ReaderRuns, Timers, Write, WriteCancelled, Close,
        FeedPackets, FeedNothing, FeedThrows, WriteReturns, WriteThrows, FeedPing, PingSent, KeepaliveCancelled, FeedClose,
        ReadPacket, ReadPong, PingDue, SocketTakes, PeerPongs, PeerSends, PeerDies, HandlerTakes
  <2>2. ASSUME Settled, NEW a \in Actors, pc[a] \in {"lock", "flush"} PROVE FALSE
    <3>1. pc[a] = "lock"
      BY <1>1, <2>2 DEF Settled
    <3>2. LockOK(lock, queue, pc)
      BY <1>1 DEF StreamInv
    <3>3. lock \in Actors /\ pc[lock] \in {"lock", "flush", "cancelled"}
      BY <3>1, <3>2, Waited
    <3>4. pc[lock] # "lock" /\ pc[lock] # "flush"
      BY <1>1, <2>2, <3>3 DEF Settled
    <3>5. lock # "keepalive" /\ pc[lock] = "cancelled"
      BY <2>2, <3>3, <3>4 DEF Settled
    <3> QED BY <1>1, <3>3, <3>5, ActorsAre DEF StreamInv, WriterOK, CloseOK
  <2>3. CASE PingTimeout
    BY <2>2, <2>3, ActorsAre DEF PingTimeout
  <2>4. CASE CloseTimeout
    BY <2>2, <2>4, ActorsAre DEF CloseTimeout
  <2>5. CASE CloseSent
    <3>1. CloseFrame \in ToSet(out) \cup ToSet(wire) /\ out = <<>>
      BY <1>1, <2>5 DEF CloseSent, StreamInv, CloseOK
    <3> QED BY <3>1, EmptyQueue
  <2>6. CASE PongCheck
    <3>1. pc["keepalive"] = "pong" /\ Settled /\ ~ponged
      BY <1>1, <2>6 DEF PongCheck
    <3>2. pinged \/ "pong" \in ToSet(inbox)
      BY <1>1, <3>1 DEF StreamInv, PongOK
    <3>3. ~pinged
      BY <1>1, <3>1 DEF Settled
    <3> QED BY <1>1, <3>1, <3>2, <3>3, EmptyQueue DEF Settled, StreamInv, TypesOK
  <2> QED BY <2>1, <2>3, <2>4, <2>5, <2>6
<1>2. ASSUME StreamInv, [Next]_vars
      PROVE  [~aborted /\ aborted' /\ alive => reader = "blocked" \/ CloseFrame \in ToSet(wire)]_vars
  BY <1>1, <1>2
<1> QED BY <1>2, StreamInvAlways, PTL DEF Spec, LivePeerKept
=============================================================================
