--------------------------- MODULE QuicOpenProofs ---------------------------
(***************************************************************************)
(* QuicClientTransport.open() for every number of addresses: what the race *)
(* leaves behind, who wins it, and when it may be given up.                *)
(***************************************************************************)
EXTENDS QuicOpen, FiniteSetTheorems, TLAPS

RacerStates == {"none", "launched", "await", "cancelled", "ended", "unbegun"}
ConnStates == {"none", "connecting", "open", "closed"}
HandleStates == {"none", "open", "closed"}

TypeOK ==
  /\ next \in 0 .. N /\ running \in Nat
  /\ racer \in [Addresses -> RacerStates]
  /\ conn \in [Addresses -> ConnStates]
  /\ endpoint \in [Addresses -> HandleStates]
  /\ failed \in SUBSET Addresses
  /\ outcomes \in Seq(Addresses)
  /\ shut \in BOOLEAN
  /\ pc \in {"loop", "parked", "handed", "delay", "openBi", "returned", "failed", "cancelled"}
  /\ handed \in 0 .. N
  /\ winner \in 0 .. N
  /\ order \in Seq(Addresses)
  /\ lost \in SUBSET Addresses

(* Where open() is says what its locals hold. *)
Stage ==
  /\ shut <=> ~Racing
  /\ shut => outcomes = <<>>
  /\ pc = "handed" <=> handed # Nobody
  /\ pc = "parked" => outcomes = <<>>
  /\ pc \in {"parked", "handed", "delay"} => winner = Nobody
  /\ pc \in {"openBi", "returned"} => winner # Nobody

(* Addresses not tried yet have no racer, one that has been tried has its  *)
(* endpoint while the race is on, and a handshake under way has a racer    *)
(* that waits for it, is to close it, or never began.                      *)
Tried ==
  \A a \in Addresses :
    /\ a > next => racer[a] = "none" /\ conn[a] = "none" /\ endpoint[a] = "none"
    /\ shut => racer[a] \notin {"launched", "await"}
    /\ Racing /\ racer[a] # "none" => endpoint[a] = "open" /\ racer[a] \notin {"cancelled", "unbegun"}
    /\ Racing /\ a <= next => a \in failed \/ racer[a] \in {"launched", "await"} \/ conn[a] = "open"
    /\ conn[a] = "connecting" => racer[a] \notin {"none", "ended"}

(* The outcomes the loop has not seen: in the channel, handed to its       *)
(* receive(), or lost.  Every one is there once, from a racer that ended.  *)
Unseen ==
  /\ \A i, j \in DOMAIN outcomes : i # j => outcomes[i] # outcomes[j]
  /\ \A i \in DOMAIN outcomes :
       racer[outcomes[i]] = "ended" /\ outcomes[i] # handed /\ outcomes[i] \notin lost
  /\ handed # Nobody => racer[handed] = "ended" /\ handed \notin lost
  /\ \A a \in lost : racer[a] = "ended"

(* An open connection is one of the outcomes not seen, or the winner, or   *)
(* it has no racer.                                                        *)
Owned ==
  /\ \A a \in Addresses :
       conn[a] = "open" /\ racer[a] # "unbegun" =>
         racer[a] = "ended" /\ (a \in ToSet(outcomes) \/ a = handed \/ a \in lost \/ a = winner)
  /\ winner # Nobody =>
       /\ racer[winner] = "ended" /\ winner \notin ToSet(outcomes)
       /\ pc \in {"loop", "openBi", "returned"} => conn[winner] = "open" /\ endpoint[winner] = "open"
       /\ pc \in {"failed", "cancelled"} => conn[winner] # "open"
  /\ ~Racing => \A a \in Addresses : endpoint[a] = "open" => a = winner /\ pc \in {"openBi", "returned"}

(* Completed handshakes come to the loop in the order they completed. *)
InOrder ==
  /\ Racing => \A a \in Addresses : conn[a] = "open" <=> a \in ToSet(order)
  /\ Racing /\ winner = Nobody =>
       /\ \A i \in DOMAIN order : order[i] \in ToSet(outcomes) \cup lost \cup {handed}
       /\ \A i, j \in DOMAIN order : i < j =>
            /\ order[j] = handed => order[i] \in lost
            /\ \A k \in DOMAIN outcomes : outcomes[k] = order[j] =>
                 \/ order[i] \in lost \cup {handed}
                 \/ \E m \in 1 .. k - 1 : outcomes[m] = order[i]

QuicInv ==
  /\ TypeOK /\ Stage /\ Tried /\ Unseen /\ Owned /\ RunningCounted /\ InOrder /\ FirstWins

-----------------------------------------------------------------------------
(* What Head, Tail and Append do to a sequence and to its set of elements. *)
LEMMA TailFacts ==
  ASSUME NEW S, NEW s \in Seq(S), s # <<>>
  PROVE  /\ Len(s) \in Nat /\ Len(s) >= 1 /\ DOMAIN s = 1 .. Len(s)
         /\ Head(s) = s[1] /\ s[1] \in S
         /\ Tail(s) \in Seq(S)
         /\ DOMAIN Tail(s) = 1 .. Len(s) - 1
         /\ \A i \in 1 .. Len(s) - 1 : Tail(s)[i] = s[i + 1]
         /\ ToSet(s) = {Head(s)} \cup ToSet(Tail(s))
<1>1. /\ Len(s) \in Nat /\ Len(s) >= 1 /\ DOMAIN s = 1 .. Len(s)
      /\ Head(s) = s[1] /\ s[1] \in S
      /\ Tail(s) \in Seq(S)
      /\ DOMAIN Tail(s) = 1 .. Len(s) - 1
      /\ \A i \in 1 .. Len(s) - 1 : Tail(s)[i] = s[i + 1]
  OBVIOUS
<1>2. ASSUME NEW x \in ToSet(s)
      PROVE  x \in {Head(s)} \cup ToSet(Tail(s))
  <2>1. PICK i \in 1 .. Len(s) : x = s[i]
    BY <1>1, <1>2 DEF ToSet
  <2>2. CASE i = 1
    BY <1>1, <2>1, <2>2
  <2>3. CASE i # 1
    <3>1. i - 1 \in 1 .. Len(s) - 1 /\ Tail(s)[i - 1] = s[i]
      BY <1>1, <2>1, <2>3
    <3> QED BY <1>1, <2>1, <3>1 DEF ToSet
  <2> QED BY <2>2, <2>3
<1>3. {Head(s)} \cup ToSet(Tail(s)) \subseteq ToSet(s)
  BY <1>1 DEF ToSet
<1> QED BY <1>1, <1>2, <1>3

LEMMA AppendFacts ==
  ASSUME NEW S, NEW s \in Seq(S), NEW e \in S
  PROVE  /\ Append(s, e) \in Seq(S)
         /\ Len(s) \in Nat /\ DOMAIN s = 1 .. Len(s)
         /\ DOMAIN Append(s, e) = 1 .. Len(s) + 1
         /\ \A i \in 1 .. Len(s) : Append(s, e)[i] = s[i]
         /\ Append(s, e)[Len(s) + 1] = e
         /\ ToSet(Append(s, e)) = ToSet(s) \cup {e}
<1>1. /\ Append(s, e) \in Seq(S)
      /\ Len(s) \in Nat /\ DOMAIN s = 1 .. Len(s)
      /\ DOMAIN Append(s, e) = 1 .. Len(s) + 1
      /\ \A i \in 1 .. Len(s) : Append(s, e)[i] = s[i]
      /\ Append(s, e)[Len(s) + 1] = e
  OBVIOUS
<1>2. ToSet(Append(s, e)) \subseteq ToSet(s) \cup {e}
  BY <1>1 DEF ToSet
<1>3. ToSet(s) \cup {e} \subseteq ToSet(Append(s, e))
  BY <1>1 DEF ToSet
<1> QED BY <1>1, <1>2, <1>3

(* The attempts that are waited for are finitely many. *)
LEMMA AwaitedFinite ==
  ASSUME TypeOK
  PROVE  /\ Awaited \in SUBSET Addresses
         /\ IsFiniteSet(Awaited) /\ Cardinality(Awaited) \in Nat
<1>1. IsFiniteSet(Addresses)
  BY AddressAssumption, FS_Interval DEF Addresses
<1>2. Awaited \in SUBSET Addresses
  <2>1. ToSet(outcomes) \in SUBSET Addresses
    BY DEF TypeOK, ToSet
  <2>2. {handed} \ {Nobody} \in SUBSET Addresses
    BY AddressAssumption DEF TypeOK, Addresses, Nobody
  <2> QED BY <2>1, <2>2 DEF Awaited, TypeOK
<1> QED BY <1>1, <1>2, FS_Subset, FS_CardinalityType

LEMMA EmptyFacts ==
  /\ \A S : <<>> \in Seq(S)
  /\ DOMAIN <<>> = {} /\ ToSet(<<>>) = {}
<1>1. \A S : <<>> \in Seq(S)
  OBVIOUS
<1>2. DOMAIN <<>> = {}
  OBVIOUS
<1> QED BY <1>1, <1>2 DEF ToSet

LEMMA QuicInvInit == Init => QuicInv
<1> SUFFICES ASSUME Init PROVE QuicInv
  OBVIOUS
<1>1. TypeOK
  <2>1. outcomes \in Seq(Addresses) /\ order \in Seq(Addresses)
    BY EmptyFacts DEF Init
  <2>2. /\ racer \in [Addresses -> RacerStates] /\ conn \in [Addresses -> ConnStates]
        /\ endpoint \in [Addresses -> HandleStates]
    BY DEF Init, RacerStates, HandleStates, ConnStates
  <2>3. shut \in BOOLEAN
    BY DEF Init
  <2>4. /\ next = 0 /\ running = 0 /\ handed = 0 /\ winner = 0
        /\ failed = {} /\ lost = {} /\ pc = "loop"
    BY DEF Init, Nobody
  <2> QED BY <2>1, <2>2, <2>3, <2>4, AddressAssumption DEF TypeOK
<1>2. ToSet(outcomes) = {} /\ ToSet(order) = {} /\ DOMAIN outcomes = {} /\ DOMAIN order = {}
  BY EmptyFacts DEF Init
<1>3. Stage /\ Unseen /\ InOrder /\ FirstWins
  BY <1>2 DEF Init, Stage, Unseen, InOrder, FirstWins, Nobody, Racing
<1>5. Tried /\ Owned
  <2>1. /\ \A a \in Addresses : racer[a] = "none" /\ conn[a] = "none" /\ endpoint[a] = "none"
        /\ next = 0 /\ winner = Nobody /\ pc = "loop" /\ ~shut
    BY DEF Init
  <2>2. \A a \in Addresses : ~(a <= next)
    BY <2>1, AddressAssumption DEF Addresses
  <2> QED BY <2>1, <2>2 DEF Tried, Owned, Racing
<1>4. RunningCounted
  <2>1. Awaited = {}
    BY <1>2 DEF Init, Awaited, Nobody
  <2> QED BY <2>1, FS_EmptySet DEF Init, RunningCounted
<1> QED BY <1>1, <1>3, <1>4, <1>5 DEF QuicInv

-----------------------------------------------------------------------------
(* Addresses are numbers, and none of them is Nobody. *)
LEMMA AddressFacts ==
  /\ Nobody \notin Addresses /\ Addresses \subseteq Nat
  /\ \A a \in 0 .. N : a # Nobody => a \in Addresses
  /\ next \in 0 .. N /\ next < N =>
       /\ next \in Nat /\ next + 1 \in Addresses /\ next + 1 \in 0 .. N
       /\ \A a \in Addresses : /\ a > next + 1 => a > next /\ a # next + 1
                               /\ a <= next + 1 => a = next + 1 \/ a <= next
       /\ next + 1 > next
  BY AddressAssumption DEF Addresses, Nobody

(* While the race is on every racer has begun or is to begin, so an open   *)
(* connection is an outcome not seen or the winner's.                      *)
LEMMA OwnedRacing ==
  ASSUME QuicInv, Racing, NEW a \in Addresses, conn[a] = "open"
  PROVE  racer[a] = "ended" /\ (a \in ToSet(outcomes) \/ a = handed \/ a \in lost \/ a = winner)
<1>1. Tried /\ Owned
  BY DEF QuicInv
<1>2. racer[a] # "unbegun"
  BY <1>1 DEF Tried
<1> QED BY <1>1, <1>2 DEF Owned

(* startNext() gets its endpoint and launches a racer. *)
LEMMA StartStep ==
  ASSUME QuicInv, Start
  PROVE  QuicInv'
<1> DEFINE n == next + 1
<1>1. TypeOK /\ Stage /\ Tried /\ Unseen /\ Owned /\ RunningCounted /\ InOrder /\ FirstWins
  BY DEF QuicInv
<1>2. /\ n \in Addresses /\ n > next /\ n \in 0 .. N
      /\ \A a \in Addresses : (a > n => a > next /\ a # n) /\ (a <= n => a = n \/ a <= next)
  BY <1>1, AddressFacts DEF Start, MayStart, TypeOK
<1>3. next' = n
  BY DEF Start
<1> HIDE DEF n
<1>4. /\ running' = running + 1
      /\ racer' = [racer EXCEPT ![n] = "launched"]
      /\ conn' = [conn EXCEPT ![n] = "connecting"]
      /\ endpoint' = [endpoint EXCEPT ![n] = "open"]
      /\ pc' = "loop" /\ pc \in {"loop", "delay"}
      /\ UNCHANGED <<failed, outcomes, shut, handed, winner, verdict, order, lost>>
  BY DEF Start, MayStart, n
<1>5. racer[n] = "none" /\ conn[n] = "none" /\ endpoint[n] = "none"
  BY <1>1, <1>2 DEF Tried
<1>6. winner = Nobody /\ handed = Nobody
  BY <1>1 DEF Start, MayStart, Stage
<1>7. ~shut /\ Racing /\ Racing'
  BY <1>1, <1>4 DEF Stage, Racing
<1>8. TypeOK'
  <2>1. /\ racer' \in [Addresses -> RacerStates] /\ endpoint' \in [Addresses -> HandleStates]
        /\ conn' \in [Addresses -> ConnStates]
        /\ running' \in Nat /\ next' \in 0 .. N
    BY <1>1, <1>2, <1>3, <1>4 DEF TypeOK, RacerStates, HandleStates, ConnStates
  <2> QED BY <1>1, <1>4, <2>1 DEF TypeOK
<1>9. Stage'
  BY <1>1, <1>4, <1>6, <1>7 DEF Stage
<1>10. Tried'
  <2> SUFFICES ASSUME NEW a \in Addresses
               PROVE  /\ a > n => racer'[a] = "none" /\ conn'[a] = "none" /\ endpoint'[a] = "none"
                      /\ racer'[a] # "none" => endpoint'[a] = "open" /\ racer'[a] \notin {"cancelled", "unbegun"}
                      /\ a <= n => a \in failed' \/ racer'[a] \in {"launched", "await"} \/ conn'[a] = "open"
                      /\ conn'[a] = "connecting" => racer'[a] \notin {"none", "ended"}
    BY <1>3, <1>4, <1>7 DEF Tried
  <2>1. CASE a = n
    BY <1>1, <1>2, <1>4, <2>1, AddressFacts DEF TypeOK
  <2>2. CASE a # n
    BY <1>1, <1>2, <1>4, <1>7, <2>2 DEF TypeOK, Tried
  <2> QED BY <2>1, <2>2
<1>11. Unseen' /\ Owned'
  <2>1. \A a \in Addresses : racer[a] = "ended" => racer'[a] = "ended"
    BY <1>1, <1>4, <1>5 DEF TypeOK
  <2>2. /\ outcomes \in Seq(Addresses) /\ \A i \in DOMAIN outcomes : outcomes[i] \in Addresses
        /\ lost \in SUBSET Addresses
    BY <1>1 DEF TypeOK
  <2>3. Unseen'
    BY <1>1, <1>4, <1>6, <2>1, <2>2 DEF Unseen
  <2>4. \A a \in Addresses : conn'[a] = "open" <=> conn[a] = "open"
    BY <1>1, <1>4, <1>5 DEF TypeOK
  <2>5. \A a \in Addresses : conn'[a] = "open" =>
          racer'[a] = "ended" /\ (a \in ToSet(outcomes) \/ a = handed \/ a \in lost \/ a = winner)
    BY <1>7, <2>1, <2>4, OwnedRacing
  <2> QED BY <1>4, <1>6, <1>7, <2>3, <2>5 DEF Owned
<1>12. RunningCounted'
  <2>1. n \notin Awaited
    <3>1. n \notin ToSet(outcomes) /\ n \notin lost
      BY <1>1, <1>5 DEF Unseen, ToSet
    <3> QED BY <1>1, <1>5, <1>6, <3>1 DEF Awaited, TypeOK
  <2>2. Awaited' = Awaited \cup {n}
    <3>1. \A a \in Addresses :
            racer'[a] \in {"launched", "await"} <=> racer[a] \in {"launched", "await"} \/ a = n
      BY <1>1, <1>2, <1>4 DEF TypeOK
    <3> QED BY <1>2, <1>4, <3>1 DEF Awaited
  <2>3. IsFiniteSet(Awaited) /\ Cardinality(Awaited \cup {n}) = Cardinality(Awaited) + 1
    BY <1>1, <2>1, AwaitedFinite, FS_AddElement
  <2> QED BY <1>1, <1>4, <1>7, <2>2, <2>3 DEF RunningCounted
<1>13. InOrder' /\ FirstWins'
  <2>1. \A a \in Addresses : conn'[a] = "open" <=> conn[a] = "open"
    BY <1>1, <1>4, <1>5 DEF TypeOK
  <2> QED BY <1>1, <1>4, <1>7, <2>1 DEF InOrder, FirstWins, First
<1> QED BY <1>8, <1>9, <1>10, <1>11, <1>12, <1>13 DEF QuicInv

(* startNext() fails for an address. *)
LEMMA StartFailsStep ==
  ASSUME QuicInv, StartFails
  PROVE  QuicInv'
<1> DEFINE n == next + 1
<1>1. TypeOK /\ Stage /\ Tried /\ Unseen /\ Owned /\ RunningCounted /\ InOrder /\ FirstWins
  BY DEF QuicInv
<1>2. /\ n \in Addresses /\ n > next /\ n \in 0 .. N
      /\ \A a \in Addresses : (a > n => a > next /\ a # n) /\ (a <= n => a = n \/ a <= next)
  BY <1>1, AddressFacts DEF StartFails, MayStart, TypeOK
<1>3. next' = n
  BY DEF StartFails
<1> HIDE DEF n
<1>4. /\ failed' = failed \cup {n}
      /\ endpoint' \in {endpoint, [endpoint EXCEPT ![n] = "closed"]}
      /\ pc' = "loop" /\ pc \in {"loop", "delay"}
      /\ UNCHANGED <<running, racer, conn, outcomes, shut, handed, winner, verdict, order, lost>>
  BY DEF StartFails, MayStart, n
<1>5. racer[n] = "none" /\ conn[n] = "none" /\ endpoint[n] = "none"
  BY <1>1, <1>2 DEF Tried
<1>6. winner = Nobody /\ handed = Nobody
  BY <1>1 DEF StartFails, MayStart, Stage
<1>7. ~shut /\ Racing /\ Racing'
  BY <1>1, <1>4 DEF Stage, Racing
<1>8. TypeOK'
  <2>1. endpoint' \in [Addresses -> HandleStates] /\ next' \in 0 .. N /\ failed' \in SUBSET Addresses
    BY <1>1, <1>2, <1>3, <1>4 DEF TypeOK, HandleStates, ConnStates
  <2> QED BY <1>1, <1>4, <2>1 DEF TypeOK
<1>9. Stage'
  BY <1>1, <1>4, <1>6, <1>7 DEF Stage
<1>10. Tried'
  <2> SUFFICES ASSUME NEW a \in Addresses
               PROVE  /\ a > n => racer[a] = "none" /\ conn[a] = "none" /\ endpoint'[a] = "none"
                      /\ racer[a] # "none" => endpoint'[a] = "open" /\ racer[a] \notin {"cancelled", "unbegun"}
                      /\ a <= n => a \in failed' \/ racer[a] \in {"launched", "await"} \/ conn[a] = "open"
                      /\ conn[a] = "connecting" => racer[a] \notin {"none", "ended"}
    BY <1>3, <1>4, <1>7 DEF Tried
  <2>1. CASE a = n
    BY <1>2, <1>4, <1>5, <2>1, AddressFacts
  <2>2. CASE a # n
    BY <1>1, <1>2, <1>4, <1>7, <2>2 DEF TypeOK, Tried
  <2> QED BY <2>1, <2>2
<1>11. Unseen' /\ Owned'
  BY <1>1, <1>4, <1>6, <1>7 DEF Unseen, Owned
<1>12. RunningCounted'
  BY <1>1, <1>4, <1>7 DEF RunningCounted, Awaited
<1>13. InOrder' /\ FirstWins'
  BY <1>1, <1>2, <1>4, <1>6, <1>7 DEF InOrder, FirstWins, First, TypeOK
<1> QED BY <1>8, <1>9, <1>10, <1>11, <1>12, <1>13 DEF QuicInv

-----------------------------------------------------------------------------
(* The loop finds an outcome in the channel. *)
LEMMA ReceiveNowStep ==
  ASSUME QuicInv, ReceiveNow
  PROVE  QuicInv'
<1> DEFINE a == Head(outcomes)
<1>1. TypeOK /\ Stage /\ Tried /\ Unseen /\ Owned /\ RunningCounted /\ InOrder /\ FirstWins
  BY DEF QuicInv
<1>2. /\ outcomes # <<>> /\ outcomes \in Seq(Addresses) /\ running > 0
      /\ pc = "loop" /\ winner = Nobody /\ handed = Nobody
  BY <1>1 DEF ReceiveNow, TypeOK, Stage
<1>3. /\ Len(outcomes) \in Nat /\ Len(outcomes) >= 1 /\ DOMAIN outcomes = 1 .. Len(outcomes)
      /\ a = outcomes[1] /\ a \in Addresses
      /\ outcomes' \in Seq(Addresses)
      /\ DOMAIN outcomes' = 1 .. Len(outcomes) - 1
      /\ \A i \in 1 .. Len(outcomes) - 1 : outcomes'[i] = outcomes[i + 1]
      /\ ToSet(outcomes) = {a} \cup ToSet(outcomes')
  <2>1. outcomes' = Tail(outcomes)
    BY DEF ReceiveNow
  <2> QED BY <1>2, <2>1, TailFacts
<1>4. /\ running' = running - 1 /\ winner' = IF conn[a] = "open" THEN a ELSE winner
      /\ pc' = "loop"
      /\ UNCHANGED <<next, racer, conn, endpoint, failed, shut, handed, verdict, order, lost>>
  BY DEF ReceiveNow, Takes
<1> HIDE DEF a
<1>5. /\ racer[a] = "ended" /\ a \notin lost /\ a # Nobody
      /\ a \notin ToSet(outcomes')
  <2>1. \A i \in 1 .. Len(outcomes) - 1 : outcomes'[i] # a
    <3> TAKE i \in 1 .. Len(outcomes) - 1
    <3>1. i + 1 \in DOMAIN outcomes /\ 1 \in DOMAIN outcomes /\ i + 1 # 1
      BY <1>3
    <3> QED BY <1>1, <1>3, <3>1 DEF Unseen
  <2>2. 1 \in DOMAIN outcomes
    BY <1>3
  <2> QED BY <1>1, <1>3, <2>1, <2>2, AddressFacts DEF Unseen, ToSet
<1>6. ~shut /\ Racing /\ Racing'
  BY <1>1, <1>2, <1>4 DEF Stage, Racing
<1>7. TypeOK'
  <2>1. running' \in Nat /\ winner' \in 0 .. N
    BY <1>1, <1>2, <1>3, <1>4, AddressAssumption DEF TypeOK, Addresses
  <2> QED BY <1>1, <1>3, <1>4, <2>1 DEF TypeOK
<1>8. Stage'
  BY <1>1, <1>2, <1>4, <1>6 DEF Stage
<1>9. Tried'
  BY <1>1, <1>4, <1>6 DEF Tried
<1>10. Unseen'
  <2>1. \A i \in DOMAIN outcomes' : i + 1 \in DOMAIN outcomes /\ outcomes'[i] = outcomes[i + 1]
    BY <1>3
  <2>2. \A i, j \in DOMAIN outcomes' : i # j => outcomes'[i] # outcomes'[j]
    <3> SUFFICES ASSUME NEW i \in DOMAIN outcomes', NEW j \in DOMAIN outcomes', i # j
                 PROVE  outcomes[i + 1] # outcomes[j + 1]
      BY <2>1
    <3>1. i + 1 # j + 1
      BY <1>3
    <3> QED BY <1>1, <2>1, <3>1 DEF Unseen
  <2> QED BY <1>1, <1>4, <2>1, <2>2 DEF Unseen
<1>11. Owned'
  <2>1. winner' # Nobody => racer'[winner'] = "ended" /\ winner' \notin ToSet(outcomes')
    BY <1>2, <1>4, <1>5
  <2>2. winner' # Nobody => conn'[winner'] = "open" /\ endpoint'[winner'] = "open"
    BY <1>1, <1>2, <1>3, <1>4, <1>5, <1>6 DEF Tried
  <2>3. \A b \in Addresses : conn[b] = "open" =>
          racer[b] = "ended" /\ (b \in ToSet(outcomes') \/ b = handed \/ b \in lost \/ b = winner')
    BY <1>2, <1>3, <1>4, <1>6, AddressFacts, OwnedRacing
  <2> QED BY <1>4, <1>6, <2>1, <2>2, <2>3 DEF Owned
<1>12. RunningCounted'
  <2>1. a \in Awaited
    BY <1>3 DEF Awaited
  <2>2. Awaited' = Awaited \ {a}
    <3>1. racer[a] \notin {"launched", "await"}
      BY <1>5
    <3> QED BY <1>2, <1>3, <1>4, <1>5, <3>1 DEF Awaited
  <2>3. IsFiniteSet(Awaited) /\ Cardinality(Awaited \ {a}) = Cardinality(Awaited) - 1
    BY <1>1, <2>1, AwaitedFinite, FS_RemoveElement
  <2> QED BY <1>1, <1>4, <1>6, <2>2, <2>3 DEF RunningCounted
<1>13. InOrder'
  <2>0. \A i \in DOMAIN order : order[i] \in Addresses /\ order[i] # Nobody
    BY <1>1, AddressFacts DEF TypeOK
  <2>1. CASE conn[a] = "open"
    <3>1. winner' # Nobody
      BY <1>4, <1>5, <2>1
    <3> QED BY <1>1, <1>4, <1>6, <3>1 DEF InOrder
  <2>2. CASE conn[a] # "open"
    <3>1. \A i \in DOMAIN order : order[i] # a
      BY <1>1, <1>3, <1>6, <2>2 DEF InOrder, ToSet
    <3>2. winner' = Nobody /\ handed' = Nobody
      BY <1>2, <1>4, <2>2
    <3>3. \A i \in DOMAIN order : order[i] \in ToSet(outcomes') \cup lost \cup {handed}
      BY <1>1, <1>2, <1>3, <1>6, <3>1 DEF InOrder
    <3>4. ASSUME NEW i \in DOMAIN order, NEW j \in DOMAIN order, i < j,
                 NEW k \in DOMAIN outcomes', outcomes'[k] = order[j],
                 order[i] \notin lost
          PROVE  \E m \in 1 .. k - 1 : outcomes'[m] = order[i]
      <4>1. k + 1 \in DOMAIN outcomes /\ outcomes[k + 1] = order[j]
        BY <1>3, <3>4
      <4>2. order[i] \notin lost \cup {handed}
        BY <1>2, <2>0, <3>4
      <4>3. PICK m \in 1 .. (k + 1) - 1 : outcomes[m] = order[i]
        BY <1>1, <1>2, <1>6, <3>4, <4>1, <4>2 DEF InOrder
      <4>4. m # 1
        BY <1>3, <3>1, <4>3
      <4>5. m - 1 \in 1 .. k - 1 /\ outcomes'[m - 1] = outcomes[m]
        BY <1>3, <4>3, <4>4
      <4> QED BY <4>3, <4>5
    <3>5. \A i \in DOMAIN order : order[i] # handed'
      BY <2>0, <3>2
    <3> QED BY <1>1, <1>4, <1>6, <3>2, <3>3, <3>4, <3>5 DEF InOrder
  <2> QED BY <2>1, <2>2
<1>14. FirstWins'
  <2>1. CASE conn[a] = "open"
    <3>1. PICK i \in DOMAIN order : order[i] = a
      BY <1>1, <1>3, <1>6, <2>1 DEF InOrder, ToSet
    <3>2. \A j \in 1 .. i - 1 : order[j] \in lost
      <4> TAKE j \in 1 .. i - 1
      <4>1. j \in DOMAIN order /\ j < i /\ order[j] # Nobody
        BY <1>1, <3>1, AddressFacts DEF TypeOK
      <4>2. 1 \in DOMAIN outcomes /\ outcomes[1] = order[i]
        BY <1>3, <3>1
      <4>3. ~ \E m \in 1 .. 1 - 1 : outcomes[m] = order[j]
        OBVIOUS
      <4> QED BY <1>1, <1>2, <1>6, <4>1, <4>2, <4>3 DEF InOrder
    <3>3. First(a)
      BY <1>5, <3>1, <3>2 DEF First
    <3> QED BY <1>1, <1>4, <2>1, <3>3 DEF FirstWins, First
  <2>2. CASE conn[a] # "open"
    BY <1>1, <1>2, <1>4, <2>2 DEF FirstWins
  <2> QED BY <2>1, <2>2
<1> QED BY <1>7, <1>8, <1>9, <1>10, <1>11, <1>12, <1>13, <1>14 DEF QuicInv

(* The receive() that was handed an outcome runs. *)
LEMMA ReceiveRunsStep ==
  ASSUME QuicInv, ReceiveRuns
  PROVE  QuicInv'
<1>1. TypeOK /\ Stage /\ Tried /\ Unseen /\ Owned /\ RunningCounted /\ InOrder /\ FirstWins
  BY DEF QuicInv
<1>2. pc = "handed" /\ winner = Nobody /\ handed # Nobody /\ handed \in Addresses
  BY <1>1, AddressFacts DEF ReceiveRuns, TypeOK, Stage
<1>3. /\ running' = running - 1 /\ winner' = IF conn[handed] = "open" THEN handed ELSE winner
      /\ pc' = "loop" /\ handed' = Nobody
      /\ UNCHANGED <<next, racer, conn, endpoint, failed, outcomes, shut, verdict, order, lost>>
  BY DEF ReceiveRuns, Takes
<1>4. racer[handed] = "ended" /\ handed \notin lost /\ handed \notin ToSet(outcomes)
  BY <1>1, <1>2 DEF Unseen, ToSet
<1>5. ~shut /\ Racing /\ Racing'
  BY <1>1, <1>2, <1>3 DEF Stage, Racing
<1>6. IsFiniteSet(Awaited) /\ Cardinality(Awaited) \in Nat /\ running = Cardinality(Awaited)
  BY <1>1, <1>5, AwaitedFinite DEF RunningCounted
<1>7. handed \in Awaited /\ Awaited' = Awaited \ {handed}
  <2>1. racer[handed] \notin {"launched", "await"}
    BY <1>4
  <2> QED BY <1>2, <1>3, <1>4, <2>1 DEF Awaited
<1>8. /\ Cardinality(Awaited \ {handed}) = Cardinality(Awaited) - 1
      /\ Cardinality(Awaited \ {handed}) \in Nat
  BY <1>6, <1>7, FS_RemoveElement, FS_CardinalityType
<1>9. TypeOK'
  <2>1. running' \in Nat /\ winner' \in 0 .. N /\ handed' \in 0 .. N
    BY <1>1, <1>3, <1>6, <1>8, AddressAssumption DEF TypeOK, Nobody
  <2> QED BY <1>1, <1>3, <2>1 DEF TypeOK
<1>10. Stage' /\ Tried'
  BY <1>1, <1>2, <1>3, <1>5 DEF Stage, Tried
<1>11. Unseen'
  <2>1. \A i \in DOMAIN outcomes : outcomes[i] # Nobody
    BY <1>1, AddressFacts DEF TypeOK
  <2> QED BY <1>1, <1>3, <2>1 DEF Unseen
<1>12. Owned'
  <2>1. winner' # Nobody => /\ racer'[winner'] = "ended" /\ winner' \notin ToSet(outcomes')
                            /\ conn'[winner'] = "open" /\ endpoint'[winner'] = "open"
    BY <1>1, <1>2, <1>3, <1>4, <1>5 DEF Tried
  <2>2. \A b \in Addresses : conn[b] = "open" =>
          racer[b] = "ended" /\ (b \in ToSet(outcomes) \/ b \in lost \/ b = winner')
    BY <1>2, <1>3, <1>5, AddressFacts, OwnedRacing
  <2> QED BY <1>3, <1>5, <2>1, <2>2 DEF Owned
<1>13. RunningCounted'
  BY <1>3, <1>6, <1>7, <1>8 DEF RunningCounted
<1>14. InOrder'
  <2>0. \A i \in DOMAIN order : order[i] \in Addresses /\ order[i] # Nobody
    BY <1>1, AddressFacts DEF TypeOK
  <2>1. CASE conn[handed] = "open"
    <3>1. winner' # Nobody
      BY <1>2, <1>3, <2>1
    <3> QED BY <1>1, <1>3, <1>5, <3>1 DEF InOrder
  <2>2. CASE conn[handed] # "open"
    <3>1. \A i \in DOMAIN order : order[i] # handed
      BY <1>1, <1>2, <1>5, <2>2 DEF InOrder, ToSet
    <3> QED BY <1>1, <1>2, <1>3, <1>5, <2>0, <2>2, <3>1 DEF InOrder
  <2> QED BY <2>1, <2>2
<1>15. FirstWins'
  <2>1. CASE conn[handed] = "open"
    <3>1. PICK i \in DOMAIN order : order[i] = handed
      BY <1>1, <1>2, <1>5, <2>1 DEF InOrder, ToSet
    <3>2. \A j \in 1 .. i - 1 : order[j] \in lost
      <4> TAKE j \in 1 .. i - 1
      <4>1. j \in DOMAIN order /\ j < i
        BY <1>1, <3>1 DEF TypeOK
      <4> QED BY <1>1, <1>2, <1>5, <3>1, <4>1 DEF InOrder
    <3>3. First(handed)
      BY <1>4, <3>1, <3>2 DEF First
    <3> QED BY <1>1, <1>3, <2>1, <3>3 DEF FirstWins, First
  <2>2. CASE conn[handed] # "open"
    BY <1>1, <1>2, <1>3, <2>2 DEF FirstWins
  <2> QED BY <2>1, <2>2
<1> QED BY <1>9, <1>10, <1>11, <1>12, <1>13, <1>14, <1>15 DEF QuicInv

(* receive() parks, or ATTEMPT_DELAY cancels it and what it was handed.    *)
LEMMA SuspendedStep ==
  ASSUME QuicInv, ReceiveParks \/ AttemptDelay
  PROVE  QuicInv'
<1>1. TypeOK /\ Stage /\ Tried /\ Unseen /\ Owned /\ RunningCounted /\ InOrder /\ FirstWins
  BY DEF QuicInv
<1>2. CASE ReceiveParks
  <2>1. /\ pc = "loop" /\ winner = Nobody /\ outcomes = <<>> /\ pc' = "parked"
        /\ UNCHANGED <<next, running, racer, conn, endpoint, failed, outcomes, shut, handed,
                       winner, verdict, order, lost>>
    BY <1>2 DEF ReceiveParks
  <2>2. Racing /\ Racing' /\ ~shut /\ handed = Nobody
    BY <1>1, <2>1 DEF Stage, Racing
  <2>3. TypeOK' /\ Stage'
    BY <1>1, <2>1, <2>2 DEF TypeOK, Stage
  <2>4. Tried' /\ Unseen' /\ Owned'
    BY <1>1, <2>1, <2>2 DEF Tried, Unseen, Owned
  <2>5. RunningCounted' /\ InOrder' /\ FirstWins'
    BY <1>1, <2>1, <2>2 DEF RunningCounted, Awaited, InOrder, FirstWins, First
  <2> QED BY <2>3, <2>4, <2>5 DEF QuicInv
<1>3. CASE AttemptDelay
  <2>1. /\ pc \in {"parked", "handed"} /\ pc' = "delay" /\ winner = Nobody
        /\ lost' = lost \cup ({handed} \ {Nobody})
        /\ handed' = Nobody
        /\ UNCHANGED <<next, running, racer, conn, endpoint, failed, outcomes, shut,
                       winner, verdict, order>>
    <3>1. lost' = lost \cup ({handed} \ {Nobody})
      BY <1>1, <1>3 DEF AttemptDelay, Stage
    <3> QED BY <1>1, <1>3, <3>1 DEF AttemptDelay, Stage
  <2>2. Racing /\ Racing' /\ ~shut
    BY <1>1, <2>1 DEF Stage, Racing
  <2>3. TypeOK'
    <3>1. lost' \in SUBSET Addresses /\ handed' \in 0 .. N
      BY <1>1, <2>1, AddressFacts, AddressAssumption DEF TypeOK, Nobody
    <3> QED BY <1>1, <2>1, <3>1 DEF TypeOK
  <2>4. Stage' /\ Tried'
    BY <1>1, <2>1, <2>2 DEF Stage, Tried
  <2>5. Unseen'
    <3>1. \A i \in DOMAIN outcomes : outcomes[i] # Nobody
      BY <1>1, AddressFacts DEF TypeOK
    <3> QED BY <1>1, <2>1, <3>1 DEF Unseen
  <2>6. Owned'
    BY <1>1, <2>1, <2>2, AddressFacts DEF Owned
  <2>7. RunningCounted'
    <3>1. Awaited' = Awaited
      BY <2>1 DEF Awaited
    <3> QED BY <1>1, <2>1, <2>2, <3>1 DEF RunningCounted
  <2>8. InOrder'
    <3>0. \A i \in DOMAIN order : order[i] # Nobody
      BY <1>1, AddressFacts DEF TypeOK
    <3> QED BY <1>1, <2>1, <2>2, <3>0 DEF InOrder
  <2>9. FirstWins'
    BY <1>1, <2>1 DEF FirstWins
  <2> QED BY <2>3, <2>4, <2>5, <2>6, <2>7, <2>8, <2>9 DEF QuicInv
<1> QED BY <1>2, <1>3

(* A racer's coroutine begins. *)
LEMMA RacerBeginsStep ==
  ASSUME QuicInv, NEW a \in Addresses, RacerBegins(a)
  PROVE  QuicInv'
<1>1. TypeOK /\ Stage /\ Tried /\ Unseen /\ Owned /\ RunningCounted /\ InOrder /\ FirstWins
  BY DEF QuicInv
<1>2. /\ racer[a] = "launched" /\ racer' = [racer EXCEPT ![a] = "await"]
      /\ UNCHANGED <<next, running, conn, endpoint, failed, outcomes, shut, pc, handed, winner,
                     verdict, order, lost>>
  BY DEF RacerBegins
<1>3. /\ racer' \in [Addresses -> RacerStates]
      /\ \A b \in Addresses : racer'[b] = IF b = a THEN "await" ELSE racer[b]
  BY <1>1, <1>2 DEF TypeOK, RacerStates
<1>4. TypeOK' /\ Stage'
  BY <1>1, <1>2, <1>3 DEF TypeOK, Stage, Racing
<1>5. Tried'
  BY <1>1, <1>2, <1>3 DEF Tried, Racing
<1>6. \A b \in Addresses : racer[b] = "ended" => racer'[b] = "ended"
  BY <1>2, <1>3
<1>7. Unseen'
  <2>1. /\ \A i \in DOMAIN outcomes : outcomes[i] \in Addresses
        /\ lost \in SUBSET Addresses /\ (handed # Nobody => handed \in Addresses)
    BY <1>1, AddressFacts DEF TypeOK
  <2> QED BY <1>1, <1>2, <1>6, <2>1 DEF Unseen
<1>8. Owned'
  <2>1. winner # Nobody => winner \in Addresses
    BY <1>1, AddressFacts DEF TypeOK
  <2> QED BY <1>1, <1>2, <1>6, <2>1 DEF Owned, Racing
<1>9. RunningCounted'
  <2>1. \A b \in Addresses : racer'[b] \in {"launched", "await"} <=> racer[b] \in {"launched", "await"}
    BY <1>2, <1>3
  <2> QED BY <1>1, <1>2, <2>1 DEF RunningCounted, Awaited, Racing
<1>10. InOrder' /\ FirstWins'
  BY <1>1, <1>2 DEF InOrder, FirstWins, First, Racing
<1> QED BY <1>4, <1>5, <1>7, <1>8, <1>9, <1>10 DEF QuicInv

-----------------------------------------------------------------------------
(* A racer posts its outcome: what trySend does to the channel and to the  *)
(* receive() that may be parked in it.                                     *)
LEMMA PostFacts ==
  ASSUME QuicInv, NEW a \in Addresses, NEW ok \in BOOLEAN, racer[a] = "await", Post(a, ok)
  PROVE  /\ Racing /\ Racing' /\ ~shut
         /\ racer' = [racer EXCEPT ![a] = "ended"]
         /\ conn' = [conn EXCEPT ![a] = IF ok THEN "open" ELSE "closed"]
         /\ a # handed /\ a # winner /\ a \notin lost /\ a \notin ToSet(outcomes)
         /\ a \notin ToSet(order) /\ conn[a] # "open" /\ a # Nobody
         /\ \/ pc = "parked" /\ pc' = "handed" /\ handed' = a /\ outcomes' = outcomes
               /\ outcomes = <<>> /\ handed = Nobody /\ winner = Nobody
            \/ /\ pc # "parked" /\ pc' = pc /\ handed' = handed
               /\ outcomes' = Append(outcomes, a)
<1>1. TypeOK /\ Stage /\ Tried /\ Unseen /\ Owned /\ InOrder
  BY DEF QuicInv
<1>2. Racing /\ ~shut
  BY <1>1 DEF Tried, Stage
<1>3. /\ a # handed /\ a # winner /\ a \notin lost /\ a \notin ToSet(outcomes)
      /\ conn[a] # "open" /\ a # Nobody
  BY <1>1, AddressFacts DEF Unseen, Owned, ToSet
<1>4. a \notin ToSet(order)
  BY <1>1, <1>2, <1>3 DEF InOrder
<1>5. racer' = [racer EXCEPT ![a] = "ended"] /\ conn' = [conn EXCEPT ![a] = IF ok THEN "open" ELSE "closed"]
  BY <1>1, <1>2 DEF Post, TypeOK
<1>6. CASE pc = "parked"
  <2>1. outcomes = <<>> /\ handed = Nobody /\ winner = Nobody
    BY <1>1, <1>6 DEF Stage
  <2>2. pc' = "handed" /\ handed' = a /\ outcomes' = outcomes
    BY <1>2, <1>6 DEF Post
  <2>3. Racing'
    BY <2>2 DEF Racing
  <2> QED BY <1>2, <1>3, <1>4, <1>5, <1>6, <2>1, <2>2, <2>3
<1>7. CASE pc # "parked"
  <2>1. pc' = pc /\ handed' = handed /\ outcomes' = Append(outcomes, a)
    BY <1>2, <1>7 DEF Post
  <2>2. Racing'
    BY <1>2, <2>1 DEF Racing
  <2> QED BY <1>2, <1>3, <1>4, <1>5, <1>7, <2>1, <2>2
<1> QED BY <1>6, <1>7

(* Posting disturbs neither the counting nor what is unseen. *)
LEMMA PostKeeps ==
  ASSUME QuicInv, NEW a \in Addresses, NEW ok \in BOOLEAN, racer[a] = "await", Post(a, ok),
         UNCHANGED <<next, running, endpoint, shut, winner, lost>>
  PROVE  /\ racer' \in [Addresses -> RacerStates] /\ conn' \in [Addresses -> ConnStates]
         /\ outcomes' \in Seq(Addresses) /\ handed' \in 0 .. N
         /\ pc' \in {pc, "handed"}
         /\ ToSet(outcomes') \cup ({handed'} \ {Nobody})
              = ToSet(outcomes) \cup ({handed} \ {Nobody}) \cup {a}
         /\ \A b \in Addresses : /\ racer'[b] = IF b = a THEN "ended" ELSE racer[b]
                                 /\ conn'[b] = IF b # a THEN conn[b] ELSE IF ok THEN "open" ELSE "closed"
         /\ Stage' /\ Unseen' /\ Owned' /\ RunningCounted'
<1>1. TypeOK /\ Stage /\ Tried /\ Unseen /\ Owned /\ RunningCounted
  BY DEF QuicInv
<1>2. /\ Racing /\ Racing' /\ ~shut
      /\ racer' = [racer EXCEPT ![a] = "ended"]
      /\ conn' = [conn EXCEPT ![a] = IF ok THEN "open" ELSE "closed"]
      /\ a # handed /\ a # winner /\ a \notin lost /\ a \notin ToSet(outcomes)
      /\ conn[a] # "open" /\ a # Nobody
  BY PostFacts
<1>3. \/ pc = "parked" /\ pc' = "handed" /\ handed' = a /\ outcomes' = outcomes
         /\ outcomes = <<>> /\ handed = Nobody /\ winner = Nobody
      \/ /\ pc # "parked" /\ pc' = pc /\ handed' = handed
         /\ outcomes' = Append(outcomes, a)
  BY PostFacts
<1>4. racer' \in [Addresses -> RacerStates] /\ conn' \in [Addresses -> ConnStates]
  BY <1>1, <1>2 DEF TypeOK, RacerStates, HandleStates, ConnStates
<1>5. outcomes \in Seq(Addresses) /\ outcomes' \in Seq(Addresses) /\ handed' \in 0 .. N
  <2>1. outcomes \in Seq(Addresses) /\ handed \in 0 .. N /\ a \in 0 .. N
    BY <1>1, AddressAssumption DEF TypeOK, Addresses
  <2>2. Append(outcomes, a) \in Seq(Addresses)
    BY <2>1, AppendFacts
  <2> QED BY <1>3, <2>1, <2>2
<1>6. ToSet(outcomes') \cup ({handed'} \ {Nobody})
        = ToSet(outcomes) \cup ({handed} \ {Nobody}) \cup {a}
  <2>1. CASE pc = "parked"
    BY <1>2, <1>3, <2>1
  <2>2. CASE pc # "parked"
    <3>1. ToSet(Append(outcomes, a)) = ToSet(outcomes) \cup {a}
      BY <1>5, AppendFacts
    <3>2. outcomes' = Append(outcomes, a) /\ handed' = handed
      BY <1>3, <2>2
    <3> QED BY <3>1, <3>2
  <2> QED BY <2>1, <2>2
<1>7. \A b \in Addresses : /\ racer'[b] = IF b = a THEN "ended" ELSE racer[b]
                           /\ conn'[b] = IF b # a THEN conn[b] ELSE IF ok THEN "open" ELSE "closed"
  BY <1>1, <1>2 DEF TypeOK
<1>8. Stage'
  BY <1>1, <1>2, <1>3 DEF Stage
<1>9. Unseen'
  <2>0. \A b \in Addresses : racer[b] = "ended" => racer'[b] = "ended"
    BY <1>7
  <2>1. lost \in SUBSET Addresses /\ \A i \in DOMAIN outcomes : outcomes[i] \in Addresses
    BY <1>1 DEF TypeOK
  <2>2. CASE pc = "parked"
    <3>1. DOMAIN outcomes' = {} /\ handed' = a
      BY <1>3, <2>2, EmptyFacts
    <3> QED BY <1>1, <1>2, <1>7, <2>0, <2>1, <3>1 DEF Unseen
  <2>3. CASE pc # "parked"
    <3>1. handed' = handed /\ outcomes' = Append(outcomes, a)
      BY <1>3, <2>3
    <3>2. /\ Len(outcomes) \in Nat /\ DOMAIN outcomes = 1 .. Len(outcomes)
          /\ DOMAIN outcomes' = 1 .. Len(outcomes) + 1
          /\ \A i \in 1 .. Len(outcomes) : outcomes'[i] = outcomes[i]
          /\ outcomes'[Len(outcomes) + 1] = a
      BY <1>5, <3>1, AppendFacts
    <3>3. \A i \in 1 .. Len(outcomes) : outcomes[i] # a
      BY <1>2, <3>2 DEF ToSet
    <3>4. \A i, j \in DOMAIN outcomes' : i # j => outcomes'[i] # outcomes'[j]
      BY <1>1, <3>2, <3>3 DEF Unseen
    <3>5. \A i \in DOMAIN outcomes' :
            racer'[outcomes'[i]] = "ended" /\ outcomes'[i] # handed' /\ outcomes'[i] \notin lost'
      <4> TAKE i \in DOMAIN outcomes'
      <4>1. CASE i \in 1 .. Len(outcomes)
        BY <1>1, <2>0, <2>1, <3>1, <3>2, <4>1 DEF Unseen
      <4>2. CASE i = Len(outcomes) + 1
        BY <1>2, <1>7, <3>1, <3>2, <4>2
      <4> QED BY <3>2, <4>1, <4>2
    <3>6. handed # Nobody => handed \in Addresses
      BY <1>1, AddressFacts DEF TypeOK
    <3> QED BY <1>1, <2>0, <2>1, <3>1, <3>4, <3>5, <3>6 DEF Unseen
  <2> QED BY <2>2, <2>3
<1>10. Owned'
  <2>1. \A b \in Addresses : conn'[b] = "open" =>
          racer'[b] = "ended" /\ (b \in ToSet(outcomes') \/ b = handed' \/ b \in lost \/ b = winner)
    <3> SUFFICES ASSUME NEW b \in Addresses, conn'[b] = "open"
                 PROVE  racer'[b] = "ended" /\ (b \in ToSet(outcomes') \/ b = handed' \/ b \in lost \/ b = winner)
      OBVIOUS
    <3>1. CASE b = a
      BY <1>2, <1>6, <1>7, <3>1
    <3>2. CASE b # a
      <4>1. conn[b] = "open" /\ racer'[b] = racer[b] /\ b # Nobody
        BY <1>7, <3>2, AddressFacts
      <4>2. racer[b] = "ended" /\ (b \in ToSet(outcomes) \/ b = handed \/ b \in lost \/ b = winner)
        BY <1>2, <4>1, OwnedRacing
      <4> QED BY <1>6, <4>1, <4>2
    <3> QED BY <3>1, <3>2
  <2>2. winner # Nobody => /\ racer'[winner] = "ended" /\ winner \notin ToSet(outcomes')
                           /\ pc = "loop" /\ conn'[winner] = "open" /\ endpoint'[winner] = "open"
    <3> SUFFICES ASSUME winner # Nobody
                 PROVE  /\ racer'[winner] = "ended" /\ winner \notin ToSet(outcomes')
                        /\ pc = "loop" /\ conn'[winner] = "open" /\ endpoint'[winner] = "open"
      OBVIOUS
    <3>1. winner \in Addresses /\ pc = "loop" /\ handed = Nobody
      BY <1>1, <1>2, AddressFacts DEF TypeOK, Stage, Racing
    <3>2. /\ racer[winner] = "ended" /\ winner \notin ToSet(outcomes)
          /\ conn[winner] = "open" /\ endpoint[winner] = "open"
      BY <1>1, <3>1 DEF Owned
    <3> QED BY <1>2, <1>6, <1>7, <3>1, <3>2
  <2>3. pc' \in {pc, "handed"} /\ (winner # Nobody => pc' = "loop")
    BY <1>3, <2>2
  <2> QED BY <1>2, <2>1, <2>2, <2>3 DEF Owned
<1>11. RunningCounted'
  <2>1. Awaited' = Awaited
    <3>1. {b \in Addresses : racer'[b] \in {"launched", "await"}}
            = {b \in Addresses : racer[b] \in {"launched", "await"}} \ {a}
      BY <1>7
    <3>2. a \in Awaited
      BY DEF Awaited
    <3> QED BY <1>6, <3>1, <3>2 DEF Awaited
  <2> QED BY <1>1, <1>2, <2>1 DEF RunningCounted
<1>12. pc' \in {pc, "handed"}
  BY <1>3
<1> QED BY <1>4, <1>5, <1>6, <1>7, <1>8, <1>9, <1>10, <1>11, <1>12

(* Posting keeps the order of the handshakes that completed before. *)
LEMMA PostOrder ==
  ASSUME QuicInv, NEW a \in Addresses, NEW ok \in BOOLEAN, racer[a] = "await", Post(a, ok),
         winner = Nobody, lost' = lost
  PROVE  /\ \A i \in DOMAIN order : order[i] \in ToSet(outcomes') \cup lost' \cup {handed'}
         /\ \A i, j \in DOMAIN order : i < j =>
              /\ order[j] = handed' => order[i] \in lost'
              /\ \A k \in DOMAIN outcomes' : outcomes'[k] = order[j] =>
                   \/ order[i] \in lost' \cup {handed'}
                   \/ \E m \in 1 .. k - 1 : outcomes'[m] = order[i]
         /\ \A i \in DOMAIN order :
              /\ a = handed' => order[i] \in lost'
              /\ \A k \in DOMAIN outcomes' : outcomes'[k] = a =>
                   \/ order[i] \in lost' \cup {handed'}
                   \/ \E m \in 1 .. k - 1 : outcomes'[m] = order[i]
<1>1. TypeOK /\ InOrder
  BY DEF QuicInv
<1>2. /\ Racing /\ a # handed /\ a \notin lost /\ a \notin ToSet(outcomes)
      /\ a \notin ToSet(order)
  BY PostFacts
<1>3. \/ pc = "parked" /\ pc' = "handed" /\ handed' = a /\ outcomes' = outcomes
         /\ outcomes = <<>> /\ handed = Nobody /\ winner = Nobody
      \/ /\ pc # "parked" /\ pc' = pc /\ handed' = handed
         /\ outcomes' = Append(outcomes, a)
  BY PostFacts
<1>4. \A i \in DOMAIN order : order[i] # a /\ order[i] # Nobody
  BY <1>1, <1>2, AddressFacts DEF ToSet, TypeOK
<1>5. /\ \A i \in DOMAIN order : order[i] \in ToSet(outcomes) \cup lost \cup {handed}
      /\ \A i, j \in DOMAIN order : i < j =>
            /\ order[j] = handed => order[i] \in lost
            /\ \A k \in DOMAIN outcomes : outcomes[k] = order[j] =>
                 \/ order[i] \in lost \cup {handed}
                 \/ \E m \in 1 .. k - 1 : outcomes[m] = order[i]
  BY <1>1, <1>2 DEF InOrder
<1>6. CASE pc = "parked"
  <2>1. /\ handed' = a /\ handed = Nobody /\ DOMAIN outcomes' = {} /\ ToSet(outcomes) = {}
    BY <1>3, <1>6, EmptyFacts
  <2>2. \A i \in DOMAIN order : order[i] \in lost
    BY <1>4, <1>5, <2>1
  <2> QED BY <1>4, <2>1, <2>2
<1>7. CASE pc # "parked"
  <2>1. handed' = handed /\ outcomes' = Append(outcomes, a) /\ outcomes \in Seq(Addresses)
    BY <1>1, <1>3, <1>7 DEF TypeOK
  <2>2. /\ Len(outcomes) \in Nat /\ DOMAIN outcomes = 1 .. Len(outcomes)
        /\ DOMAIN outcomes' = 1 .. Len(outcomes) + 1
        /\ \A i \in 1 .. Len(outcomes) : outcomes'[i] = outcomes[i]
        /\ outcomes'[Len(outcomes) + 1] = a
        /\ ToSet(outcomes') = ToSet(outcomes) \cup {a}
    BY <2>1, AppendFacts
  <2>3. ASSUME NEW i \in DOMAIN order, NEW j \in DOMAIN order, i < j,
               NEW k \in DOMAIN outcomes', outcomes'[k] = order[j],
               order[i] \notin lost' \cup {handed'}
        PROVE  \E m \in 1 .. k - 1 : outcomes'[m] = order[i]
    <3>1. k \in 1 .. Len(outcomes) /\ outcomes[k] = order[j]
      BY <1>4, <2>2, <2>3
    <3>2. PICK m \in 1 .. k - 1 : outcomes[m] = order[i]
      BY <1>5, <2>1, <2>2, <2>3, <3>1
    <3>3. outcomes'[m] = outcomes[m]
      BY <2>2, <3>1, <3>2
    <3> QED BY <3>2, <3>3
  <2>4. ASSUME NEW i \in DOMAIN order,
               NEW k \in DOMAIN outcomes', outcomes'[k] = a,
               order[i] \notin lost' \cup {handed'}
        PROVE  \E m \in 1 .. k - 1 : outcomes'[m] = order[i]
    <3>1. k = Len(outcomes) + 1
      BY <1>2, <2>2, <2>4 DEF ToSet
    <3>2. order[i] \in ToSet(outcomes)
      BY <1>5, <2>1, <2>4
    <3>3. PICK m \in 1 .. Len(outcomes) : outcomes[m] = order[i]
      BY <2>2, <3>2 DEF ToSet
    <3> QED BY <2>2, <3>1, <3>3
  <2> QED BY <1>2, <1>5, <2>1, <2>2, <2>3, <2>4
<1> QED BY <1>6, <1>7

(* The handshake fails or times out. *)
LEMMA HandshakeFailsStep ==
  ASSUME QuicInv, NEW a \in Addresses, HandshakeFails(a)
  PROVE  QuicInv'
<1>1. TypeOK /\ Stage /\ Tried /\ InOrder /\ FirstWins
  BY DEF QuicInv
<1>2. /\ racer[a] = "await" /\ Post(a, FALSE) /\ failed' = failed \cup {a}
      /\ UNCHANGED <<next, running, endpoint, shut, winner, verdict, order, lost>>
  BY DEF HandshakeFails
<1>3. Racing /\ Racing' /\ ~shut
  BY <1>2, PostFacts
<1>4. /\ racer' \in [Addresses -> RacerStates] /\ conn' \in [Addresses -> ConnStates]
      /\ outcomes' \in Seq(Addresses) /\ handed' \in 0 .. N /\ pc' \in {pc, "handed"}
      /\ \A b \in Addresses : racer'[b] = IF b = a THEN "ended" ELSE racer[b]
      /\ \A b \in Addresses : conn'[b] = IF b # a THEN conn[b] ELSE "closed"
      /\ Stage' /\ Unseen' /\ Owned' /\ RunningCounted'
  BY <1>2, PostKeeps
<1>5. TypeOK'
  <2>1. failed' \in SUBSET Addresses /\ shut' \in BOOLEAN /\ pc' \in {pc, "handed"}
    BY <1>1, <1>2, <1>4 DEF TypeOK
  <2> QED BY <1>1, <1>2, <1>4, <2>1 DEF TypeOK
<1>6. Tried'
  <2> SUFFICES ASSUME NEW b \in Addresses
               PROVE  /\ b > next => racer'[b] = "none" /\ conn'[b] = "none" /\ endpoint[b] = "none"
                      /\ racer'[b] # "none" => endpoint[b] = "open" /\ racer'[b] \notin {"cancelled", "unbegun"}
                      /\ b <= next => b \in failed' \/ racer'[b] \in {"launched", "await"} \/ conn'[b] = "open"
                      /\ conn'[b] = "connecting" => racer'[b] \notin {"none", "ended"}
    BY <1>2, <1>3 DEF Tried
  <2>1. CASE b = a
    BY <1>1, <1>2, <1>3, <1>4, <2>1 DEF Tried
  <2>2. CASE b # a
    BY <1>1, <1>2, <1>3, <1>4, <2>2 DEF Tried
  <2> QED BY <2>1, <2>2
<1>7. InOrder'
  <2>1. \A b \in Addresses : conn'[b] = "open" <=> b \in ToSet(order')
    <3>1. conn[a] # "open"
      BY <1>2, PostFacts
    <3> QED BY <1>1, <1>2, <1>3, <1>4, <3>1 DEF InOrder
  <2>2. CASE winner = Nobody
    <3>1. /\ \A i \in DOMAIN order : order[i] \in ToSet(outcomes') \cup lost' \cup {handed'}
          /\ \A i, j \in DOMAIN order : i < j =>
               /\ order[j] = handed' => order[i] \in lost'
               /\ \A k \in DOMAIN outcomes' : outcomes'[k] = order[j] =>
                    \/ order[i] \in lost' \cup {handed'}
                    \/ \E m \in 1 .. k - 1 : outcomes'[m] = order[i]
      BY <1>2, <2>2, PostOrder
    <3> QED BY <1>2, <2>1, <3>1 DEF InOrder
  <2>3. CASE winner # Nobody
    BY <1>2, <2>1, <2>3 DEF InOrder
  <2> QED BY <2>2, <2>3
<1>8. FirstWins'
  BY <1>1, <1>2 DEF FirstWins, First, TypeOK
<1> QED BY <1>4, <1>5, <1>6, <1>7, <1>8 DEF QuicInv

(* The handshake completes. *)
LEMMA HandshakeDoneStep ==
  ASSUME QuicInv, NEW a \in Addresses, HandshakeDone(a)
  PROVE  QuicInv'
<1>1. TypeOK /\ Stage /\ Tried /\ InOrder /\ FirstWins
  BY DEF QuicInv
<1>2. /\ racer[a] = "await" /\ Post(a, TRUE) /\ order' = Append(order, a)
      /\ UNCHANGED <<next, running, endpoint, failed, shut, winner, verdict, lost>>
  BY DEF HandshakeDone
<1>3. Racing /\ Racing' /\ ~shut
  BY <1>2, PostFacts
<1>4. /\ racer' \in [Addresses -> RacerStates] /\ conn' \in [Addresses -> ConnStates]
      /\ outcomes' \in Seq(Addresses) /\ handed' \in 0 .. N /\ pc' \in {pc, "handed"}
      /\ ToSet(outcomes') \cup ({handed'} \ {Nobody})
              = ToSet(outcomes) \cup ({handed} \ {Nobody}) \cup {a}
      /\ \A b \in Addresses : /\ racer'[b] = IF b = a THEN "ended" ELSE racer[b]
                              /\ conn'[b] = IF b = a THEN "open" ELSE conn[b]
      /\ Stage' /\ Unseen' /\ Owned' /\ RunningCounted'
  BY <1>2, PostKeeps
<1>5. /\ order \in Seq(Addresses) /\ order' \in Seq(Addresses)
      /\ Len(order) \in Nat /\ DOMAIN order = 1 .. Len(order)
      /\ DOMAIN order' = 1 .. Len(order) + 1
      /\ \A i \in 1 .. Len(order) : order'[i] = order[i]
      /\ order'[Len(order) + 1] = a
      /\ ToSet(order') = ToSet(order) \cup {a}
  <2>1. order \in Seq(Addresses)
    BY <1>1 DEF TypeOK
  <2> QED BY <1>2, <2>1, AppendFacts
<1>6. TypeOK'
  BY <1>1, <1>2, <1>4, <1>5 DEF TypeOK
<1>7. Tried'
  <2> SUFFICES ASSUME NEW b \in Addresses
               PROVE  /\ b > next => racer'[b] = "none" /\ conn'[b] = "none" /\ endpoint[b] = "none"
                      /\ racer'[b] # "none" => endpoint[b] = "open" /\ racer'[b] \notin {"cancelled", "unbegun"}
                      /\ b <= next => b \in failed \/ racer'[b] \in {"launched", "await"} \/ conn'[b] = "open"
                      /\ conn'[b] = "connecting" => racer'[b] \notin {"none", "ended"}
    BY <1>2, <1>3 DEF Tried
  <2>1. CASE b = a
    <3>1. ~(b > next) /\ endpoint[b] = "open"
      BY <1>1, <1>2, <1>3, <2>1 DEF Tried
    <3> QED BY <1>4, <2>1, <3>1
  <2>2. CASE b # a
    BY <1>1, <1>2, <1>3, <1>4, <2>2 DEF Tried
  <2> QED BY <2>1, <2>2
<1>8. InOrder'
  <2>1. \A b \in Addresses : conn'[b] = "open" <=> b \in ToSet(order')
    BY <1>1, <1>3, <1>4, <1>5 DEF InOrder
  <2>2. CASE winner = Nobody
    <3>1. /\ \A i \in DOMAIN order : order[i] \in ToSet(outcomes') \cup lost' \cup {handed'}
          /\ \A i, j \in DOMAIN order : i < j =>
               /\ order[j] = handed' => order[i] \in lost'
               /\ \A k \in DOMAIN outcomes' : outcomes'[k] = order[j] =>
                    \/ order[i] \in lost' \cup {handed'}
                    \/ \E m \in 1 .. k - 1 : outcomes'[m] = order[i]
          /\ \A i \in DOMAIN order :
               /\ a = handed' => order[i] \in lost'
               /\ \A k \in DOMAIN outcomes' : outcomes'[k] = a =>
                    \/ order[i] \in lost' \cup {handed'}
                    \/ \E m \in 1 .. k - 1 : outcomes'[m] = order[i]
      BY <1>2, <2>2, PostOrder
    <3>2. \A i \in DOMAIN order' : order'[i] \in ToSet(outcomes') \cup lost' \cup {handed'}
      <4> TAKE i \in DOMAIN order'
      <4>1. CASE i \in 1 .. Len(order)
        BY <1>5, <3>1, <4>1
      <4>2. CASE i = Len(order) + 1
        BY <1>4, <1>5, <4>2
      <4> QED BY <1>5, <4>1, <4>2
    <3>3. ASSUME NEW i \in DOMAIN order', NEW j \in DOMAIN order', i < j
          PROVE  /\ order'[j] = handed' => order'[i] \in lost'
                 /\ \A k \in DOMAIN outcomes' : outcomes'[k] = order'[j] =>
                      \/ order'[i] \in lost' \cup {handed'}
                      \/ \E m \in 1 .. k - 1 : outcomes'[m] = order'[i]
      <4>1. i \in DOMAIN order /\ order'[i] = order[i]
        BY <1>5, <3>3
      <4>2. CASE j \in 1 .. Len(order)
        <5>1. j \in DOMAIN order /\ order'[j] = order[j]
          BY <1>5, <4>2
        <5> QED BY <3>1, <3>3, <4>1, <5>1
      <4>3. CASE j = Len(order) + 1
        <5>1. order'[j] = a
          BY <1>5, <4>3
        <5> QED BY <3>1, <4>1, <5>1
      <4> QED BY <1>5, <4>2, <4>3
    <3> QED BY <2>1, <3>2, <3>3 DEF InOrder
  <2>3. CASE winner # Nobody
    BY <1>2, <2>1, <2>3 DEF InOrder
  <2> QED BY <2>2, <2>3
<1>9. FirstWins'
  <2>1. ASSUME winner # Nobody
        PROVE  First(winner)'
    <3>1. PICK i \in DOMAIN order : /\ order[i] = winner /\ winner \notin lost
                                    /\ \A j \in 1 .. i - 1 : order[j] \in lost
      BY <1>1, <2>1 DEF FirstWins, First
    <3>2. i \in DOMAIN order' /\ order'[i] = order[i]
          /\ \A j \in 1 .. i - 1 : order'[j] = order[j]
      BY <1>5, <3>1
    <3> QED BY <1>2, <3>1, <3>2 DEF First
  <2> QED BY <1>1, <1>2, <2>1 DEF FirstWins
<1> QED BY <1>4, <1>6, <1>7, <1>8, <1>9 DEF QuicInv

-----------------------------------------------------------------------------
(* The finally block of the race. *)
LEMMA CleanUpStep ==
  ASSUME QuicInv, RaceOver \/ CallerCancelled \/ StartCancelled
  PROVE  QuicInv'
<1>1. TypeOK /\ Stage /\ Tried /\ Unseen /\ Owned /\ RunningCounted /\ InOrder /\ FirstWins
  BY DEF QuicInv
<1>2. /\ CleanUp /\ pc \in {"loop", "parked", "handed", "delay"}
      /\ pc' \in {"openBi", "failed", "cancelled"}
      /\ handed' = Nobody
      /\ lost' = lost \cup ({handed} \ {Nobody})
      /\ next' \in 0 .. N /\ \A a \in Addresses : a > next' => a > next
      /\ UNCHANGED <<running, failed, winner, order>>
  <2>1. CASE RaceOver
    <3>1. handed = Nobody
      BY <1>1, <2>1 DEF RaceOver, Stage
    <3> QED BY <1>1, <2>1, <3>1 DEF RaceOver, TypeOK
  <2>2. CASE CallerCancelled
    BY <1>1, <2>2 DEF CallerCancelled, Stage, TypeOK
  <2>3. CASE StartCancelled
    <3>1. handed = Nobody
      BY <1>1, <2>3 DEF StartCancelled, MayStart, Stage
    <3>2. next' \in 0 .. N /\ \A a \in Addresses : a > next' => a > next
      BY <1>1, <2>3, AddressFacts DEF StartCancelled, MayStart, TypeOK
    <3> QED BY <2>3, <3>1, <3>2 DEF StartCancelled, MayStart
  <2> QED BY <2>1, <2>2, <2>3
<1>3. IF winner # Nobody THEN pc' = "openBi" /\ pc = "loop"
                         ELSE pc' \in {"failed", "cancelled"}
  BY <1>1 DEF RaceOver, CallerCancelled, StartCancelled, MayStart, Stage
<1>4. Racing /\ ~Racing' /\ shut' = TRUE /\ outcomes' = <<>>
  BY <1>2 DEF Racing, CleanUp
<1>5. /\ \A a \in Addresses :
           /\ racer'[a] = CASE racer[a] = "await" -> "cancelled"
                            [] racer[a] = "launched" -> "unbegun"
                            [] OTHER -> racer[a]
           /\ conn'[a] = IF a \in ToSet(outcomes) /\ a # winner /\ conn[a] = "open"
                           THEN "closed" ELSE conn[a]
           /\ endpoint'[a] = IF endpoint[a] = "open" /\ a # winner THEN "closed" ELSE endpoint[a]
      /\ racer' \in [Addresses -> RacerStates] /\ conn' \in [Addresses -> ConnStates]
      /\ endpoint' \in [Addresses -> HandleStates]
  BY <1>1, <1>2 DEF CleanUp, CancelRacers, TypeOK, RacerStates, HandleStates, ConnStates
<1>6. TypeOK'
  <2>1. lost' \in SUBSET Addresses /\ handed' \in 0 .. N
    BY <1>1, <1>2, AddressFacts, AddressAssumption DEF TypeOK, Nobody
  <2>2. outcomes' \in Seq(Addresses) /\ shut' \in BOOLEAN
    BY <1>4, EmptyFacts
  <2> QED BY <1>1, <1>2, <1>5, <2>1, <2>2 DEF TypeOK
<1>7. Stage'
  BY <1>2, <1>3, <1>4 DEF Stage
<1>8. Tried'
  <2>1. \A a \in Addresses :
          /\ a > next' => racer'[a] = "none" /\ conn'[a] = "none" /\ endpoint'[a] = "none"
          /\ racer'[a] \notin {"launched", "await"}
          /\ conn'[a] = "connecting" => racer'[a] \notin {"none", "ended"}
    BY <1>1, <1>2, <1>5 DEF Tried
  <2> QED BY <1>2, <1>4, <2>1 DEF Tried
<1>9. Unseen'
  <2>1. DOMAIN outcomes' = {}
    BY <1>4, EmptyFacts
  <2>2. \A a \in lost' : racer'[a] = "ended"
    <3>1. \A a \in lost' : a \in Addresses /\ racer[a] = "ended"
      BY <1>1, <1>2, AddressFacts DEF Unseen, TypeOK
    <3> QED BY <1>5, <3>1
  <2> QED BY <1>2, <2>1, <2>2 DEF Unseen
<1>10. Owned'
  <2>1. \A a \in Addresses : conn'[a] = "open" => racer'[a] = "ended" /\ (a \in lost' \/ a = winner)
    <3> SUFFICES ASSUME NEW a \in Addresses, conn'[a] = "open"
                 PROVE  racer'[a] = "ended" /\ (a \in lost' \/ a = winner)
      OBVIOUS
    <3>1. conn[a] = "open" /\ (a \in ToSet(outcomes) => a = winner)
      BY <1>5
    <3>2. racer[a] = "ended" /\ (a \in ToSet(outcomes) \/ a = handed \/ a \in lost \/ a = winner)
      BY <1>4, <3>1, OwnedRacing
    <3> QED BY <1>2, <1>5, <3>1, <3>2, AddressFacts
  <2>2. ASSUME winner # Nobody
        PROVE  /\ racer'[winner] = "ended" /\ winner \notin ToSet(outcomes')
               /\ conn'[winner] = "open" /\ endpoint'[winner] = "open" /\ pc' = "openBi"
    <3>1. winner \in Addresses /\ pc = "loop"
      BY <1>1, <1>3, <2>2, AddressFacts DEF TypeOK
    <3>2. racer[winner] = "ended" /\ conn[winner] = "open" /\ endpoint[winner] = "open"
      BY <1>1, <2>2, <3>1 DEF Owned
    <3> QED BY <1>3, <1>4, <1>5, <2>2, <3>1, <3>2, EmptyFacts
  <2>3. \A a \in Addresses : endpoint'[a] = "open" => a = winner /\ pc' = "openBi"
    BY <1>3, <1>5, AddressFacts
  <2> QED BY <1>2, <2>1, <2>2, <2>3 DEF Owned
<1>11. RunningCounted' /\ InOrder'
  BY <1>4 DEF RunningCounted, InOrder
<1>12. FirstWins'
  <2>1. winner # Nobody => First(winner)'
    <3>1. winner # Nobody => handed = Nobody /\ lost' = lost
      BY <1>1, <1>2, <1>3 DEF Stage
    <3> QED BY <1>1, <1>2, <3>1 DEF FirstWins, First
  <2>2. ASSUME verdict' = "failed"
        PROVE  failed = Addresses
    <3>1. RaceOver /\ winner = Nobody /\ running = 0 /\ next = N
      BY <2>2 DEF RaceOver, CallerCancelled, StartCancelled
    <3>2. Awaited = {}
      <4>1. IsFiniteSet(Awaited) /\ Cardinality(Awaited) = 0
        BY <1>1, <1>4, <3>1, AwaitedFinite DEF RunningCounted
      <4> QED BY <4>1, FS_EmptySet
    <3>3. ASSUME NEW a \in Addresses
          PROVE  a \in failed
      <4>1. a <= next
        BY <3>1, AddressAssumption DEF Addresses
      <4>2. racer[a] \notin {"launched", "await"} /\ a \notin ToSet(outcomes) /\ a # handed /\ a \notin lost
        BY <3>2, AddressFacts DEF Awaited
      <4>3. a # winner
        BY <3>1, AddressFacts
      <4>4. conn[a] # "open"
        BY <1>4, <4>2, <4>3, OwnedRacing
      <4> QED BY <1>1, <1>4, <4>1, <4>2, <4>4 DEF Tried
    <3> QED BY <1>1, <3>3 DEF TypeOK
  <2> QED BY <1>2, <2>1, <2>2 DEF FirstWins
<1> QED BY <1>6, <1>7, <1>8, <1>9, <1>10, <1>11, <1>12 DEF QuicInv

(* racers.cancel() reaches a racer after the race. *)
LEMMA RacerCancelledStep ==
  ASSUME QuicInv, NEW a \in Addresses, RacerCancelled(a)
  PROVE  QuicInv'
<1>1. TypeOK /\ Stage /\ Tried /\ Unseen /\ Owned /\ RunningCounted /\ InOrder /\ FirstWins
  BY DEF QuicInv
<1>2. /\ racer[a] = "cancelled"
      /\ racer' = [racer EXCEPT ![a] = "ended"] /\ conn' = [conn EXCEPT ![a] = "closed"]
      /\ UNCHANGED <<next, running, endpoint, failed, outcomes, shut, pc, handed, winner,
                     verdict, order, lost>>
  BY DEF RacerCancelled
<1>3. ~Racing /\ ~Racing' /\ shut /\ outcomes = <<>> /\ handed = Nobody
  BY <1>1, <1>2 DEF Tried, Stage, Racing
<1>4. /\ racer' \in [Addresses -> RacerStates] /\ conn' \in [Addresses -> ConnStates]
      /\ \A b \in Addresses : /\ racer'[b] = IF b = a THEN "ended" ELSE racer[b]
                              /\ conn'[b] = IF b = a THEN "closed" ELSE conn[b]
  BY <1>1, <1>2 DEF TypeOK, RacerStates, HandleStates, ConnStates
<1>5. TypeOK' /\ Stage'
  BY <1>1, <1>2, <1>3, <1>4 DEF TypeOK, Stage
<1>6. Tried'
  <2>1. ~(a > next)
    BY <1>1, <1>2 DEF Tried
  <2> QED BY <1>1, <1>2, <1>3, <1>4, <2>1 DEF Tried
<1>7. Unseen'
  <2>1. lost \in SUBSET Addresses /\ DOMAIN outcomes = {}
    BY <1>1, <1>3, EmptyFacts DEF TypeOK
  <2> QED BY <1>1, <1>2, <1>3, <1>4, <2>1 DEF Unseen
<1>8. Owned'
  <2>1. winner # Nobody => winner \in Addresses /\ winner # a
    BY <1>1, <1>2, AddressFacts DEF Owned, TypeOK
  <2> QED BY <1>1, <1>2, <1>3, <1>4, <2>1 DEF Owned
<1>9. RunningCounted' /\ InOrder' /\ FirstWins'
  BY <1>1, <1>2, <1>3 DEF RunningCounted, InOrder, FirstWins, First
<1> QED BY <1>5, <1>6, <1>7, <1>8, <1>9 DEF QuicInv

(* A handshake whose racer never began goes on. *)
LEMMA HandshakeUnwatchedStep ==
  ASSUME QuicInv, NEW a \in Addresses, HandshakeUnwatched(a)
  PROVE  QuicInv'
<1>1. TypeOK /\ Stage /\ Tried /\ Unseen /\ Owned /\ RunningCounted /\ InOrder /\ FirstWins
  BY DEF QuicInv
<1>2. /\ racer[a] = "unbegun" /\ conn[a] = "connecting"
      /\ UNCHANGED <<next, running, racer, endpoint, failed, outcomes, shut, pc, handed, winner,
                     verdict, order, lost>>
  BY DEF HandshakeUnwatched
<1>3. PICK c \in {"open", "closed"} : conn' = [conn EXCEPT ![a] = c]
  BY DEF HandshakeUnwatched
<1>4. ~Racing /\ ~Racing' /\ shut
  BY <1>1, <1>2 DEF Tried, Stage, Racing
<1>5. /\ conn' \in [Addresses -> ConnStates]
      /\ \A b \in Addresses : conn'[b] = IF b = a THEN c ELSE conn[b]
  BY <1>1, <1>3 DEF TypeOK, ConnStates
<1>6. TypeOK' /\ Stage'
  BY <1>1, <1>2, <1>4, <1>5 DEF TypeOK, Stage
<1>7. Tried'
  BY <1>1, <1>2, <1>4, <1>5 DEF Tried
<1>8. Unseen' /\ RunningCounted' /\ InOrder' /\ FirstWins'
  BY <1>1, <1>2, <1>4 DEF Unseen, RunningCounted, InOrder, FirstWins, First
<1>9. Owned'
  <2>1. winner # Nobody => winner \in Addresses /\ winner # a
    BY <1>1, <1>2, AddressFacts DEF Owned, TypeOK
  <2> QED BY <1>1, <1>2, <1>4, <1>5, <2>1 DEF Owned
<1> QED BY <1>6, <1>7, <1>8, <1>9 DEF QuicInv

(* openBi() on the winner. *)
LEMMA OpenBiStep ==
  ASSUME QuicInv, OpenBi \/ OpenBiThrows
  PROVE  QuicInv'
<1>1. TypeOK /\ Stage /\ Tried /\ Unseen /\ Owned /\ RunningCounted /\ InOrder /\ FirstWins
  BY DEF QuicInv
<1>2. /\ pc = "openBi" /\ pc' \in {"returned", "failed", "cancelled"}
      /\ UNCHANGED <<next, running, racer, failed, outcomes, shut, handed, winner,
                     verdict, order, lost>>
  BY DEF OpenBi, OpenBiThrows
<1>3. ~Racing /\ ~Racing' /\ shut /\ handed = Nobody /\ winner # Nobody /\ winner \in Addresses
  BY <1>1, <1>2, AddressFacts DEF Stage, Racing, TypeOK
<1>4. /\ conn' \in [Addresses -> ConnStates] /\ endpoint' \in [Addresses -> HandleStates]
      /\ \A a \in Addresses :
           /\ conn'[a] = IF a = winner /\ pc' # "returned" THEN "closed" ELSE conn[a]
           /\ endpoint'[a] = IF a = winner /\ pc' # "returned" THEN "closed" ELSE endpoint[a]
  BY <1>1, <1>3 DEF OpenBi, OpenBiThrows, TypeOK, HandleStates, ConnStates
<1>5. TypeOK' /\ Stage'
  BY <1>1, <1>2, <1>3, <1>4 DEF TypeOK, Stage
<1>6. Tried'
  <2>1. ~(winner > next)
    BY <1>1, <1>3 DEF Tried, Owned
  <2> QED BY <1>1, <1>2, <1>3, <1>4, <2>1 DEF Tried
<1>7. Unseen' /\ RunningCounted' /\ InOrder' /\ FirstWins'
  BY <1>1, <1>2, <1>3 DEF Unseen, RunningCounted, InOrder, FirstWins, First
<1>8. Owned'
  BY <1>1, <1>2, <1>3, <1>4 DEF Owned
<1> QED BY <1>5, <1>6, <1>7, <1>8 DEF QuicInv

-----------------------------------------------------------------------------
LEMMA QuicInvStep == QuicInv /\ [Next]_vars => QuicInv'
<1> SUFFICES ASSUME QuicInv, [Next]_vars PROVE QuicInv'
  OBVIOUS
<1>1. CASE Next
  BY <1>1, StartStep, StartFailsStep, ReceiveNowStep, ReceiveRunsStep, SuspendedStep,
     RacerBeginsStep, HandshakeDoneStep, HandshakeFailsStep, CleanUpStep, RacerCancelledStep,
     HandshakeUnwatchedStep, OpenBiStep
     DEF Next, Loop, Racer
<1>2. CASE UNCHANGED vars
  BY <1>2 DEF vars, QuicInv, TypeOK, Stage, Racing, Tried, Unseen, Owned, RunningCounted, Awaited,
              InOrder, FirstWins, First
<1> QED BY <1>1, <1>2

(* The inductive invariant of open() holds for every number of addresses. *)
THEOREM QuicOpenCorrect == Spec => []QuicInv
  BY QuicInvInit, QuicInvStep, PTL DEF Spec

(* When open() is over and its racers have ended, no endpoint is left open *)
(* but that of the stream returned, and no connection, made or in the      *)
(* making, but the one of that stream, one whose outcome was lost with a   *)
(* cancelled receive(), and one whose racer was cancelled before it began. *)
THEOREM OpenLeaksNothing == Spec => []NothingLeaked
<1>1. QuicInv => NothingLeaked
  <2> SUFFICES ASSUME QuicInv, Over, NEW a \in Addresses
               PROVE  /\ endpoint[a] = "open" => pc = "returned" /\ a = winner
                      /\ Live(a) => (pc = "returned" /\ a = winner) \/ a \in lost \/ racer[a] = "unbegun"
                      /\ pc = "returned" /\ a = winner => conn[a] = "open" /\ endpoint[a] = "open"
    BY DEF NothingLeaked
  <2>1. Stage /\ Owned /\ Tried /\ pc \in Final /\ racer[a] \in {"none", "unbegun", "ended"}
    BY DEF QuicInv, Over
  <2>2. ~Racing /\ handed = Nobody /\ ToSet(outcomes) = {} /\ a # Nobody
        /\ pc \in {"returned", "failed", "cancelled"}
    BY <2>1, EmptyFacts, AddressFacts DEF Stage, Racing, Final
  <2>3. conn[a] = "connecting" => racer[a] = "unbegun"
    BY <2>1 DEF Tried
  <2> QED BY <2>1, <2>2, <2>3 DEF Owned, Live
<1> QED BY <1>1, QuicOpenCorrect, PTL

(* The first handshake to complete, of those whose outcome reached the     *)
(* loop, wins, and open() fails only when every address has failed.        *)
THEOREM FirstHandshakeWins == Spec => []FirstWins
<1>1. QuicInv => FirstWins
  BY DEF QuicInv
<1> QED BY <1>1, QuicOpenCorrect, PTL

(* `running' counts the attempts that are still to be heard of: what the   *)
(* loop waits for can come, unless it was lost.                            *)
THEOREM RunningIsCounted == Spec => []RunningCounted
<1>1. QuicInv => RunningCounted
  BY DEF QuicInv
<1> QED BY <1>1, QuicOpenCorrect, PTL
=============================================================================
