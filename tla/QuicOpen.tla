------------------------------ MODULE QuicOpen ------------------------------
(***************************************************************************)
(* QuicClientTransport.open(): the addresses of a host are tried staggered *)
(* and the first handshake to complete wins.  The loop and the racers run  *)
(* on one reactor; a racer's outcome goes through an unlimited channel     *)
(* that has no onUndeliveredElement.                                       *)
(***************************************************************************)
EXTENDS Naturals, FiniteSets, Sequences, SequencesExt

CONSTANT N                  \* number of addresses

ASSUME AddressAssumption == N \in Nat

Addresses == 1 .. N
Nobody == 0

VARIABLES
  next,         \* addresses tried so far
  running,      \* attempts whose outcome open() still waits for
  racer,        \* per address: "none", "launched", "await", "cancelled", "ended", or
                \* "unbegun": cancelled before its coroutine began
  conn,         \* per address: its connection, "none", "connecting", "open" or "closed"
  endpoint,     \* per address: "none", "open" or "closed"
  failed,       \* addresses whose attempt failed
  outcomes,     \* the channel: addresses whose racer ended
  shut,         \* the channel is closed
  pc,           \* where open() is
  timed,        \* its receive() is under withTimeoutOrNull(ATTEMPT_DELAY)
  handed,       \* the outcome its receive() was resumed with
  winner,
  verdict,      \* how the race went: "", "won", "failed" or "cancelled"
  order,        \* history: completed handshakes, in order
  lost          \* history: outcomes dropped with a cancelled receive()
vars == <<next, running, racer, conn, endpoint, failed, outcomes, shut, pc, timed, handed,
          winner, verdict, order, lost>>

Init ==
  /\ next = 0 /\ running = 0
  /\ racer = [a \in Addresses |-> "none"]
  /\ conn = [a \in Addresses |-> "none"]
  /\ endpoint = [a \in Addresses |-> "none"]
  /\ failed = {} /\ outcomes = <<>> /\ shut = FALSE
  /\ pc = "loop" /\ timed = FALSE /\ handed = Nobody
  /\ winner = Nobody /\ verdict = ""
  /\ order = <<>> /\ lost = {}

Racing == pc \in {"loop", "parked", "handed", "delay"}
Final == {"returned", "failed", "cancelled"}

-----------------------------------------------------------------------------
(* startNext(): when nothing runs, or when ATTEMPT_DELAY passed. *)
MayStart == next < N /\ (pc = "delay" \/ (pc = "loop" /\ winner = Nobody /\ running = 0))

Start ==
  /\ MayStart
  /\ next' = next + 1
  /\ running' = running + 1
  /\ racer' = [racer EXCEPT ![next + 1] = "launched"]
  /\ conn' = [conn EXCEPT ![next + 1] = "connecting"]
  /\ endpoint' = [endpoint EXCEPT ![next + 1] = "open"]
  /\ pc' = "loop"
  /\ UNCHANGED <<failed, outcomes, shut, timed, handed, winner, verdict, order, lost>>

(* No endpoint, or connectWith() throws and the endpoint is closed. *)
StartFails ==
  /\ MayStart
  /\ next' = next + 1
  /\ failed' = failed \cup {next + 1}
  /\ endpoint' \in {endpoint, [endpoint EXCEPT ![next + 1] = "closed"]}
  /\ pc' = "loop"
  /\ UNCHANGED <<running, racer, conn, outcomes, shut, timed, handed, winner, verdict, order, lost>>

(* Forgets to count the attempt that ended. *)
TakesUncounted(a) ==
  /\ winner' = IF conn[a] = "open" THEN a ELSE winner
  /\ pc' = "loop"
  /\ UNCHANGED running

(* The loop's treatment of an outcome. *)
Takes(a) ==
  /\ running' = running - 1
  /\ winner' = IF conn[a] = "open" THEN a ELSE winner
  /\ pc' = "loop"

ReceiveNow ==
  /\ pc = "loop" /\ winner = Nobody /\ running > 0 /\ outcomes # <<>>
  /\ Takes(Head(outcomes))
  /\ outcomes' = Tail(outcomes)
  /\ UNCHANGED <<next, racer, conn, endpoint, failed, shut, timed, handed, verdict, order, lost>>

ReceiveParks ==
  /\ pc = "loop" /\ winner = Nobody /\ running > 0 /\ outcomes = <<>>
  /\ pc' = "parked"
  /\ timed' = (next < N)
  /\ UNCHANGED <<next, running, racer, conn, endpoint, failed, outcomes, shut, handed, winner, verdict, order, lost>>

(* The resumed receive() runs. *)
ReceiveRuns ==
  /\ pc = "handed"
  /\ Takes(handed)
  /\ handed' = Nobody
  /\ UNCHANGED <<next, racer, conn, endpoint, failed, outcomes, shut, timed, verdict, order, lost>>

(* ATTEMPT_DELAY passes.  A receive() that was resumed and did not run yet *)
(* is cancelled all the same, and what it was given is gone.               *)
AttemptDelay ==
  /\ pc \in {"parked", "handed"} /\ timed
  /\ pc' = "delay"
  /\ lost' = IF pc = "handed" THEN lost \cup {handed} ELSE lost
  /\ handed' = Nobody
  /\ UNCHANGED <<next, running, racer, conn, endpoint, failed, outcomes, shut, timed, winner, verdict, order>>

-----------------------------------------------------------------------------
(* A racer *)

(* The reactor runs the launched coroutine as far as its await(). *)
RacerBegins(a) ==
  /\ racer[a] = "launched"
  /\ racer' = [racer EXCEPT ![a] = "await"]
  /\ UNCHANGED <<next, running, conn, endpoint, failed, outcomes, shut, pc, timed, handed, winner, verdict, order, lost>>

(* trySend: to the parked receive(), to the buffer, or refused. *)
Post(a, ok) ==
  /\ conn' = [conn EXCEPT ![a] = IF ok /\ ~shut THEN "open" ELSE "closed"]
  /\ racer' = [racer EXCEPT ![a] = "ended"]
  /\ IF pc = "parked" /\ ~shut
       THEN pc' = "handed" /\ handed' = a /\ UNCHANGED outcomes
       ELSE /\ outcomes' = IF shut THEN outcomes ELSE Append(outcomes, a)
            /\ UNCHANGED <<pc, handed>>

HandshakeDone(a) ==
  /\ racer[a] = "await"
  /\ Post(a, TRUE)
  /\ order' = Append(order, a)
  /\ UNCHANGED <<next, running, endpoint, failed, shut, timed, winner, verdict, lost>>

(* An error, or connectTimeout, which closes what is connecting. *)
HandshakeFails(a) ==
  /\ racer[a] = "await"
  /\ Post(a, FALSE)
  /\ failed' = failed \cup {a}
  /\ UNCHANGED <<next, running, endpoint, shut, timed, winner, verdict, order, lost>>

(* racers.cancel() reaches it in await(): the connection is closed even    *)
(* when the handshake had just completed.                                  *)
RacerCancelled(a) ==
  /\ racer[a] = "cancelled"
  /\ racer' = [racer EXCEPT ![a] = "ended"]
  /\ conn' = [conn EXCEPT ![a] = "closed"]
  /\ UNCHANGED <<next, running, endpoint, failed, outcomes, shut, pc, timed, handed, winner, verdict, order, lost>>

(* What a racer that never began was to wait for goes on without it, in    *)
(* the endpoint's coroutines, which belong to the caller.                  *)
HandshakeUnwatched(a) ==
  /\ racer[a] = "unbegun" /\ conn[a] = "connecting" /\ pc # "cancelled"
  /\ \E c \in {"open", "closed"} : conn' = [conn EXCEPT ![a] = c]
  /\ UNCHANGED <<next, running, racer, endpoint, failed, outcomes, shut, pc, timed, handed, winner, verdict, order, lost>>

-----------------------------------------------------------------------------
(* racers.cancel(): a racer in await() is resumed with the cancellation.   *)
(* One that has not begun never runs, so nobody closes what it was to wait *)
(* for.                                                                    *)
CancelRacers ==
  racer' = [a \in Addresses |-> CASE racer[a] = "await" -> "cancelled"
                                   [] racer[a] = "launched" -> "unbegun"
                                   [] OTHER -> racer[a]]

(* Closes the endpoints, and leaves what is in the channel. *)
CleanUpEndpoints ==
  /\ CancelRacers
  /\ shut' = TRUE
  /\ outcomes' = <<>>
  /\ endpoint' = [a \in Addresses |->
                    IF endpoint[a] = "open" /\ a # winner THEN "closed" ELSE endpoint[a]]
  /\ UNCHANGED conn

(* The finally block of the race. *)
CleanUp ==
  /\ CancelRacers
  /\ shut' = TRUE
  /\ outcomes' = <<>>
  /\ conn' = [a \in Addresses |->
                IF a \in ToSet(outcomes) /\ a # winner /\ conn[a] = "open" THEN "closed" ELSE conn[a]]
  /\ endpoint' = [a \in Addresses |->
                    IF endpoint[a] = "open" /\ a # winner THEN "closed" ELSE endpoint[a]]

(* Gives up when nothing runs, whatever is left to try. *)
RaceOverEarly ==
  /\ pc = "loop" /\ (winner # Nobody \/ (running = 0 /\ next > 0))
  /\ CleanUp
  /\ pc' = IF winner # Nobody THEN "openBi" ELSE "failed"
  /\ verdict' = IF winner # Nobody THEN "won" ELSE "failed"
  /\ UNCHANGED <<next, running, failed, timed, handed, winner, order, lost>>

RaceOver ==
  /\ pc = "loop" /\ (winner # Nobody \/ (running = 0 /\ next = N))
  /\ CleanUp
  /\ pc' = IF winner # Nobody THEN "openBi" ELSE "failed"
  /\ verdict' = IF winner # Nobody THEN "won" ELSE "failed"
  /\ UNCHANGED <<next, running, failed, timed, handed, winner, order, lost>>

(* The caller is cancelled while open() is suspended in the race. *)
CallerCancelled ==
  /\ pc \in {"parked", "handed"}
  /\ CleanUp
  /\ lost' = IF pc = "handed" THEN lost \cup {handed} ELSE lost
  /\ handed' = Nobody
  /\ pc' = "cancelled" /\ verdict' = "cancelled"
  /\ UNCHANGED <<next, running, failed, timed, winner, order>>

(* The caller is cancelled while startNext() is suspended: an endpoint     *)
(* made for the address is closed again.                                   *)
StartCancelled ==
  /\ MayStart
  /\ next' = next + 1
  /\ CleanUp
  /\ pc' = "cancelled" /\ verdict' = "cancelled"
  /\ UNCHANGED <<running, failed, timed, handed, winner, order, lost>>

(* openBi() on the winner; an error or a cancellation closes it. *)
OpenBi ==
  /\ pc = "openBi"
  /\ pc' = "returned"
  /\ UNCHANGED <<next, running, racer, conn, endpoint, failed, outcomes, shut, timed, handed, winner, verdict, order, lost>>

OpenBiThrows ==
  /\ pc = "openBi"
  /\ pc' \in {"failed", "cancelled"}
  /\ conn' = [conn EXCEPT ![winner] = "closed"]
  /\ endpoint' = [endpoint EXCEPT ![winner] = "closed"]
  /\ UNCHANGED <<next, running, racer, failed, outcomes, shut, timed, handed, winner, verdict, order, lost>>

-----------------------------------------------------------------------------
Loop == Start \/ StartFails \/ ReceiveNow \/ ReceiveParks \/ ReceiveRuns \/ RaceOver
Racer(a) == RacerBegins(a) \/ HandshakeDone(a) \/ HandshakeFails(a)

Next ==
  \/ Loop \/ AttemptDelay \/ CallerCancelled \/ StartCancelled \/ OpenBi \/ OpenBiThrows
  \/ \E a \in Addresses : Racer(a) \/ RacerCancelled(a) \/ HandshakeUnwatched(a)

(* connectTimeout ends every handshake, the timer fires, the reactor runs  *)
(* what is ready; openBi() gets its stream or an error.                    *)
Fairness ==
  /\ WF_vars(Loop) /\ WF_vars(AttemptDelay) /\ WF_vars(OpenBi \/ OpenBiThrows)
  /\ \A a \in Addresses : WF_vars(Racer(a)) /\ WF_vars(RacerCancelled(a))

Spec == Init /\ [][Next]_vars /\ Fairness

-----------------------------------------------------------------------------
(* Nothing of open() is left to run. *)
Over == pc \in Final /\ \A a \in Addresses : racer[a] \in {"none", "unbegun", "ended"}

Live(a) == conn[a] \in {"connecting", "open"}

(* When open() is over and its racers have ended, the only endpoint left   *)
(* is that of the stream returned, and the only connections left, made or  *)
(* in the making, are the one of that stream, those whose outcome was lost *)
(* with a receive(), and those whose racer was cancelled before it began:  *)
(* however handshakes, the delay and a cancellation overlapped, those two  *)
(* are the only ways to leak one.                                          *)
NothingLeaked ==
  Over =>
    \A a \in Addresses :
      /\ endpoint[a] = "open" => pc = "returned" /\ a = winner
      /\ Live(a) => (pc = "returned" /\ a = winner) \/ a \in lost \/ racer[a] = "unbegun"
      /\ pc = "returned" /\ a = winner => conn[a] = "open" /\ endpoint[a] = "open"

(* a is the first completed handshake whose outcome was not lost. *)
First(a) ==
  \E i \in DOMAIN order : /\ order[i] = a /\ a \notin lost
                          /\ \A j \in 1 .. i - 1 : order[j] \in lost

(* "the first handshake to complete wins": of those whose outcome reached  *)
(* the loop, and none that completed is passed over for a failure.         *)
FirstWins ==
  /\ winner # Nobody => First(winner)
  /\ verdict = "failed" => failed = Addresses

(* Those still connecting, posted or handed, and the lost ones that never  *)
(* arrive.                                                                 *)
Awaited ==
  {a \in Addresses : racer[a] \in {"launched", "await"}} \cup ToSet(outcomes) \cup ({handed} \ {Nobody}) \cup lost

(* The count of running attempts is what the loop waits for. *)
RunningCounted == Racing => running = Cardinality(Awaited)

(* open() returns, whatever the addresses do, unless an outcome was lost. *)
OpenReturnsUnlessLost == <>(pc \in Final \/ lost # {})
=============================================================================
