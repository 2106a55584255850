-------------------------- MODULE RequestLifecycle --------------------------
(***************************************************************************)
(* What Connection promises about local requests ("A local request reaches *)
(* at most one terminal state ... and its registry entry, in-flight slot   *)
(* and deadline are released exactly once").  A request waits for one of   *)
(* MaxInFlight slots, holds it until it is settled or given up, and        *)
(* returns once.  A response settles only a request that holds a slot.     *)
(***************************************************************************)
EXTENDS Naturals, FiniteSets

CONSTANTS Requests, MaxInFlight

VARIABLES phase,   \* where each request is
          verdict  \* what settled it, or how it returned

lifeVars == <<phase, verdict>>

Init ==
  /\ phase = [r \in Requests |-> "idle"]
  /\ verdict = [r \in Requests |-> "none"]

InFlight == {r \in Requests : phase[r] = "inFlight"}

(* The call is refused: connection closed, or ids exhausted. *)
Refuse(r) ==
  /\ phase[r] = "idle"
  /\ phase' = [phase EXCEPT ![r] = "returned"]
  /\ verdict' = [verdict EXCEPT ![r] = "refused"]

Begin(r) ==
  /\ phase[r] = "idle"
  /\ phase' = [phase EXCEPT ![r] = "waiting"]
  /\ UNCHANGED verdict

Admit(r) ==
  /\ phase[r] = "waiting"
  /\ Cardinality(InFlight) < MaxInFlight
  /\ phase' = [phase EXCEPT ![r] = "inFlight"]
  /\ UNCHANGED verdict

(* The response arrives. *)
Answer(r) ==
  /\ phase[r] = "inFlight"
  /\ phase' = [phase EXCEPT ![r] = "settled"]
  /\ verdict' = [verdict EXCEPT ![r] = "response"]

(* The deadline fires. *)
Expire(r) ==
  /\ phase[r] \in {"waiting", "inFlight"}
  /\ phase' = [phase EXCEPT ![r] = "settled"]
  /\ verdict' = [verdict EXCEPT ![r] = "timeout"]

(* The connection closes: every slot is released at once, and the requests *)
(* W that were parked for one fail too.                                    *)
Shutdown(W) ==
  /\ \A r \in W : phase[r] = "waiting"
  /\ phase' = [r \in Requests |-> IF r \in W \cup InFlight THEN "settled" ELSE phase[r]]
  /\ verdict' = [r \in Requests |-> IF r \in W \cup InFlight THEN "closed" ELSE verdict[r]]

(* A settled request returns what settled it, or is overtaken by its       *)
(* cancellation or by a closed connection.                                 *)
Return(r, o) ==
  /\ \/ phase[r] = "settled" /\ o \in {verdict[r], "cancelled", "closed"}
     \/ phase[r] \in {"waiting", "inFlight"} /\ o \in {"cancelled", "closed", "tooLarge"}
  /\ phase' = [phase EXCEPT ![r] = "returned"]
  /\ verdict' = [verdict EXCEPT ![r] = o]

Next ==
  \/ \E r \in Requests : Refuse(r) \/ Begin(r) \/ Admit(r) \/ Answer(r) \/ Expire(r)
  \/ \E W \in SUBSET Requests : Shutdown(W)
  \/ \E r \in Requests, o \in {"response", "timeout", "closed", "cancelled", "tooLarge"} :
       Return(r, o)

Spec == Init /\ [][Next]_lifeVars
=============================================================================
