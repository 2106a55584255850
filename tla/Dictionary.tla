----------------------------- MODULE Dictionary -----------------------------
(***************************************************************************)
(* What IdMap promises: a finite map from ids to values.                   *)
(***************************************************************************)
EXTENDS Naturals, FiniteSets, Functions

CONSTANTS Ids, Values, Null

VARIABLES entries, answer  \* the map; the last operation's result
vars == <<entries, answer>>

Init == entries = <<>> /\ answer = Null

Set(k, v) ==
  /\ entries' = [i \in DOMAIN entries \cup {k} |-> IF i = k THEN v ELSE entries[i]]
  /\ answer' = Null

Remove(k) ==
  /\ answer' = IF k \in DOMAIN entries THEN entries[k] ELSE Null
  /\ entries' = Restrict(entries, DOMAIN entries \ {k})

(* How often each value is visited. *)
ForEachValue ==
  /\ answer' = [v \in Values |-> Cardinality({k \in DOMAIN entries : entries[k] = v})]
  /\ UNCHANGED entries

Clear == entries' = <<>> /\ answer' = Null

Next ==
  \/ \E k \in Ids : Remove(k) \/ \E v \in Values : Set(k, v)
  \/ ForEachValue
  \/ Clear

Spec == Init /\ [][Next]_vars
=============================================================================
