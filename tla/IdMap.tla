------------------------------- MODULE IdMap --------------------------------
(***************************************************************************)
(* IdMap.kt: the open-addressed table of the pending requests, with linear *)
(* probing, backward-shift deletion and doubling at half load.  All of it  *)
(* runs on the reactor, so every operation is one step.                    *)
(***************************************************************************)
EXTENDS Naturals, FiniteSets, FiniteSetsExt

CONSTANTS
  Ids, Values,
  Null,         \* a slot whose vals[] is null, the result of remove() on a miss
  TableSize,    \* slots of a new table, a power of two
  HashCodes     \* bound of the model: the hash codes ids may have

ASSUME TableAssumption ==
  /\ TableSize \in Nat /\ TableSize > 1
  /\ HashCodes \subseteq Nat
  /\ \A k \in Ids, v \in Values : [id |-> k, val |-> v] # Null

VARIABLES
  hash,         \* (k * -0x61c88647) ushr 7 of every id: some function, never changed
  table,        \* keys[] and vals[], indexed from 0: an entry or Null
  filled,       \* size
  answer        \* result of the last operation
mapVars == <<hash, table, filled, answer>>

Vacant(n) == [i \in 0 .. n - 1 |-> Null]

MapInit ==
  /\ hash \in [Ids -> HashCodes]
  /\ table = Vacant(TableSize)
  /\ filled = 0
  /\ answer = Null

Entry(k, v) == [id |-> k, val |-> v]
SlotsOf(t) == Cardinality(DOMAIN t)
Entries(t) == {t[i] : i \in DOMAIN t} \ {Null}

(* slot(): the home of an id, the hash code and the mask. *)
Home(k, t) == hash[k] % SlotsOf(t)

(* The slot at which the probe for k stops: the first one from its home on *)
(* that is vacant or holds k.                                              *)
Probe(k, t) ==
  LET at(d) == (Home(k, t) + d) % SlotsOf(t)
      stops(d) == t[at(d)] = Null \/ t[at(d)].id = k
  IN  at(Min({d \in 0 .. SlotsOf(t) - 1 : stops(d)}))

(* set() without its growth check. *)
Put(t, e) == [t EXCEPT ![Probe(e.id, t)] = e]

(* grow(): every entry is set again, in slot order, in a table twice as    *)
(* large.                                                                  *)
Grown(t) ==
  LET after[n \in 0 .. SlotsOf(t)] ==
        IF n = 0 THEN Vacant(2 * SlotsOf(t))
        ELSE IF t[n - 1] = Null THEN after[n - 1] ELSE Put(after[n - 1], t[n - 1])
  IN  after[SlotsOf(t)]

(* The check comes before the probe, also when k is there already. *)
MustGrow == (filled + 1) * 2 > SlotsOf(table)

SetId(k, v) ==
  LET t == IF MustGrow THEN Grown(table) ELSE table
      n == IF MustGrow THEN Cardinality(Entries(t)) ELSE filled
  IN  /\ table' = Put(t, Entry(k, v))
      /\ filled' = n + (IF t[Probe(k, t)] = Null THEN 1 ELSE 0)
      /\ answer' = Null
      /\ UNCHANGED hash

(* The range without its wrap around the end. *)
BetweenNoWrap(h, i, j, mask) == h \in i + 1 .. j

(* The range with the hole in it. *)
BetweenOffByOne(h, i, j, mask) ==
  IF i <= j THEN h \in i .. j ELSE h \in i .. mask \/ h <= j

(* Whether the entry at j, whose home is h, may stay where it is when slot *)
(* i before it is vacant: its home lies in the cyclic range (i, j].        *)
Between(h, i, j, mask) ==
  IF i <= j THEN h \in i + 1 .. j ELSE h \in i + 1 .. mask \/ h <= j

(* One turn of the backward shift: the walk is at slot j, the hole at      *)
(* s.hole, and it ends at the first vacant slot.                           *)
ShiftStep(s, j) ==
  LET e == s.slots[j]
      mask == SlotsOf(s.slots) - 1
  IN  IF s.over THEN s
      ELSE IF e = Null THEN [slots |-> s.slots, hole |-> s.hole, over |-> TRUE]
      ELSE IF Between(Home(e.id, s.slots), s.hole, j, mask) THEN s
      ELSE [slots |-> [s.slots EXCEPT ![s.hole] = e, ![j] = Null], hole |-> j, over |-> FALSE]

(* The cluster after the hole i moves back over it. *)
ShiftBack(t, i) ==
  LET walk[d \in 0 .. SlotsOf(t) - 1] ==
        IF d = 0 THEN [slots |-> t, hole |-> i, over |-> FALSE]
        ELSE ShiftStep(walk[d - 1], (i + d) % SlotsOf(t))
  IN  walk[SlotsOf(t) - 1].slots

RemoveId(k) ==
  LET i == Probe(k, table)
  IN  /\ UNCHANGED hash
      /\ IF table[i] = Null
           THEN answer' = Null /\ UNCHANGED <<table, filled>>
           ELSE /\ answer' = table[i].val
                /\ table' = ShiftBack([table EXCEPT ![i] = Null], i)
                /\ filled' = filled - 1

(* shutdown() fails every pending request through this. *)
ForEachValue ==
  /\ answer' = [v \in Values |->
                  Cardinality({i \in DOMAIN table : table[i] # Null /\ table[i].val = v})]
  /\ UNCHANGED <<hash, table, filled>>

ClearMap ==
  /\ table' = Vacant(SlotsOf(table))
  /\ filled' = 0
  /\ answer' = Null
  /\ UNCHANGED hash

MapNext ==
  \/ \E k \in Ids, v \in Values : SetId(k, v)
  \/ \E k \in Ids : RemoveId(k)
  \/ ForEachValue
  \/ ClearMap

MapSpec == MapInit /\ [][MapNext]_mapVars

-----------------------------------------------------------------------------
(* The map the table stands for. *)
Mapped == [k \in {e.id : e \in Entries(table)} |->
               (CHOOSE e \in Entries(table) : e.id = k).val]

Dict == INSTANCE Dictionary WITH entries <- Mapped

(* The table is a map: set, remove, forEachValue and clear answer as one   *)
(* does, through collisions, wrapped clusters, shifts and growth.  A lost  *)
(* entry would be a request whose response is dropped, a duplicated one a  *)
(* request that is completed twice.                                        *)
MapContract == Dict!Spec

(* "so later probes still find their keys": every entry is where the probe *)
(* for its id stops, size counts the entries, and the table is never more  *)
(* than half full, so that every probe and every shift meets a vacant slot *)
(* and ends.                                                               *)
TableSound ==
  /\ \A i \in DOMAIN table : table[i] # Null => Probe(table[i].id, table) = i
  /\ filled = Cardinality({i \in DOMAIN table : table[i] # Null})
  /\ 2 * filled <= SlotsOf(table)
=============================================================================
