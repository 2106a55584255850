-------------------------------- MODULE Ring --------------------------------
(***************************************************************************)
(* Ring.kt: the growing ring buffer behind sendQueue, inFlightWaiters and  *)
(* the ReactorQueue.  The positions wrap around the end of an array that   *)
(* doubles when it is full.                                                *)
(***************************************************************************)
EXTENDS Naturals, Sequences, FiniteSets

CONSTANTS
  Items,        \* what is stored
  None,         \* a null cell, the result of removeFirstOrNull() on an empty ring
  Initial,      \* the array's first size (at least 4 in the code)
  MaxCount      \* bound of the model: addLast() is not called beyond it

ASSUME RingAssumption ==
  Initial \in Nat \ {0} /\ MaxCount \in Nat /\ None \notin Items

VARIABLES
  items,        \* the array, indexed from 0
  head,         \* index of the oldest item
  count,        \* size: how many items are stored
  taken         \* result of the last removeFirstOrNull()
ringVars == <<items, head, count, taken>>

Length(a) == Cardinality(DOMAIN a)

RingInit ==
  /\ items = [i \in 0 .. Initial - 1 |-> None]
  /\ head = 0
  /\ count = 0
  /\ taken = None

(* grow() that copies the array as it lies. *)
BiggerUnrotated ==
  [i \in 0 .. 2 * Length(items) - 1 |-> IF i < count THEN items[i] ELSE None]

(* grow(): twice the array, with the items moved to its front. *)
Bigger ==
  [i \in 0 .. 2 * Length(items) - 1 |->
     IF i < count THEN items[(head + i) % Length(items)] ELSE None]

Store(a, h, x) ==
  /\ items' = [a EXCEPT ![(h + count) % Length(a)] = x]
  /\ head' = h

AddLast(x) ==
  /\ count < MaxCount
  /\ IF count = Length(items) THEN Store(Bigger, 0, x) ELSE Store(items, head, x)
  /\ count' = count + 1
  /\ UNCHANGED taken

RemoveFirstOrNull ==
  /\ taken' = IF count = 0 THEN None ELSE items[head]
  /\ IF count = 0
       THEN UNCHANGED <<items, head, count>>
       ELSE /\ items' = [items EXCEPT ![head] = None]
            /\ head' = (head + 1) % Length(items)
            /\ count' = count - 1

(* clear() walks the live range only. *)
ClearedUpTo(n) ==
  [i \in DOMAIN items |->
     IF \E k \in 0 .. n - 1 : i = (head + k) % Length(items) THEN None ELSE items[i]]

ClearRing ==
  /\ items' = ClearedUpTo(count)
  /\ head' = 0
  /\ count' = 0
  /\ UNCHANGED taken

RingNext == (\E x \in Items : AddLast(x)) \/ RemoveFirstOrNull \/ ClearRing

RingSpec == RingInit /\ [][RingNext]_ringVars

-----------------------------------------------------------------------------
(* The cells of the live range, in order. *)
Contents == [i \in 1 .. count |-> items[(head + i - 1) % Length(items)]]

Queue == INSTANCE Fifo WITH queue <- Contents

(* The array keeps no item that left the ring: a stale reference would     *)
(* keep a completed request's continuation alive.                          *)
NoStaleItems ==
  /\ head \in DOMAIN items
  /\ {i \in DOMAIN items : items[i] # None}
       = {(head + k) % Length(items) : k \in 0 .. count - 1}

(* "A minimal FIFO ring": through wrap-around, growth in the middle of a   *)
(* wrapped range and clear() the ring is the queue its users take it for,  *)
(* and it forgets what left it.                                            *)
RingIsFifo == Queue!Spec /\ []NoStaleItems
=============================================================================
