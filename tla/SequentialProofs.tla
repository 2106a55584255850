-------------------------- MODULE SequentialProofs --------------------------
(***************************************************************************)
(* Proofs about the sequential parts: Ring implements Fifo for an array    *)
(* that doubles any number of times; what PacketStream decodes depends on  *)
(* the frames sent and never on how they were split; IdMap keeps every     *)
(* entry where its probe stops and implements Dictionary, for every hash   *)
(* function, table size and order of calls.                                *)
(***************************************************************************)
EXTENDS Ring, IdMap, PacketStream, FiniteSetTheorems, WellFoundedInduction, TLAPS

-----------------------------------------------------------------------------
(* Induction over a set of numbers *)

LEMMA LeastNumber ==
  ASSUME NEW T, T \subseteq Nat, T # {}
  PROVE  \E n \in T : \A m \in T : ~(m < n)
<1> DEFINE R == OpToRel(<, Nat)
<1>1. IsWellFoundedOn(R, Nat)
  BY NatLessThanWellFounded DEF OpToRel
<1>2. R = {ss \in Nat \X Nat : ss[1] < ss[2]}
  BY DEF OpToRel
<1> HIDE DEF R
<1>3. \E x \in T : \A y \in T : ~(<<y, x>> \in R)
  BY <1>1, WFMin
<1> QED BY <1>2, <1>3

LEMMA NumberInduction ==
  ASSUME NEW G, 0 \in G, \A n \in Nat : n \in G => n + 1 \in G
  PROVE  Nat \subseteq G
<1> SUFFICES ASSUME ~(Nat \subseteq G) PROVE FALSE
  OBVIOUS
<1> DEFINE T == Nat \ G
<1>1. T \subseteq Nat /\ T # {}
  OBVIOUS
<1>2. PICK n \in T : \A m \in T : ~(m < n)
  BY <1>1, LeastNumber
<1>3. n # 0 /\ n - 1 \in Nat
  BY <1>2
<1>4. n - 1 \in G
  BY <1>2, <1>3
<1> QED BY <1>2, <1>3, <1>4

-----------------------------------------------------------------------------
(* Positions of the ring *)

(* The cell k places after cell h in an array of n cells. *)
Cell(h, k, n) == IF h + k < n THEN h + k ELSE h + k - n

LEMMA CellIs ==
  ASSUME NEW n \in Nat \ {0}, NEW h \in 0 .. n - 1, NEW k \in 0 .. n
  PROVE  (h + k) % n = Cell(h, k, n) /\ Cell(h, k, n) \in 0 .. n - 1
<1>1. CASE h + k < n
  <2>1. h + k \in 0 .. n - 1
    BY <1>1
  <2>2. (h + k) % n = h + k
    BY <2>1
  <2> QED BY <1>1, <2>1, <2>2 DEF Cell
<1>2. CASE ~(h + k < n)
  <2>1. h + k \in n .. 2 * n - 1
    BY <1>2
  <2>2. (h + k) % n = h + k - n
    BY <2>1
  <2>3. h + k - n \in 0 .. n - 1
    BY <2>1
  <2> QED BY <1>2, <2>2, <2>3 DEF Cell
<1> QED BY <1>1, <1>2

LEMMA CellsApart ==
  ASSUME NEW n \in Nat \ {0}, NEW h \in 0 .. n - 1, NEW k \in 0 .. n - 1, NEW l \in 0 .. n - 1,
         Cell(h, k, n) = Cell(h, l, n)
  PROVE  k = l
  BY DEF Cell

(* Every cell is some number of places after h. *)
LEMMA CellsAll ==
  ASSUME NEW n \in Nat \ {0}, NEW h \in 0 .. n - 1, NEW j \in 0 .. n - 1
  PROVE  \E k \in 0 .. n - 1 : j = Cell(h, k, n)
<1>1. CASE h <= j
  <2>1. j - h \in 0 .. n - 1 /\ j = Cell(h, j - h, n)
    BY <1>1 DEF Cell
  <2> QED BY <2>1
<1>2. CASE ~(h <= j)
  <2>1. j - h + n \in 0 .. n - 1 /\ j = Cell(h, j - h + n, n)
    BY <1>2 DEF Cell
  <2> QED BY <2>1
<1> QED BY <1>1, <1>2

LEMMA LengthIs ==
  ASSUME NEW n \in Nat, NEW a, DOMAIN a = 0 .. n - 1
  PROVE  Length(a) = n
<1>1. Cardinality(0 .. n - 1) = IF 0 > n - 1 THEN 0 ELSE n - 1 - 0 + 1
  BY FS_Interval
<1> QED BY <1>1 DEF Length

-----------------------------------------------------------------------------
(* An array and what it stores *)

(* The array a of n cells holds c items from cell h on, and nothing else. *)
Holds(a, h, c, n) ==
  /\ n \in Nat \ {0} /\ a \in [0 .. n - 1 -> Items \cup {None}]
  /\ h \in 0 .. n - 1 /\ c \in 0 .. n
  /\ \A k \in 0 .. n - 1 : IF k < c THEN a[Cell(h, k, n)] \in Items ELSE a[Cell(h, k, n)] = None

(* The array b is a with the cell j set to y. *)
Changed(a, b, j, y, n) ==
  b \in [0 .. n - 1 -> Items \cup {None}] /\ \A i \in 0 .. n - 1 : b[i] = IF i = j THEN y ELSE a[i]

Listed(a, h, c, n) == [i \in 1 .. c |-> a[Cell(h, i - 1, n)]]

LEMMA ListedType ==
  ASSUME NEW a, NEW h, NEW c, NEW n, Holds(a, h, c, n)
  PROVE  /\ Listed(a, h, c, n) \in Seq(Items) /\ Len(Listed(a, h, c, n)) = c
         /\ \A i \in 1 .. c : Listed(a, h, c, n)[i] = a[Cell(h, i - 1, n)]
<1>1. c \in Nat /\ n \in Nat /\ \A i \in 1 .. c : i - 1 \in 0 .. n - 1 /\ i - 1 < c
  BY DEF Holds
<1>2. \A i \in 1 .. c : a[Cell(h, i - 1, n)] \in Items
  BY <1>1 DEF Holds
<1>3. Listed(a, h, c, n) \in [1 .. c -> Items]
  BY <1>2 DEF Listed
<1> QED BY <1>1, <1>3 DEF Listed

(* Two sequences are equal when they are so item by item. *)
LEMMA SameItems ==
  ASSUME NEW s \in Seq(Items), NEW t \in Seq(Items), Len(s) = Len(t), \A i \in 1 .. Len(s) : s[i] = t[i]
  PROVE  s = t
  OBVIOUS

LEMMA AddKeeps ==
  ASSUME NEW a, NEW h, NEW c, NEW n, Holds(a, h, c, n), c < n, NEW x \in Items,
         NEW b, Changed(a, b, Cell(h, c, n), x, n)
  PROVE  Holds(b, h, c + 1, n) /\ Listed(b, h, c + 1, n) = Append(Listed(a, h, c, n), x)
<1>1. /\ n \in Nat \ {0} /\ h \in 0 .. n - 1 /\ c \in 0 .. n - 1 /\ c + 1 \in 0 .. n
      /\ a \in [0 .. n - 1 -> Items \cup {None}]
  BY DEF Holds
<1>2. Cell(h, c, n) \in 0 .. n - 1
  BY <1>1, CellIs
<1>3. b \in [0 .. n - 1 -> Items \cup {None}]
  BY DEF Changed
<1>4. ASSUME NEW k \in 0 .. n - 1
      PROVE  b[Cell(h, k, n)] = IF k = c THEN x ELSE a[Cell(h, k, n)]
  <2>1. Cell(h, k, n) \in 0 .. n - 1
    BY <1>1 DEF Cell
  <2>2. Cell(h, k, n) = Cell(h, c, n) => k = c
    BY <1>1, CellsApart
  <2> QED BY <1>1, <1>2, <2>1, <2>2 DEF Changed
<1>5. ASSUME NEW k \in 0 .. n - 1
      PROVE  IF k < c + 1 THEN b[Cell(h, k, n)] \in Items ELSE b[Cell(h, k, n)] = None
  <2>1. IF k < c THEN a[Cell(h, k, n)] \in Items ELSE a[Cell(h, k, n)] = None
    BY DEF Holds
  <2> QED BY <1>1, <1>4, <2>1
<1>6. Holds(b, h, c + 1, n)
  BY <1>1, <1>3, <1>5 DEF Holds
<1>7. PICK s, t : s = Listed(a, h, c, n) /\ t = Listed(b, h, c + 1, n)
  OBVIOUS
<1>8. s \in Seq(Items) /\ Len(s) = c /\ \A i \in 1 .. c : s[i] = a[Cell(h, i - 1, n)]
  BY <1>7, ListedType
<1>9. t \in Seq(Items) /\ Len(t) = c + 1 /\ \A i \in 1 .. c + 1 : t[i] = b[Cell(h, i - 1, n)]
  <2>1. PICK d : d = c + 1
    OBVIOUS
  <2>2. Holds(b, h, d, n) /\ t = Listed(b, h, d, n)
    BY <1>6, <1>7, <2>1
  <2>3. /\ Listed(b, h, d, n) \in Seq(Items) /\ Len(Listed(b, h, d, n)) = d
        /\ \A i \in 1 .. d : Listed(b, h, d, n)[i] = b[Cell(h, i - 1, n)]
    BY <2>2, ListedType
  <2> QED BY <2>1, <2>2, <2>3
<1>10. /\ Append(s, x) \in Seq(Items) /\ Len(Append(s, x)) = c + 1
       /\ \A i \in 1 .. c + 1 : Append(s, x)[i] = IF i = c + 1 THEN x ELSE s[i]
  BY <1>1, <1>8
<1>11. ASSUME NEW i \in 1 .. c + 1 PROVE t[i] = Append(s, x)[i]
  <2>1. i - 1 \in 0 .. n - 1 /\ (i - 1 = c <=> i = c + 1) /\ (i # c + 1 => i \in 1 .. c)
    BY <1>1
  <2>2. b[Cell(h, i - 1, n)] = IF i - 1 = c THEN x ELSE a[Cell(h, i - 1, n)]
    BY <1>4, <2>1
  <2> QED BY <1>8, <1>9, <1>10, <2>1, <2>2
<1>12. t = Append(s, x)
  BY <1>9, <1>10, <1>11, SameItems
<1> QED BY <1>6, <1>7, <1>12

(* grow(): a full ring moves to the front of an array twice its size. *)
LEMMA GrowKeeps ==
  ASSUME NEW a, NEW h, NEW n, Holds(a, h, n, n),
         NEW b, b = [i \in 0 .. 2 * n - 1 |-> IF i < n THEN a[Cell(h, i, n)] ELSE None]
  PROVE  Holds(b, 0, n, 2 * n) /\ Listed(b, 0, n, 2 * n) = Listed(a, h, n, n)
<1>1. n \in Nat \ {0} /\ 2 * n \in Nat \ {0} /\ n \in 0 .. 2 * n /\ 0 \in 0 .. 2 * n - 1
  BY DEF Holds
<1>2. ASSUME NEW k \in 0 .. 2 * n - 1
      PROVE  /\ Cell(0, k, 2 * n) = k
             /\ b[k] = IF k < n THEN a[Cell(h, k, n)] ELSE None
             /\ k < n => a[Cell(h, k, n)] \in Items
  <2>1. k < n => k \in 0 .. n - 1
    BY <1>1
  <2>2. Cell(0, k, 2 * n) = k
    BY <1>1 DEF Cell
  <2> QED BY <2>1, <2>2 DEF Holds
<1>3. b \in [0 .. 2 * n - 1 -> Items \cup {None}]
  BY <1>2
<1>4. Holds(b, 0, n, 2 * n)
  BY <1>1, <1>2, <1>3 DEF Holds
<1>5. ASSUME NEW i \in 1 .. n PROVE b[Cell(0, i - 1, 2 * n)] = a[Cell(h, i - 1, n)]
  <2>1. i - 1 \in 0 .. 2 * n - 1 /\ i - 1 < n
    BY <1>1
  <2> QED BY <1>2, <2>1
<1>6. Listed(b, 0, n, 2 * n) = Listed(a, h, n, n)
  BY <1>5 DEF Listed
<1> QED BY <1>4, <1>6

LEMMA TakeKeeps ==
  ASSUME NEW a, NEW h, NEW c, NEW n, Holds(a, h, c, n), c # 0,
         NEW b, Changed(a, b, h, None, n)
  PROVE  /\ Holds(b, Cell(h, 1, n), c - 1, n)
         /\ Listed(a, h, c, n) # <<>> /\ a[h] = Head(Listed(a, h, c, n))
         /\ Listed(b, Cell(h, 1, n), c - 1, n) = Tail(Listed(a, h, c, n))
<1>1. /\ n \in Nat \ {0} /\ h \in 0 .. n - 1 /\ c \in 1 .. n /\ c - 1 \in 0 .. n
      /\ a \in [0 .. n - 1 -> Items \cup {None}] /\ 0 \in 0 .. n - 1 /\ 1 \in 0 .. n
  BY DEF Holds
<1>2. PICK g : g = Cell(h, 1, n)
  OBVIOUS
<1>3. g \in 0 .. n - 1 /\ Cell(h, 0, n) = h
  BY <1>1, <1>2, CellIs DEF Cell
<1>4. b \in [0 .. n - 1 -> Items \cup {None}]
  BY DEF Changed
<1>5. ASSUME NEW k \in 0 .. n - 1
      PROVE  b[Cell(g, k, n)] = IF k = n - 1 THEN None ELSE a[Cell(h, k + 1, n)]
  <2>1. Cell(g, k, n) = Cell(h, k + 1, n) /\ Cell(g, k, n) \in 0 .. n - 1
    BY <1>1, <1>2, <1>3 DEF Cell
  <2>2. CASE k = n - 1
    <3>1. Cell(h, k + 1, n) = h
      BY <1>1, <2>2 DEF Cell
    <3> QED BY <1>1, <2>1, <2>2, <3>1 DEF Changed
  <2>3. CASE k # n - 1
    <3>1. k + 1 \in 0 .. n - 1 /\ k + 1 # 0
      BY <1>1, <2>3
    <3>2. Cell(h, k + 1, n) # h
      BY <1>1, <1>3, <3>1, CellsApart
    <3> QED BY <1>1, <2>1, <2>3, <3>2 DEF Changed
  <2> QED BY <2>2, <2>3
<1>6. ASSUME NEW k \in 0 .. n - 1
      PROVE  IF k < c - 1 THEN b[Cell(g, k, n)] \in Items ELSE b[Cell(g, k, n)] = None
  <2>1. CASE k = n - 1
    BY <1>1, <1>5, <2>1
  <2>2. CASE k # n - 1
    <3>1. k + 1 \in 0 .. n - 1 /\ (k < c - 1 <=> k + 1 < c)
      BY <1>1, <2>2
    <3>2. IF k + 1 < c THEN a[Cell(h, k + 1, n)] \in Items ELSE a[Cell(h, k + 1, n)] = None
      BY <3>1 DEF Holds
    <3> QED BY <1>5, <2>2, <3>1, <3>2
  <2> QED BY <2>1, <2>2
<1>7. Holds(b, g, c - 1, n)
  BY <1>1, <1>3, <1>4, <1>6 DEF Holds
<1>8. PICK s, t : s = Listed(a, h, c, n) /\ t = Listed(b, g, c - 1, n)
  OBVIOUS
<1>9. s \in Seq(Items) /\ Len(s) = c /\ \A i \in 1 .. c : s[i] = a[Cell(h, i - 1, n)]
  BY <1>8, ListedType
<1>10. t \in Seq(Items) /\ Len(t) = c - 1 /\ \A i \in 1 .. c - 1 : t[i] = b[Cell(g, i - 1, n)]
  <2>1. PICK d : d = c - 1
    OBVIOUS
  <2>2. Holds(b, g, d, n) /\ t = Listed(b, g, d, n)
    BY <1>7, <1>8, <2>1
  <2>3. /\ Listed(b, g, d, n) \in Seq(Items) /\ Len(Listed(b, g, d, n)) = d
        /\ \A i \in 1 .. d : Listed(b, g, d, n)[i] = b[Cell(g, i - 1, n)]
    BY <2>2, ListedType
  <2> QED BY <2>1, <2>2, <2>3
<1>11. /\ s # <<>> /\ Head(s) = s[1] /\ Tail(s) \in Seq(Items) /\ Len(Tail(s)) = c - 1
       /\ \A i \in 1 .. c - 1 : Tail(s)[i] = s[i + 1]
  BY <1>1, <1>9
<1>12. Head(s) = a[h]
  <2>1. 1 \in 1 .. c /\ 1 - 1 = 0
    BY <1>1
  <2> QED BY <1>3, <1>9, <1>11, <2>1
<1>13. ASSUME NEW i \in 1 .. c - 1 PROVE t[i] = Tail(s)[i]
  <2>1. i - 1 \in 0 .. n - 1 /\ i - 1 # n - 1 /\ (i - 1) + 1 = i /\ i + 1 \in 1 .. c /\ (i + 1) - 1 = i
    BY <1>1
  <2>2. b[Cell(g, i - 1, n)] = a[Cell(h, i, n)]
    BY <1>5, <2>1
  <2>3. s[i + 1] = a[Cell(h, i, n)]
    BY <1>9, <2>1
  <2> QED BY <1>10, <1>11, <2>2, <2>3
<1>14. t = Tail(s)
  BY <1>10, <1>11, <1>13, SameItems
<1> QED BY <1>2, <1>7, <1>8, <1>11, <1>12, <1>14

LEMMA ClearKeeps ==
  ASSUME NEW a, NEW h, NEW c, NEW n, Holds(a, h, c, n),
         NEW b, b = [i \in 0 .. n - 1 |-> IF \E k \in 0 .. c - 1 : i = Cell(h, k, n) THEN None ELSE a[i]]
  PROVE  Holds(b, 0, 0, n)
<1>1. n \in Nat \ {0} /\ h \in 0 .. n - 1 /\ c \in 0 .. n /\ 0 \in 0 .. n - 1 /\ 0 \in 0 .. n
  BY DEF Holds
<1>2. ASSUME NEW j \in 0 .. n - 1 PROVE b[j] = None
  <2>1. PICK k \in 0 .. n - 1 : j = Cell(h, k, n)
    BY <1>1, CellsAll
  <2>2. CASE k < c
    <3>1. k \in 0 .. c - 1
      BY <1>1, <2>2
    <3> QED BY <2>1, <3>1
  <2>3. CASE ~(k < c)
    <3>1. a[j] = None
      BY <2>1, <2>3 DEF Holds
    <3> QED BY <3>1
  <2> QED BY <2>2, <2>3
<1>3. b \in [0 .. n - 1 -> Items \cup {None}]
  BY <1>2
<1>4. ASSUME NEW k \in 0 .. n - 1 PROVE b[Cell(0, k, n)] = None /\ ~(k < 0)
  <2>1. Cell(0, k, n) \in 0 .. n - 1
    BY <1>1 DEF Cell
  <2> QED BY <1>2, <2>1
<1> QED BY <1>1, <1>3, <1>4 DEF Holds

-----------------------------------------------------------------------------
(* The ring *)

RingInv == \E n : Holds(items, head, count, n)

(* What the refinement maps the ring to is the listing of its live range. *)
LEMMA ContentsListed ==
  ASSUME NEW n, Holds(items, head, count, n)
  PROVE  Length(items) = n /\ Contents = Listed(items, head, count, n)
<1>1. /\ n \in Nat \ {0} /\ n \in Nat /\ DOMAIN items = 0 .. n - 1 /\ head \in 0 .. n - 1
      /\ count \in 0 .. n
  BY DEF Holds
<1>2. Length(items) = n
  BY <1>1, LengthIs
<1>3. ASSUME NEW i \in 1 .. count PROVE (head + i - 1) % n = Cell(head, i - 1, n)
  <2>1. i - 1 \in 0 .. n /\ head + i - 1 = head + (i - 1)
    BY <1>1
  <2>2. (head + (i - 1)) % n = Cell(head, i - 1, n)
    BY <1>1, <2>1, CellIs
  <2> QED BY <2>1, <2>2
<1> QED BY <1>2, <1>3 DEF Contents, Listed

LEMMA ContentsListedNext ==
  ASSUME NEW n, Holds(items', head', count', n)
  PROVE  Contents' = Listed(items', head', count', n)
<1>1. /\ n \in Nat \ {0} /\ n \in Nat /\ DOMAIN items' = 0 .. n - 1 /\ head' \in 0 .. n - 1
      /\ count' \in 0 .. n
  BY DEF Holds
<1>2. Length(items') = n
  BY <1>1, LengthIs
<1>3. ASSUME NEW i \in 1 .. count' PROVE (head' + i - 1) % n = Cell(head', i - 1, n)
  <2>1. i - 1 \in 0 .. n /\ head' + i - 1 = head' + (i - 1)
    BY <1>1
  <2>2. (head' + (i - 1)) % n = Cell(head', i - 1, n)
    BY <1>1, <2>1, CellIs
  <2> QED BY <2>1, <2>2
<1>4. Contents' = [i \in 1 .. count' |-> items'[(head' + i - 1) % Length(items')]]
  BY DEF Contents, Length
<1> QED BY <1>2, <1>3, <1>4 DEF Listed

LEMMA RingStarts ==
  ASSUME RingInit
  PROVE  RingInv /\ Queue!Init
<1>1. Initial \in Nat \ {0} /\ 0 \in 0 .. Initial - 1 /\ 0 \in 0 .. Initial
  BY RingAssumption
<1>2. \A k \in 0 .. Initial - 1 : Cell(0, k, Initial) = k /\ ~(k < 0)
  BY <1>1 DEF Cell
<1>3. Holds(items, head, count, Initial)
  BY <1>1, <1>2 DEF Holds, RingInit
<1>4. Contents = <<>>
  BY DEF Contents, RingInit
<1> QED BY <1>3, <1>4 DEF RingInv, Queue!Init, RingInit

LEMMA AddLastStep ==
  ASSUME RingInv, NEW x \in Items, AddLast(x)
  PROVE  RingInv' /\ Queue!Add
<1>1. PICK n : Holds(items, head, count, n)
  BY DEF RingInv
<1>2. /\ n \in Nat \ {0} /\ head \in 0 .. n - 1 /\ count \in 0 .. n
  BY <1>1 DEF Holds
<1>3. Length(items) = n /\ Contents = Listed(items, head, count, n)
  BY <1>1, ContentsListed
<1>4. \E m : Holds(items', head', count', m) /\ Listed(items', head', count', m) = Append(Contents, x)
  <2>1. CASE count # n
    <3>1. items' = [items EXCEPT ![(head + count) % n] = x] /\ head' = head /\ count' = count + 1
      BY <1>3, <2>1 DEF AddLast, Store
    <3>2. count < n /\ (head + count) % n = Cell(head, count, n)
      BY <1>2, <2>1, CellIs
    <3>3. Changed(items, items', Cell(head, count, n), x, n)
      BY <1>1, <3>1, <3>2 DEF Holds, Changed
    <3>4. /\ Holds(items', head, count + 1, n)
          /\ Listed(items', head, count + 1, n) = Append(Listed(items, head, count, n), x)
      BY <1>1, <3>2, <3>3, AddKeeps
    <3> QED BY <1>3, <3>1, <3>4
  <2>2. CASE count = n
    <3>1. PICK b : b = [i \in 0 .. 2 * n - 1 |-> IF i < n THEN items[Cell(head, i, n)] ELSE None]
      OBVIOUS
    <3>2. Bigger = b
      <4>1. \A i \in 0 .. 2 * n - 1 : i < n => (head + i) % n = Cell(head, i, n)
        <5> TAKE i \in 0 .. 2 * n - 1
        <5>1. i < n => i \in 0 .. n
          BY <1>2
        <5> QED BY <1>2, <5>1, CellIs
      <4> QED BY <1>3, <2>2, <3>1, <4>1 DEF Bigger
    <3>3. Holds(b, 0, n, 2 * n) /\ Listed(b, 0, n, 2 * n) = Listed(items, head, n, n)
      BY <1>1, <2>2, <3>1, GrowKeeps
    <3>4. PICK m : m = 2 * n
      OBVIOUS
    <3>5. m \in Nat \ {0} /\ DOMAIN b = 0 .. m - 1 /\ n < m /\ n \in 0 .. m /\ 0 \in 0 .. m - 1
      BY <1>2, <3>1, <3>4
    <3>6. Length(b) = m
      BY <3>5, LengthIs
    <3>7. items' = [b EXCEPT ![(0 + n) % m] = x] /\ head' = 0 /\ count' = n + 1
      BY <1>3, <2>2, <3>2, <3>6 DEF AddLast, Store
    <3>8. (0 + n) % m = Cell(0, n, m)
      BY <3>5, CellIs
    <3>9. Holds(b, 0, n, m) /\ Listed(b, 0, n, m) = Listed(items, head, n, n)
      BY <3>3, <3>4
    <3>10. Changed(b, items', Cell(0, n, m), x, m)
      BY <3>7, <3>8, <3>9 DEF Holds, Changed
    <3>11. /\ Holds(items', 0, n + 1, m)
           /\ Listed(items', 0, n + 1, m) = Append(Listed(b, 0, n, m), x)
      BY <3>5, <3>9, <3>10, AddKeeps
    <3> QED BY <1>3, <2>2, <3>7, <3>9, <3>11
  <2> QED BY <2>1, <2>2
<1>5. PICK m : Holds(items', head', count', m) /\ Listed(items', head', count', m) = Append(Contents, x)
  BY <1>4
<1>6. Contents' = Append(Contents, x)
  BY <1>5, ContentsListedNext
<1> QED BY <1>5, <1>6 DEF RingInv, Queue!Add, AddLast

LEMMA RemoveFirstStep ==
  ASSUME RingInv, RemoveFirstOrNull
  PROVE  RingInv' /\ (Queue!Take \/ Queue!TakeNothing)
<1>1. PICK n : Holds(items, head, count, n)
  BY DEF RingInv
<1>2. /\ n \in Nat \ {0} /\ head \in 0 .. n - 1 /\ count \in 0 .. n
  BY <1>1 DEF Holds
<1>3. Length(items) = n /\ Contents = Listed(items, head, count, n)
  BY <1>1, ContentsListed
<1>4. CASE count = 0
  <2>1. UNCHANGED <<items, head, count>> /\ taken' = None
    BY <1>4 DEF RemoveFirstOrNull
  <2>2. Contents = <<>> /\ Contents' = Contents
    BY <1>4, <2>1 DEF Contents, Length
  <2> QED BY <1>1, <2>1, <2>2 DEF RingInv, Queue!TakeNothing
<1>5. CASE count # 0
  <2>1. /\ taken' = items[head] /\ items' = [items EXCEPT ![head] = None]
        /\ head' = (head + 1) % n /\ count' = count - 1
    BY <1>3, <1>5 DEF RemoveFirstOrNull
  <2>2. 1 \in 0 .. n
    BY <1>2
  <2>3. head' = Cell(head, 1, n)
    BY <1>2, <2>1, <2>2, CellIs
  <2>7. Changed(items, items', head, None, n)
    BY <1>1, <2>1 DEF Holds, Changed
  <2>4. /\ Holds(items', Cell(head, 1, n), count - 1, n)
        /\ Listed(items, head, count, n) # <<>> /\ items[head] = Head(Listed(items, head, count, n))
        /\ Listed(items', Cell(head, 1, n), count - 1, n) = Tail(Listed(items, head, count, n))
    BY <1>1, <1>5, <2>7, TakeKeeps
  <2>5. Holds(items', head', count', n) /\ Listed(items', head', count', n) = Tail(Contents)
    BY <1>3, <2>1, <2>3, <2>4
  <2>6. Contents' = Tail(Contents)
    BY <2>5, ContentsListedNext
  <2> QED BY <1>3, <2>1, <2>4, <2>5, <2>6 DEF RingInv, Queue!Take
<1> QED BY <1>4, <1>5

LEMMA ClearStep ==
  ASSUME RingInv, ClearRing
  PROVE  RingInv' /\ Queue!Empty
<1>1. PICK n : Holds(items, head, count, n)
  BY DEF RingInv
<1>2. /\ n \in Nat \ {0} /\ head \in 0 .. n - 1 /\ count \in 0 .. n /\ DOMAIN items = 0 .. n - 1
  BY <1>1 DEF Holds
<1>3. Length(items) = n
  BY <1>1, ContentsListed
<1>4. \A k \in 0 .. count - 1 : (head + k) % n = Cell(head, k, n)
  <2> TAKE k \in 0 .. count - 1
  <2>1. k \in 0 .. n
    BY <1>2
  <2> QED BY <1>2, <2>1, CellIs
<1>5. items' = [i \in 0 .. n - 1 |-> IF \E k \in 0 .. count - 1 : i = Cell(head, k, n) THEN None ELSE items[i]]
  BY <1>2, <1>3, <1>4 DEF ClearRing, ClearedUpTo
<1>6. Holds(items', 0, 0, n)
  BY <1>1, <1>5, ClearKeeps
<1>7. Contents' = <<>>
  BY DEF ClearRing, Contents
<1> QED BY <1>6, <1>7 DEF RingInv, Queue!Empty, ClearRing

LEMMA RingForgets ==
  ASSUME RingInv
  PROVE  NoStaleItems
<1>1. PICK n : Holds(items, head, count, n)
  BY DEF RingInv
<1>2. /\ n \in Nat \ {0} /\ head \in 0 .. n - 1 /\ count \in 0 .. n /\ DOMAIN items = 0 .. n - 1
  BY <1>1 DEF Holds
<1>3. Length(items) = n
  BY <1>1, ContentsListed
<1>4. ASSUME NEW i \in 0 .. n - 1, items[i] # None
      PROVE  \E k \in 0 .. count - 1 : i = (head + k) % n
  <2>1. PICK k \in 0 .. n - 1 : i = Cell(head, k, n)
    BY <1>2, CellsAll
  <2>2. k < count
    BY <1>1, <1>4, <2>1 DEF Holds
  <2>3. k \in 0 .. n /\ k \in 0 .. count - 1
    BY <1>2, <2>2
  <2>4. (head + k) % n = Cell(head, k, n)
    BY <1>2, <2>3, CellIs
  <2> QED BY <2>1, <2>3, <2>4
<1>5. ASSUME NEW k \in 0 .. count - 1
      PROVE  (head + k) % n \in 0 .. n - 1 /\ items[(head + k) % n] # None
  <2>1. k \in 0 .. n /\ k \in 0 .. n - 1 /\ k < count
    BY <1>2
  <2>2. (head + k) % n = Cell(head, k, n) /\ Cell(head, k, n) \in 0 .. n - 1
    BY <1>2, <2>1, CellIs
  <2>3. items[Cell(head, k, n)] \in Items
    BY <1>1, <2>1 DEF Holds
  <2> QED BY <2>2, <2>3, RingAssumption
<1>6. {i \in 0 .. n - 1 : items[i] # None} = {(head + k) % n : k \in 0 .. count - 1}
  BY <1>4, <1>5
<1> QED BY <1>2, <1>3, <1>6 DEF NoStaleItems

(* Ring.kt's "minimal FIFO ring": for every set of items, every first size *)
(* and every number of calls, addLast with its doubling of a wrapped       *)
(* array, removeFirstOrNull and clear are the operations of an unbounded   *)
(* first-in first-out queue, and no cell outside the live range keeps a    *)
(* reference to an item that left.                                         *)
THEOREM RingImplementsFifo == RingSpec => RingIsFifo
<1>1. RingInit => RingInv /\ Queue!Init
  BY RingStarts
<1>2. ASSUME RingInv, [RingNext]_ringVars
      PROVE  RingInv' /\ [Queue!Add \/ Queue!Take \/ Queue!TakeNothing \/ Queue!Empty]_(Queue!vars)
  <2>1. ASSUME NEW x \in Items, AddLast(x) PROVE RingInv' /\ Queue!Add
    BY <1>2, <2>1, AddLastStep
  <2>2. CASE RemoveFirstOrNull
    BY <1>2, <2>2, RemoveFirstStep
  <2>3. CASE ClearRing
    BY <1>2, <2>3, ClearStep
  <2>4. CASE UNCHANGED ringVars
    <3>1. items' = items /\ head' = head /\ count' = count /\ taken' = taken
      BY <2>4 DEF ringVars
    <3>2. Contents' = Contents
      BY <3>1 DEF Contents, Length
    <3>3. RingInv'
      BY <1>2, <3>1 DEF RingInv
    <3> QED BY <3>1, <3>2, <3>3 DEF Queue!vars
  <2> QED BY <1>2, <2>1, <2>2, <2>3, <2>4 DEF RingNext
<1>3. RingInv => NoStaleItems
  BY RingForgets
<1> QED BY <1>1, <1>2, <1>3, PTL DEF RingSpec, RingIsFifo, Queue!Spec

-----------------------------------------------------------------------------
(* The size of the first frames of a stream *)

Adds(f, z, n) == f = [k \in 0 .. n |-> IF k = 0 THEN 0 ELSE f[k - 1] + z[k]]

(* The recursion of UpTo has a solution. *)
LEMMA SumExists ==
  ASSUME NEW z, NEW N \in Nat, \A k \in 1 .. N : z[k] \in Nat
  PROVE  \E f : Adds(f, z, N)
<1> DEFINE G == {n \in Nat : n <= N => \E f : Adds(f, z, n)}
<1>1. 0 \in G
  <2> DEFINE f == [k \in 0 .. 0 |-> 0]
  <2>1. f = [k \in 0 .. 0 |-> IF k = 0 THEN 0 ELSE f[k - 1] + z[k]]
    OBVIOUS
  <2> HIDE DEF f
  <2>2. Adds(f, z, 0)
    BY <2>1 DEF Adds
  <2> QED BY <2>2
<1>2. ASSUME NEW n \in Nat, n \in G PROVE n + 1 \in G
  <2>1. SUFFICES ASSUME n + 1 <= N PROVE \E f : Adds(f, z, n + 1)
    OBVIOUS
  <2>2. PICK f : Adds(f, z, n)
    BY <1>2, <2>1
  <2>3. \A k \in 0 .. n : f[k] = IF k = 0 THEN 0 ELSE f[k - 1] + z[k]
    BY <2>2 DEF Adds
  <2> DEFINE g == [k \in 0 .. n + 1 |-> IF k = n + 1 THEN f[n] + z[n + 1] ELSE f[k]]
  <2>4. \A k \in 0 .. n + 1 : g[k] = IF k = 0 THEN 0 ELSE g[k - 1] + z[k]
    <3> TAKE k \in 0 .. n + 1
    <3>1. CASE k = n + 1
      <4>1. g[k] = f[n] + z[n + 1] /\ k # 0 /\ k - 1 = n /\ n \in 0 .. n + 1 /\ n # n + 1
        BY <3>1
      <4>2. g[k - 1] = f[n]
        BY <4>1
      <4> QED BY <3>1, <4>1, <4>2
    <3>2. CASE k # n + 1
      <4>1. k \in 0 .. n /\ g[k] = f[k]
        BY <3>2
      <4>2. k # 0 => k - 1 \in 0 .. n + 1 /\ k - 1 # n + 1
        BY <4>1
      <4>3. k # 0 => g[k - 1] = f[k - 1]
        BY <4>2
      <4> QED BY <2>3, <4>1, <4>3
    <3> QED BY <3>1, <3>2
  <2>5. g = [k \in 0 .. n + 1 |-> g[k]]
    OBVIOUS
  <2> HIDE DEF g
  <2>6. Adds(g, z, n + 1)
    BY <2>4, <2>5, Zenon DEF Adds
  <2> QED BY <2>6
<1> HIDE DEF G
<1>3. N \in G
  BY <1>1, <1>2, NumberInduction
<1> QED BY <1>3 DEF G

Sizes(z) == z = [k \in 1 .. Len(frames) |-> WireSize(frames[k])]

LEMMA UpToIs ==
  ASSUME NEW z, Sizes(z), Len(frames) \in Nat, \A k \in 1 .. Len(frames) : z[k] \in Nat
  PROVE  \E f : Adds(f, z, Len(frames)) /\ \A n : UpTo(n) = f[n]
<1>1. PICK N : N = Len(frames)
  OBVIOUS
<1>2. \E f : Adds(f, z, N)
  BY <1>1, SumExists
<1> DEFINE s == CHOOSE f : f = [k \in 0 .. Len(frames) |-> IF k = 0 THEN 0 ELSE f[k - 1] + WireSize(frames[k])]
<1>3. \A n : UpTo(n) = s[n]
  BY DEF UpTo
<1>4. \A f : Adds(f, z, N) <=> f = [k \in 0 .. Len(frames) |-> IF k = 0 THEN 0 ELSE f[k - 1] + WireSize(frames[k])]
  <2>1. \A k \in 0 .. Len(frames) : k # 0 => z[k] = WireSize(frames[k])
    BY DEF Sizes
  <2> QED BY <1>1, <2>1 DEF Adds
<1>5. Adds(s, z, N)
  BY <1>2, <1>4
<1> QED BY <1>1, <1>3, <1>5

-----------------------------------------------------------------------------
(* Frames *)

Framings == {"Packets", "LengthPrefixed", "WebSocket"}
Codecs == {"None", "ZlibNative", "ZlibJvm", "Zstd"}

LEMMA FrameIs ==
  ASSUME NEW f \in Frames
  PROVE  /\ f.binary \in BOOLEAN /\ f.valid \in BOOLEAN /\ f.sound \in BOOLEAN /\ f.codec \in Codecs
         /\ f.ext \in 0 .. MaxExt /\ f.payload \in Nat /\ f.length \in Nat /\ f.stream \in Nat /\ f.plain \in Nat
  BY DEF Frames, Codecs

LEMMA SizesAre ==
  /\ HeaderSize \in Nat \ {0} /\ PrefixSize \in Nat \ {0} /\ MaxExt \in Nat /\ MaxPayload \in Nat
  /\ MaxMessage \in Nat /\ MaxOut \in Nat /\ MaxChunk \in Nat /\ MaxFrame \in Nat
  BY SizesAssumption DEF MaxFrame

LEMMA PacketIs ==
  ASSUME NEW f \in Frames
  PROVE  /\ PacketSize(f) \in Nat /\ PacketSize(f) >= HeaderSize
         /\ f.payload <= MaxPayload => PacketSize(f) <= MaxFrame
<1>1. f.ext \in 0 .. MaxExt /\ f.payload \in Nat
  BY FrameIs
<1> QED BY <1>1, SizesAre DEF PacketSize, MaxFrame

LEMMA WireIs ==
  ASSUME NEW f \in Frames, framing \in Framings
  PROVE  /\ WireSize(f) \in Nat
         /\ framing = "Packets" => WireSize(f) = PacketSize(f)
         /\ framing = "LengthPrefixed" => WireSize(f) = PrefixSize + f.length
         /\ framing = "WebSocket" => WireSize(f) = f.length
<1>1. f.length \in Nat /\ PacketSize(f) \in Nat
  BY FrameIs, PacketIs
<1> QED BY <1>1, SizesAre DEF WireSize, Framings

LEMMA UpToFacts ==
  ASSUME frames \in Seq(Frames), framing \in Framings
  PROVE  /\ UpTo(0) = 0
         /\ \A n \in 0 .. Len(frames) : UpTo(n) \in Nat
         /\ \A n \in 0 .. Len(frames) : n # Len(frames) => UpTo(n + 1) = UpTo(n) + WireSize(frames[n + 1])
<1>1. PICK N : N = Len(frames)
  OBVIOUS
<1>2. N \in Nat /\ \A k \in 1 .. N : frames[k] \in Frames
  BY <1>1
<1>3. PICK z : z = [k \in 1 .. N |-> WireSize(frames[k])]
  OBVIOUS
<1>4. \A k \in 1 .. N : z[k] \in Nat /\ z[k] = WireSize(frames[k])
  BY <1>2, <1>3, WireIs
<1>5. Sizes(z)
  BY <1>1, <1>3 DEF Sizes
<1>6. PICK f : Adds(f, z, N) /\ \A n : UpTo(n) = f[n]
  BY <1>1, <1>2, <1>4, <1>5, UpToIs
<1>7. \A k \in 0 .. N : f[k] = IF k = 0 THEN 0 ELSE f[k - 1] + z[k]
  BY <1>6 DEF Adds
<1>8. f[0] = 0
  BY <1>2, <1>7
<1>9. \A n \in 0 .. N : f[n] \in Nat
  <2> DEFINE G == {n \in Nat : n <= N => f[n] \in Nat}
  <2>1. 0 \in G
    BY <1>8
  <2>2. ASSUME NEW n \in Nat, n \in G PROVE n + 1 \in G
    <3>1. ASSUME n + 1 <= N PROVE f[n + 1] \in Nat
      <4>1. n + 1 \in 0 .. N /\ n + 1 # 0 /\ (n + 1) - 1 = n /\ n + 1 \in 1 .. N /\ n <= N
        BY <1>2, <3>1
      <4>2. f[n + 1] = f[n] + z[n + 1]
        BY <1>7, <4>1
      <4> QED BY <1>4, <2>2, <4>1, <4>2
    <3> QED BY <3>1
  <2> HIDE DEF G
  <2>3. Nat \subseteq G
    BY <2>1, <2>2, NumberInduction
  <2>4. \A n \in 0 .. N : n \in Nat /\ n <= N
    BY <1>2
  <2> QED BY <2>3, <2>4 DEF G
<1>10. ASSUME NEW n \in 0 .. N, n # N PROVE f[n + 1] = f[n] + WireSize(frames[n + 1])
  <2>1. n + 1 \in 0 .. N /\ n + 1 # 0 /\ (n + 1) - 1 = n /\ n + 1 \in 1 .. N
    BY <1>2, <1>10
  <2>2. f[n + 1] = f[n] + z[n + 1]
    BY <1>7, <2>1
  <2> QED BY <1>4, <2>1, <2>2
<1> QED BY <1>1, <1>6, <1>8, <1>9, <1>10

LEMMA UpToSame ==
  ASSUME UNCHANGED <<framing, frames>>, NEW n
  PROVE  UpTo(n)' = UpTo(n)
  BY DEF UpTo, WireSize, PacketSize

-----------------------------------------------------------------------------
(* What the decoders answer *)

Lawful(f) == f.valid /\ f.payload <= MaxPayload

LEMMA DecodePacketIs ==
  ASSUME NEW f \in Frames, NEW n \in Nat
  PROVE  /\ DecodePacket(f, n) = "packet" => Lawful(f) /\ n >= PacketSize(f)
         /\ DecodePacket(f, n) = "need" => n < PacketSize(f) /\ n < MaxFrame
         /\ DecodePacket(f, n) = "reject" => ~Lawful(f)
         /\ DecodePacket(f, n) \in {"packet", "need", "reject"}
<1>1. f.valid \in BOOLEAN /\ f.payload \in Nat
  BY FrameIs
<1>2. /\ PacketSize(f) \in Nat /\ PacketSize(f) >= HeaderSize
      /\ f.payload <= MaxPayload => PacketSize(f) <= MaxFrame
  BY PacketIs
<1>3. HeaderSize \in Nat /\ MaxPayload \in Nat /\ MaxFrame \in Nat /\ HeaderSize <= MaxFrame
  BY SizesAre DEF MaxFrame
<1>4. CASE n < HeaderSize
  <2>1. DecodePacket(f, n) = "need"
    BY <1>3, <1>4 DEF DecodePacket
  <2> QED BY <1>2, <1>3, <1>4, <2>1
<1>5. CASE n >= HeaderSize /\ ~Lawful(f)
  <2>1. DecodePacket(f, n) = "reject"
    BY <1>1, <1>3, <1>5 DEF DecodePacket, Lawful
  <2> QED BY <1>5, <2>1
<1>6. CASE n >= HeaderSize /\ Lawful(f)
  <2>1. DecodePacket(f, n) = IF n < PacketSize(f) THEN "need" ELSE "packet"
    BY <1>1, <1>3, <1>6 DEF DecodePacket, Lawful
  <2>2. f.payload <= MaxPayload
    BY <1>6 DEF Lawful
  <2> QED BY <1>2, <1>3, <1>6, <2>1, <2>2
<1> QED BY <1>3, <1>4, <1>5, <1>6

LEMMA DecodeFrameIs ==
  ASSUME NEW f \in Frames, NEW n \in Nat
  PROVE  /\ DecodeFrame(f, n) = "packet" =>
              Lawful(f) /\ f.length = PacketSize(f) /\ n >= PrefixSize + f.length
         /\ DecodeFrame(f, n) = "need" => n < PrefixSize + f.length /\ n < PrefixSize + MaxFrame
         /\ DecodeFrame(f, n) = "reject" => ~(Lawful(f) /\ f.length = PacketSize(f))
<1>1. f.length \in Nat
  BY FrameIs
<1>2. /\ PacketSize(f) \in Nat /\ PacketSize(f) >= HeaderSize
      /\ f.payload <= MaxPayload => PacketSize(f) <= MaxFrame
  BY PacketIs
<1>3. PrefixSize \in Nat /\ HeaderSize \in Nat /\ MaxFrame \in Nat /\ MaxFrame > 0
  BY SizesAre DEF MaxFrame
<1>4. CASE n < PrefixSize
  <2>1. DecodeFrame(f, n) = "need"
    BY <1>3, <1>4 DEF DecodeFrame
  <2> QED BY <1>1, <1>3, <1>4, <2>1
<1>5. CASE n >= PrefixSize /\ f.length > MaxFrame
  <2>1. DecodeFrame(f, n) = "reject"
    BY <1>1, <1>3, <1>5 DEF DecodeFrame
  <2>2. Lawful(f) => f.length # PacketSize(f)
    BY <1>1, <1>2, <1>3, <1>5 DEF Lawful
  <2> QED BY <2>1, <2>2
<1>6. CASE n >= PrefixSize /\ f.length <= MaxFrame
  <2>1. PICK m : m = n - PrefixSize
    OBVIOUS
  <2>2. m \in Nat /\ n = PrefixSize + m
    BY <1>3, <1>6, <2>1
  <2>3. DecodeFrame(f, n) =
          IF m < f.length THEN "need"
          ELSE IF f.length < HeaderSize \/ PacketSize(f) # f.length THEN "reject"
          ELSE IF DecodePacket(f, m) = "packet" THEN "packet" ELSE "reject"
    BY <1>1, <1>3, <1>6, <2>1 DEF DecodeFrame
  <2>4. /\ DecodePacket(f, m) = "packet" => Lawful(f) /\ m >= PacketSize(f)
        /\ DecodePacket(f, m) = "need" => m < PacketSize(f) /\ m < MaxFrame
        /\ DecodePacket(f, m) = "reject" => ~Lawful(f)
        /\ DecodePacket(f, m) \in {"packet", "need", "reject"}
    BY <2>2, DecodePacketIs
  <2>5. CASE m < f.length
    BY <1>1, <1>3, <1>6, <2>2, <2>3, <2>5
  <2>6. CASE ~(m < f.length) /\ PacketSize(f) # f.length
    <3>1. DecodeFrame(f, n) = "reject"
      BY <2>3, <2>6
    <3> QED BY <2>6, <3>1
  <2>7. CASE ~(m < f.length) /\ PacketSize(f) = f.length
    <3>1. DecodeFrame(f, n) = IF DecodePacket(f, m) = "packet" THEN "packet" ELSE "reject"
      BY <1>1, <1>2, <1>3, <2>3, <2>7
    <3>2. DecodePacket(f, m) # "packet" => ~Lawful(f)
      BY <1>1, <1>2, <2>2, <2>4, <2>7
    <3>3. n >= PrefixSize + f.length
      BY <1>1, <1>3, <2>2, <2>7
    <3> QED BY <2>4, <2>7, <3>1, <3>2, <3>3
  <2> QED BY <2>5, <2>6, <2>7
<1> QED BY <1>1, <1>3, <1>4, <1>5, <1>6

(* The bytes of a frame that are not its packet. *)
Extra == IF framing = "LengthPrefixed" THEN PrefixSize ELSE 0

LEMMA VerdictIs ==
  ASSUME NEW f \in Frames, framing \in Framings, Buffered \in Nat
  PROVE  /\ Verdict(f) = "packet" =>
              /\ Lawful(f) /\ Buffered >= PacketSize(f) + Extra
              /\ framing = "LengthPrefixed" => f.length = PacketSize(f)
         /\ Verdict(f) = "need" => /\ Buffered < MaxFrame + Extra
                                   /\ framing # "WebSocket" => Buffered < WireSize(f)
                                   /\ framing = "WebSocket" => Buffered < PacketSize(f)
         /\ Verdict(f) = "reject" => ~(Lawful(f) /\ (framing = "LengthPrefixed" => f.length = PacketSize(f)))
<1>1. /\ WireSize(f) \in Nat
      /\ framing = "Packets" => WireSize(f) = PacketSize(f)
      /\ framing = "LengthPrefixed" => WireSize(f) = PrefixSize + f.length
  BY WireIs
<1>2. f.length \in Nat /\ PacketSize(f) \in Nat /\ PrefixSize \in Nat /\ MaxFrame \in Nat
  BY FrameIs, PacketIs, SizesAre
<1>3. PICK n \in Nat : n = Buffered
  OBVIOUS
<1>4. CASE framing = "LengthPrefixed"
  <2>1. Verdict(f) = DecodeFrame(f, n) /\ Extra = PrefixSize
    BY <1>3, <1>4 DEF Verdict, Extra
  <2>2. /\ DecodeFrame(f, n) = "packet" =>
              Lawful(f) /\ f.length = PacketSize(f) /\ n >= PrefixSize + f.length
        /\ DecodeFrame(f, n) = "need" => n < PrefixSize + f.length /\ n < PrefixSize + MaxFrame
        /\ DecodeFrame(f, n) = "reject" => ~(Lawful(f) /\ f.length = PacketSize(f))
    BY DecodeFrameIs
  <2> QED BY <1>1, <1>2, <1>3, <1>4, <2>1, <2>2
<1>5. CASE framing # "LengthPrefixed"
  <2>1. Verdict(f) = DecodePacket(f, n) /\ Extra = 0
    BY <1>3, <1>5 DEF Verdict, Extra
  <2>2. /\ DecodePacket(f, n) = "packet" => Lawful(f) /\ n >= PacketSize(f)
        /\ DecodePacket(f, n) = "need" => n < PacketSize(f) /\ n < MaxFrame
        /\ DecodePacket(f, n) = "reject" => ~Lawful(f)
    BY DecodePacketIs
  <2> QED BY <1>1, <1>2, <1>3, <1>5, <2>1, <2>2 DEF Framings
<1> QED BY <1>4, <1>5

-----------------------------------------------------------------------------
(* The decompressors *)

LEMMA LeastOfTwo ==
  ASSUME NEW a \in Int, NEW b \in Int
  PROVE  Min({a, b}) = IF a <= b THEN a ELSE b
<1>1. CASE a <= b
  <2>1. Min({a, b}) \in {a, b} /\ \A y \in {a, b} : Min({a, b}) <= y
    BY <1>1 DEF Min
  <2> QED BY <1>1, <2>1
<1>2. CASE ~(a <= b)
  <2>1. Min({a, b}) \in {a, b} /\ \A y \in {a, b} : Min({a, b}) <= y
    BY <1>2 DEF Min
  <2> QED BY <1>2, <2>1
<1> QED BY <1>1, <1>2

LEMMA RoomIs ==
  ASSUME made \in Nat, made <= MaxOut
  PROVE  Room \in Nat \ {0}
<1>1. MaxOut - made \in Int /\ MaxOut - made >= 0 /\ MaxChunk \in Nat
  BY SizesAre
<1>2. PICK a, b : a = MaxOut - made /\ b = MaxChunk
  OBVIOUS
<1>3. a \in Int /\ b \in Int /\ a >= 0 /\ b >= 0
  BY <1>1, <1>2
<1>4. Min({a, b}) = IF a <= b THEN a ELSE b
  BY <1>3, LeastOfTwo
<1> QED BY <1>2, <1>3, <1>4 DEF Room

-----------------------------------------------------------------------------
(* The inductive invariant *)

StreamTypes ==
  /\ framing \in Framings /\ frames \in Seq(Frames)
  /\ arrived \in Nat /\ consumed \in Nat /\ eaten \in Nat /\ made \in Nat
  /\ decoded \in Nat /\ decoded <= Len(frames)
  /\ delivered \in Seq(Nat)
  /\ pc \in {"decode", "read", "inflate", "rejected", "end"}

(* The decoder stands at the first byte of a frame.  Of a byte stream any  *)
(* part may have arrived; of a WebSocket there is one whole message, or    *)
(* nothing, in the buffer.                                                 *)
Placed ==
  /\ consumed = UpTo(decoded) /\ consumed <= arrived
  /\ framing # "WebSocket" => arrived <= UpTo(Len(frames))
  /\ framing = "WebSocket" /\ arrived # consumed =>
       /\ pc \in {"decode", "rejected"} /\ decoded # Len(frames)
       /\ OnePacket(Current) /\ Buffered = PacketSize(Current)
  /\ framing = "WebSocket" /\ pc = "read" => decoded # Len(frames)

(* Every packet the decoder returned was handed on, the one that is being  *)
(* decompressed excepted.                                                  *)
Handed ==
  /\ \A i \in 1 .. Len(delivered) : delivered[i] = i
  /\ Len(delivered) <= decoded
  /\ pc \in {"decode", "read", "end"} => Len(delivered) = decoded
  /\ pc = "inflate" => decoded # 0 /\ Len(delivered) = decoded - 1

(* The loop waits for the socket only when the frame at hand is incomplete *)
(* and of a size it would take.                                            *)
Waiting ==
  /\ pc \in {"read", "end"} /\ Buffered > 0 => arrived < UpTo(decoded + 1)
  /\ pc = "read" => Buffered < MaxFrame + Extra

Strict ==
  /\ \A i \in 1 .. Len(delivered) : Acceptable(frames[i])
  /\ pc = "rejected" =>
       ~Acceptable(frames[Len(delivered) + 1]) \/ EmptyOnJvm(frames[Len(delivered) + 1])
  /\ pc = "inflate" => Lawful(Packed) /\ Framed(Packed) /\ Packed.codec # "None"

(* A decompressor that was given a whole stream stops short of its end,    *)
(* unless it has not started: the one case in which there is nothing left  *)
(* to produce and the JVM takes that for a truncated payload.              *)
Inflating ==
  /\ made <= MaxOut
  /\ pc = "inflate" =>
       /\ made <= Packed.plain
       /\ Packed.payload >= Packed.stream => made < Packed.plain \/ made = 0

StreamInv == StreamTypes /\ Placed /\ Handed /\ Waiting /\ Strict /\ Inflating

LEMMA StreamInvInit == StreamInit => StreamInv
<1> SUFFICES ASSUME StreamInit PROVE StreamInv
  OBVIOUS
<1>1. framing \in Framings /\ frames \in Seq(Frames)
  BY StreamsAssumption DEF StreamInit, Framings
<1>2. UpTo(0) = 0 /\ \A n \in 0 .. Len(frames) : UpTo(n) \in Nat
  BY <1>1, UpToFacts
<1>3. Len(frames) \in Nat
  BY <1>1
<1>4. UpTo(Len(frames)) \in Nat
  BY <1>2, <1>3
<1>5. /\ arrived = 0 /\ consumed = 0 /\ decoded = 0 /\ delivered = <<>> /\ pc = "decode"
      /\ eaten = 0 /\ made = 0
  BY DEF StreamInit
<1>6. Len(delivered) = 0 /\ delivered \in Seq(Nat)
  BY <1>5
<1>7. StreamTypes
  BY <1>1, <1>3, <1>5, <1>6 DEF StreamTypes
<1>8. Placed
  BY <1>2, <1>4, <1>5 DEF Placed
<1>9. Handed /\ Waiting /\ Strict
  BY <1>5, <1>6 DEF Handed, Waiting, Strict
<1>10. Inflating
  BY <1>5, SizesAre DEF Inflating
<1> QED BY <1>7, <1>8, <1>9, <1>10 DEF StreamInv

(* While there is something in the buffer there is a frame it belongs to. *)
LEMMA FrameAhead ==
  ASSUME StreamTypes, Placed, Buffered > 0
  PROVE  /\ decoded + 1 \in 1 .. Len(frames) /\ Current \in Frames
         /\ UpTo(decoded + 1) = consumed + WireSize(Current)
<1>1. /\ framing \in Framings /\ frames \in Seq(Frames) /\ decoded \in Nat /\ decoded <= Len(frames)
      /\ arrived \in Nat /\ consumed \in Nat /\ Len(frames) \in Nat
  BY DEF StreamTypes
<1>2. /\ \A n \in 0 .. Len(frames) : UpTo(n) \in Nat
      /\ \A n \in 0 .. Len(frames) : n # Len(frames) => UpTo(n + 1) = UpTo(n) + WireSize(frames[n + 1])
  BY <1>1, UpToFacts
<1>3. arrived > consumed
  BY <1>1 DEF Buffered
<1>4. decoded # Len(frames)
  <2>1. CASE framing = "WebSocket"
    BY <1>1, <1>3, <2>1 DEF Placed
  <2>2. CASE framing # "WebSocket"
    BY <1>1, <1>3, <2>2 DEF Placed
  <2> QED BY <2>1, <2>2
<1>5. decoded \in 0 .. Len(frames) /\ decoded + 1 \in 1 .. Len(frames)
  BY <1>1, <1>4
<1>6. UpTo(decoded + 1) = UpTo(decoded) + WireSize(frames[decoded + 1])
  BY <1>2, <1>4, <1>5
<1> QED BY <1>1, <1>5, <1>6 DEF Placed, Current

(* What a frame is judged by does not change while the stream is read. *)
LEMMA JudgedTheSame ==
  ASSUME UNCHANGED framing, NEW f
  PROVE  /\ Acceptable(f)' <=> Acceptable(f)
         /\ Framed(f)' <=> Framed(f)
         /\ PacketSize(f)' = PacketSize(f)
         /\ OnePacket(f)' <=> OnePacket(f)
         /\ Lawful(f)' <=> Lawful(f)
         /\ EmptyOnJvm(f)' <=> EmptyOnJvm(f)
  BY DEF Acceptable, Framed, Inflatable, PacketSize, OnePacket, Lawful, EmptyOnJvm

(* Nothing was read or consumed. *)
LEMMA SameStream ==
  ASSUME UNCHANGED <<framing, frames, arrived, consumed, decoded>>
  PROVE  /\ Buffered' = Buffered /\ Extra' = Extra /\ Current' = Current
         /\ UpTo(decoded)' = UpTo(decoded) /\ UpTo(decoded + 1)' = UpTo(decoded + 1)
         /\ UpTo(Len(frames))' = UpTo(Len(frames))
<1>1. \A n : UpTo(n)' = UpTo(n)
  BY UpToSame
<1>2. PICK d, l : d = decoded /\ l = Len(frames)
  OBVIOUS
<1>3. d = decoded' /\ l = Len(frames')
  BY <1>2
<1>4. UpTo(d)' = UpTo(d) /\ UpTo(d + 1)' = UpTo(d + 1) /\ UpTo(l)' = UpTo(l)
  BY <1>1
<1>5. Buffered' = Buffered /\ Extra' = Extra /\ Current' = Current
  BY DEF Buffered, Extra, Current
<1> QED BY <1>2, <1>3, <1>4, <1>5

LEMMA NeedsStep ==
  ASSUME StreamInv, DecodeNeeds
  PROVE  StreamInv'
<1>1. StreamTypes /\ Placed /\ Handed /\ Waiting /\ Strict /\ Inflating
  BY DEF StreamInv
<1>2. /\ pc = "decode" /\ pc' = (IF Exhausted THEN "end" ELSE "read")
      /\ Buffered = 0 \/ Verdict(Current) = "need"
      /\ framing' = framing /\ frames' = frames /\ arrived' = arrived /\ consumed' = consumed
      /\ decoded' = decoded /\ delivered' = delivered /\ eaten' = eaten /\ made' = made
  BY DEF DecodeNeeds
<1>3. /\ framing \in Framings /\ decoded \in Nat /\ arrived \in Nat /\ consumed \in Nat /\ consumed <= arrived
      /\ pc' \in {"end", "read"}
  BY <1>1, <1>2 DEF StreamTypes, Placed
<1>4. Buffered \in Nat /\ (Buffered = 0 <=> arrived = consumed)
  BY <1>3 DEF Buffered
<1>5. ASSUME Buffered > 0
      PROVE  /\ Buffered < MaxFrame + Extra /\ framing # "WebSocket"
             /\ arrived < UpTo(decoded + 1)
  <2>1. PICK f : f = Current
    OBVIOUS
  <2>2. f \in Frames /\ UpTo(decoded + 1) = consumed + WireSize(f)
    BY <1>1, <1>5, <2>1, FrameAhead
  <2>3. Verdict(f) = "need"
    BY <1>2, <1>4, <1>5, <2>1
  <2>4. /\ Buffered < MaxFrame + Extra
        /\ framing # "WebSocket" => Buffered < WireSize(f)
        /\ framing = "WebSocket" => Buffered < PacketSize(f)
    BY <1>3, <1>4, <2>2, <2>3, VerdictIs
  <2>5. framing # "WebSocket"
    <3>1. ASSUME framing = "WebSocket" PROVE FALSE
      <4>1. Buffered = PacketSize(f)
        BY <1>1, <1>4, <1>5, <2>1, <3>1 DEF Placed
      <4> QED BY <1>4, <2>4, <3>1, <4>1
    <3> QED BY <3>1
  <2>6. WireSize(f) \in Nat
    BY <1>3, <2>2, WireIs
  <2> QED BY <1>3, <2>2, <2>4, <2>5, <2>6 DEF Buffered
<1>7. /\ Buffered' = Buffered /\ Extra' = Extra /\ Current' = Current
      /\ UpTo(decoded)' = UpTo(decoded) /\ UpTo(decoded + 1)' = UpTo(decoded + 1)
      /\ UpTo(Len(frames))' = UpTo(Len(frames))
  BY <1>2, SameStream
<1>8. StreamTypes'
  BY <1>1, <1>2 DEF StreamTypes
<1>9. Placed'
  <2>1. arrived # consumed => framing # "WebSocket"
    BY <1>4, <1>5
  <2>2. framing = "WebSocket" /\ pc' = "read" => decoded # Len(frames)
    BY <1>2 DEF Exhausted
  <2> QED BY <1>1, <1>2, <1>7, <2>1, <2>2 DEF Placed
<1>10. Handed'
  BY <1>1, <1>2, <1>3 DEF Handed
<1>11. Waiting'
  <2>1. MaxFrame' = MaxFrame /\ MaxFrame > 0 /\ MaxFrame \in Nat
    BY SizesAre DEF MaxFrame
  <2>2. Extra \in Nat
    BY SizesAre DEF Extra
  <2>3. Buffered < MaxFrame + Extra
    BY <1>4, <1>5, <2>1, <2>2
  <2>4. Buffered > 0 => arrived < UpTo(decoded + 1)
    BY <1>5
  <2> QED BY <1>2, <1>3, <1>7, <2>1, <2>3, <2>4 DEF Waiting
<1>12. Strict'
  BY <1>1, <1>2, <1>3, JudgedTheSame DEF Strict
<1>13. Inflating'
  BY <1>1, <1>2, <1>3 DEF Inflating
<1> QED BY <1>8, <1>9, <1>10, <1>11, <1>12, <1>13 DEF StreamInv

LEMMA RejectsStep ==
  ASSUME StreamInv, DecodeRejects
  PROVE  StreamInv'
<1>1. StreamTypes /\ Placed /\ Handed /\ Waiting /\ Strict /\ Inflating
  BY DEF StreamInv
<1>2. /\ pc = "decode" /\ pc' = "rejected" /\ Buffered > 0 /\ Verdict(Current) = "reject"
      /\ framing' = framing /\ frames' = frames /\ arrived' = arrived /\ consumed' = consumed
      /\ decoded' = decoded /\ delivered' = delivered /\ eaten' = eaten /\ made' = made
  BY DEF DecodeRejects
<1>3. /\ framing \in Framings /\ decoded \in Nat /\ arrived \in Nat /\ consumed \in Nat /\ consumed <= arrived
      /\ Len(delivered) = decoded
  BY <1>1, <1>2 DEF StreamTypes, Placed, Handed
<1>4. Buffered \in Nat
  BY <1>3 DEF Buffered
<1>5. PICK f : f = Current
  OBVIOUS
<1>6. f \in Frames
  BY <1>1, <1>2, <1>5, FrameAhead
<1>7. ~(Lawful(f) /\ (framing = "LengthPrefixed" => f.length = PacketSize(f)))
  BY <1>2, <1>3, <1>4, <1>5, <1>6, VerdictIs
<1>8. ~Acceptable(f)
  BY <1>3, <1>7 DEF Acceptable, Lawful, Framed, Framings
<1>9. StreamTypes'
  BY <1>1, <1>2 DEF StreamTypes
<1>10. Placed'
  BY <1>1, <1>2, SameStream, JudgedTheSame DEF Placed
<1>11. Handed' /\ Waiting'
  BY <1>1, <1>2, <1>3 DEF Handed, Waiting
<1>12. Strict'
  <2>1. f = frames'[Len(delivered)' + 1]
    BY <1>2, <1>3, <1>5 DEF Current
  <2>2. ~Acceptable(f)'
    BY <1>2, <1>8, JudgedTheSame
  <2>3. \A i \in 1 .. Len(delivered) : Acceptable(frames[i])'
    BY <1>1, <1>2, JudgedTheSame DEF Strict
  <2> QED BY <1>2, <2>1, <2>2, <2>3 DEF Strict
<1>13. Inflating'
  BY <1>1, <1>2 DEF Inflating
<1> QED BY <1>9, <1>10, <1>11, <1>12, <1>13 DEF StreamInv

LEMMA ReturnsStep ==
  ASSUME StreamInv, DecodeReturns
  PROVE  StreamInv'
<1>1. StreamTypes /\ Placed /\ Handed /\ Waiting /\ Strict /\ Inflating
  BY DEF StreamInv
<1>2. /\ pc = "decode" /\ Buffered > 0 /\ Verdict(Current) = "packet"
      /\ framing' = framing /\ frames' = frames /\ arrived' = arrived
      /\ consumed' = consumed + PacketSize(Current) + Extra
      /\ decoded' = decoded + 1 /\ eaten' = 0 /\ made' = 0
  BY DEF DecodeReturns, Extra
<1>3. /\ framing \in Framings /\ decoded \in Nat /\ arrived \in Nat /\ consumed \in Nat /\ consumed <= arrived
      /\ Len(delivered) = decoded /\ delivered \in Seq(Nat) /\ frames \in Seq(Frames) /\ Len(frames) \in Nat
  BY <1>1, <1>2 DEF StreamTypes, Placed, Handed
<1>4. Buffered \in Nat
  BY <1>3 DEF Buffered
<1>5. PICK f, d : f = Current /\ d = decoded + 1
  OBVIOUS
<1>6. f \in Frames /\ d \in 1 .. Len(frames) /\ UpTo(d) = consumed + WireSize(f)
  BY <1>1, <1>2, <1>5, FrameAhead
<1>7. /\ Lawful(f) /\ Buffered >= PacketSize(f) + Extra
      /\ framing = "LengthPrefixed" => f.length = PacketSize(f)
  BY <1>2, <1>3, <1>4, <1>5, <1>6, VerdictIs
<1>8. framing = "WebSocket" => OnePacket(f) /\ Buffered = PacketSize(f)
  BY <1>1, <1>2, <1>3, <1>5 DEF Placed, Buffered
<1>9. Framed(f) /\ WireSize(f) = PacketSize(f) + Extra /\ PacketSize(f) \in Nat /\ Extra \in Nat
  <2>1. /\ framing = "Packets" => WireSize(f) = PacketSize(f)
        /\ framing = "LengthPrefixed" => WireSize(f) = PrefixSize + f.length
        /\ framing = "WebSocket" => WireSize(f) = f.length
    BY <1>3, <1>6, WireIs
  <2>2. PacketSize(f) \in Nat /\ PrefixSize \in Nat
    BY <1>6, PacketIs, SizesAre
  <2>3. framing = "WebSocket" => f.length = PacketSize(f) /\ f.binary /\ f.length <= MaxMessage
    BY <1>8 DEF OnePacket
  <2>4. Framed(f)
    BY <1>3, <1>7, <2>3 DEF Framed, Framings
  <2> QED BY <1>3, <1>7, <2>1, <2>2, <2>3, <2>4 DEF Extra, Framings
<1>10. consumed' = UpTo(d)' /\ consumed' \in Nat /\ consumed' <= arrived'
       /\ (framing = "WebSocket" => consumed' = arrived')
  <2>1. UpTo(d)' = UpTo(d)
    BY <1>2, UpToSame
  <2>2. consumed' = consumed + PacketSize(f) + Extra
    BY <1>2, <1>5
  <2>3. framing = "WebSocket" => Extra = 0
    BY DEF Extra
  <2> QED BY <1>2, <1>3, <1>6, <1>7, <1>8, <1>9, <2>1, <2>2, <2>3 DEF Buffered
<1>11. \/ /\ f.codec = "None" /\ delivered' = Append(delivered, d) /\ pc' = "decode"
       \/ /\ f.codec # "None" /\ delivered' = delivered /\ pc' = "inflate"
  BY <1>2, <1>5 DEF DecodeReturns
<1>12. d = decoded' /\ f = frames[d] /\ d # 0 /\ d - 1 = decoded /\ d \in Nat /\ d <= Len(frames)
  BY <1>2, <1>3, <1>5, <1>6 DEF Current
<1>13. d \in Nat /\ Len(delivered) \in Nat /\ d = Len(delivered) + 1 /\ d = decoded'
  BY <1>3, <1>5, <1>12
<1>14. StreamTypes'
  <2>1. delivered' \in Seq(Nat) /\ pc' \in {"decode", "inflate"}
    <3>1. d \in Nat /\ delivered \in Seq(Nat)
      BY <1>3, <1>12
    <3>2. Append(delivered, d) \in Seq(Nat)
      BY <3>1
    <3> QED BY <1>11, <3>1, <3>2
  <2> QED BY <1>2, <1>3, <1>10, <1>12, <2>1 DEF StreamTypes
<1>15. Placed'
  <2>1. UpTo(decoded)' = UpTo(d)'
    BY <1>12
  <2>2. framing # "WebSocket" => arrived' <= UpTo(Len(frames))'
    <3>1. PICK l : l = Len(frames)
      OBVIOUS
    <3>2. UpTo(l)' = UpTo(l) /\ UpTo(l)' = UpTo(Len(frames))'
      BY <1>2, <3>1, UpToSame
    <3> QED BY <1>1, <1>2, <3>1, <3>2 DEF Placed
  <2> QED BY <1>2, <1>10, <1>11, <2>1, <2>2 DEF Placed
<1>16. Handed'
  <2>1. CASE f.codec = "None"
    <3>1. delivered' = Append(delivered, d) /\ pc' = "decode"
      BY <1>11, <2>1
    <3>2. Len(delivered') = d /\ delivered'[d] = d
          /\ \A i \in 1 .. Len(delivered) : delivered'[i] = delivered[i]
      BY <1>3, <1>5, <3>1
    <3>3. \A i \in 1 .. d : i = d \/ i \in 1 .. Len(delivered)
      BY <1>13
    <3>4. \A i \in 1 .. Len(delivered) : delivered[i] = i
      BY <1>1 DEF Handed
    <3>5. \A i \in 1 .. Len(delivered') : delivered'[i] = i
      BY <3>2, <3>3, <3>4
    <3> QED BY <1>12, <3>1, <3>2, <3>5 DEF Handed
  <2>2. CASE f.codec # "None"
    <3>1. delivered' = delivered /\ pc' = "inflate"
      BY <1>11, <2>2
    <3>2. \A i \in 1 .. Len(delivered) : delivered[i] = i
      BY <1>1 DEF Handed
    <3>3. decoded' # 0 /\ Len(delivered') = decoded' - 1 /\ Len(delivered') <= decoded'
      <4>1. PICK n \in Nat : n = Len(delivered)
        BY <1>13
      <4>2. Len(delivered') = n
        BY <3>1, <4>1
      <4>3. decoded' = n + 1
        BY <1>13, <4>1
      <4> QED BY <4>2, <4>3
    <3>4. \A i \in 1 .. Len(delivered') : delivered'[i] = i
      BY <3>1, <3>2
    <3> QED BY <3>1, <3>3, <3>4 DEF Handed
  <2> QED BY <2>1, <2>2
<1>17. Waiting'
  BY <1>11 DEF Waiting
<1>18. Strict'
  <2>1. \A i \in 1 .. Len(delivered) : Acceptable(frames[i])'
    BY <1>1, <1>2, JudgedTheSame DEF Strict
  <2>2. CASE f.codec = "None"
    <3>1. delivered' = Append(delivered, d) /\ pc' = "decode"
      BY <1>11, <2>2
    <3>2. Len(delivered') = d
      BY <1>3, <1>5, <3>1
    <3>3. \A i \in 1 .. d : i = d \/ i \in 1 .. Len(delivered)
      BY <1>13
    <3>4. Acceptable(f)
      BY <1>7, <1>9, <2>2 DEF Acceptable, Lawful, Inflatable
    <3>5. Acceptable(f)' /\ f = frames'[d]
      BY <1>2, <1>12, <3>4, JudgedTheSame
    <3>6. \A i \in 1 .. Len(delivered') : Acceptable(frames[i])'
      BY <2>1, <3>2, <3>3, <3>5
    <3> QED BY <3>1, <3>6 DEF Strict
  <2>3. CASE f.codec # "None"
    <3>1. delivered' = delivered /\ pc' = "inflate"
      BY <1>11, <2>3
    <3>2. Packed' = f
      BY <1>2, <1>12 DEF Packed
    <3>3. Lawful(f)' /\ Framed(f)'
      BY <1>2, <1>7, <1>9, JudgedTheSame
    <3>4. Lawful(Packed)' /\ Framed(Packed)' /\ Packed'.codec # "None"
      BY <2>3, <3>2, <3>3
    <3> QED BY <2>1, <3>1, <3>4 DEF Strict
  <2> QED BY <2>2, <2>3
<1>19. Inflating'
  <2>1. Packed' = f
    BY <1>2, <1>12 DEF Packed
  <2>2. f.plain \in Nat /\ MaxOut \in Nat
    BY <1>6, FrameIs, SizesAre
  <2> QED BY <1>2, <2>1, <2>2 DEF Inflating
<1> QED BY <1>14, <1>15, <1>16, <1>17, <1>18, <1>19 DEF StreamInv

LEMMA ReadStep ==
  ASSUME StreamInv, Read
  PROVE  StreamInv'
<1>1. StreamTypes /\ Placed /\ Handed /\ Waiting /\ Strict /\ Inflating
  BY DEF StreamInv
<1>2. /\ pc = "read" /\ pc' = "decode" /\ framing # "WebSocket"
      /\ arrived' \in arrived + 1 .. UpTo(Len(frames))
      /\ framing' = framing /\ frames' = frames /\ consumed' = consumed
      /\ decoded' = decoded /\ delivered' = delivered /\ eaten' = eaten /\ made' = made
  BY DEF Read
<1>3. /\ framing \in Framings /\ frames \in Seq(Frames) /\ Len(frames) \in Nat
      /\ arrived \in Nat /\ consumed \in Nat /\ consumed <= arrived
  BY <1>1 DEF StreamTypes, Placed
<1>4. UpTo(Len(frames)) \in Nat
  BY <1>3, UpToFacts
<1>5. arrived' \in Nat /\ arrived' > arrived /\ arrived' <= UpTo(Len(frames))
  BY <1>2, <1>3, <1>4
<1>6. StreamTypes'
  BY <1>1, <1>2, <1>5 DEF StreamTypes
<1>7. Placed'
  <2>1. PICK l, d : l = Len(frames) /\ d = decoded
    OBVIOUS
  <2>2. UpTo(l)' = UpTo(l) /\ UpTo(d)' = UpTo(d)
    BY <1>2, UpToSame
  <2>3. UpTo(Len(frames))' = UpTo(Len(frames)) /\ UpTo(decoded)' = UpTo(decoded)
    BY <1>2, <2>1, <2>2
  <2> QED BY <1>1, <1>2, <1>3, <1>5, <2>3 DEF Placed
<1>8. Handed' /\ Waiting'
  BY <1>1, <1>2 DEF Handed, Waiting
<1>9. Strict'
  BY <1>1, <1>2, JudgedTheSame DEF Strict
<1>10. Inflating'
  BY <1>1, <1>2 DEF Inflating
<1> QED BY <1>6, <1>7, <1>8, <1>9, <1>10 DEF StreamInv

LEMMA ReadMessageStep ==
  ASSUME StreamInv, ReadMessage
  PROVE  StreamInv'
<1>1. StreamTypes /\ Placed /\ Handed /\ Waiting /\ Strict /\ Inflating
  BY DEF StreamInv
<1>2. /\ pc = "read" /\ framing = "WebSocket"
      /\ framing' = framing /\ frames' = frames /\ consumed' = consumed
      /\ decoded' = decoded /\ delivered' = delivered /\ eaten' = eaten /\ made' = made
  BY DEF ReadMessage
<1>3. /\ frames \in Seq(Frames) /\ decoded \in Nat /\ decoded <= Len(frames) /\ Len(frames) \in Nat
      /\ arrived \in Nat /\ consumed \in Nat /\ decoded # Len(frames) /\ arrived = consumed
      /\ Len(delivered) = decoded
  BY <1>1, <1>2 DEF StreamTypes, Placed, Handed
<1>4. PICK f, d, l : f = Current /\ d = decoded /\ l = Len(frames)
  OBVIOUS
<1>5. f \in Frames /\ f' = Current'
  BY <1>2, <1>3, <1>4 DEF Current
<1>6. \/ OnePacket(f) /\ arrived' = arrived + f.length /\ pc' = "decode"
      \/ ~OnePacket(f) /\ arrived' = arrived /\ pc' = "rejected"
  BY <1>4 DEF ReadMessage
<1>7. f.length \in Nat /\ PacketSize(f) \in Nat /\ PacketSize(f) >= HeaderSize /\ HeaderSize \in Nat
  BY <1>5, FrameIs, PacketIs, SizesAre
<1>8. OnePacket(f) => f.length = PacketSize(f)
  BY DEF OnePacket
<1>9. UpTo(d)' = UpTo(d) /\ UpTo(decoded)' = UpTo(d)' /\ UpTo(decoded) = UpTo(d)
  BY <1>2, <1>4, UpToSame
<1>10. StreamTypes'
  BY <1>1, <1>2, <1>3, <1>6, <1>7 DEF StreamTypes
<1>11. Placed'
  <2>1. consumed' = UpTo(decoded)'
    BY <1>1, <1>2, <1>9 DEF Placed
  <2>2. consumed' <= arrived'
    BY <1>2, <1>3, <1>6, <1>7
  <2>3. CASE OnePacket(f)
    <3>1. OnePacket(f)' /\ PacketSize(f)' = PacketSize(f)
      BY <1>2, <2>3, JudgedTheSame
    <3>2. Buffered' = PacketSize(f)
      BY <1>2, <1>3, <1>6, <1>7, <1>8, <2>3 DEF Buffered
    <3>3. OnePacket(Current)' /\ Buffered' = PacketSize(Current)'
      BY <1>5, <3>1, <3>2
    <3> QED BY <1>2, <1>3, <1>6, <2>1, <2>2, <2>3, <3>3 DEF Placed
  <2>4. CASE ~OnePacket(f)
    BY <1>2, <1>3, <1>6, <2>1, <2>2, <2>4 DEF Placed
  <2> QED BY <2>3, <2>4
<1>12. Handed' /\ Waiting'
  BY <1>1, <1>2, <1>3, <1>6 DEF Handed, Waiting
<1>13. Strict'
  <2>1. \A i \in 1 .. Len(delivered) : Acceptable(frames[i])'
    BY <1>1, <1>2, JudgedTheSame DEF Strict
  <2>2. CASE OnePacket(f)
    BY <1>2, <1>6, <2>1, <2>2 DEF Strict
  <2>3. CASE ~OnePacket(f)
    <3>1. ~Acceptable(f)
      BY <1>2, <1>7, <2>3 DEF Acceptable, Framed, OnePacket
    <3>2. ~Acceptable(f)' /\ f = frames'[Len(delivered)' + 1]
      BY <1>2, <1>3, <1>4, <3>1, JudgedTheSame DEF Current
    <3>3. pc' = "rejected"
      BY <1>6, <2>3
    <3> QED BY <1>2, <2>1, <3>2, <3>3 DEF Strict
  <2> QED BY <2>2, <2>3
<1>14. Inflating'
  BY <1>1, <1>2, <1>6 DEF Inflating
<1> QED BY <1>10, <1>11, <1>12, <1>13, <1>14 DEF StreamInv

(* What one call of a codec that was given a whole stream does: it moves   *)
(* as long as there is something left to produce.                          *)
LEMMA CodecCallIs ==
  ASSUME StreamInv, pc = "inflate", NEW e \in Nat, NEW p \in Nat, CodecCall(Room, e, p)
  PROVE  /\ made + p <= Packed.plain
         /\ Packed.payload >= Packed.stream => (made + p = Packed.plain => Ended(e, p))
         /\ Packed.payload >= Packed.stream => (p = 0 => made = Packed.plain)
<1>1. made \in Nat /\ made <= MaxOut /\ made <= Packed.plain
  BY DEF StreamInv, StreamTypes, Inflating
<1>2. PICK r \in Nat \ {0} : r = Room
  BY <1>1, RoomIs
<1>3. PICK f : f = Packed
  OBVIOUS
<1>4. f \in Frames
  <2>1. frames \in Seq(Frames) /\ decoded \in 1 .. Len(frames)
    BY DEF StreamInv, StreamTypes, Handed
  <2> QED BY <1>3, <2>1 DEF Packed
<1>5. f.plain \in Nat /\ f.payload \in Nat /\ f.stream \in Nat
  BY <1>4, FrameIs
<1>6. PICK a \in Nat : a = f.plain - made
  BY <1>1, <1>3, <1>5
<1>7. Min({r, a}) = IF r <= a THEN r ELSE a
  BY <1>2, <1>6, LeastOfTwo
<1>8. /\ made + p <= f.plain
      /\ f.payload >= f.stream => p = Min({r, a}) /\ (made + p = f.plain => Ended(e, p))
  BY <1>2, <1>3, <1>6 DEF CodecCall
<1>9. f.payload >= f.stream => (p = 0 => a = 0)
  BY <1>2, <1>6, <1>7, <1>8
<1> QED BY <1>1, <1>3, <1>5, <1>6, <1>8, <1>9

(* The frame a decompressor works on. *)
LEMMA PackedIs ==
  ASSUME StreamInv, pc = "inflate"
  PROVE  /\ Packed \in Frames /\ Packed.codec # "None" /\ Lawful(Packed) /\ Framed(Packed)
         /\ Packed = frames[Len(delivered) + 1] /\ decoded \in 1 .. Len(frames)
         /\ decoded = Len(delivered) + 1 /\ Len(delivered) \in Nat
<1>1. /\ frames \in Seq(Frames) /\ decoded \in 1 .. Len(frames) /\ delivered \in Seq(Nat)
      /\ Len(delivered) = decoded - 1
  BY DEF StreamInv, StreamTypes, Handed
<1>2. Len(delivered) \in Nat /\ decoded = Len(delivered) + 1
  BY <1>1
<1> QED BY <1>1, <1>2 DEF StreamInv, Strict, Packed

LEMMA InflateRejectsStep ==
  ASSUME StreamInv, InflateRejects
  PROVE  StreamInv'
<1>1. StreamTypes /\ Placed /\ Handed /\ Waiting /\ Strict /\ Inflating
  BY DEF StreamInv
<1>2. /\ pc = "inflate" /\ pc' = "rejected"
      /\ framing' = framing /\ frames' = frames /\ arrived' = arrived /\ consumed' = consumed
      /\ decoded' = decoded /\ delivered' = delivered /\ eaten' = eaten /\ made' = made
  BY DEF InflateRejects
<1>3. PICK f : f = Packed
  OBVIOUS
<1>4. f \in Frames /\ f.codec # "None" /\ f = frames[Len(delivered) + 1]
  BY <1>2, <1>3, PackedIs
<1>5. /\ f.plain \in Nat /\ f.payload \in Nat /\ f.stream \in Nat /\ f.codec \in Codecs
      /\ MaxOut \in Nat
  BY <1>4, FrameIs, SizesAre
<1>6. ~Acceptable(f) \/ EmptyOnJvm(f)
  <2>1. SUFFICES ASSUME Acceptable(f), ~EmptyOnJvm(f) PROVE FALSE
    OBVIOUS
  <2>2. f.sound /\ f.payload > 0 /\ f.payload = f.stream /\ f.plain <= MaxOut
    BY <1>4, <2>1 DEF Acceptable, Inflatable
  <2>3. made \in Nat /\ Room \in Nat /\ eaten \in Nat
    BY <1>1, RoomIs DEF StreamTypes, Inflating
  <2>4. PICK e \in 0 .. f.payload, p \in 0 .. Room :
          CodecCall(Room, e, p) /\ (Exceeds(p) \/ Turn(e, p) = "reject")
    BY <1>3, <1>5, <2>2 DEF InflateRejects
  <2>5. e \in Nat /\ p \in Nat
    BY <1>5, <2>3, <2>4
  <2>6. /\ made + p <= f.plain /\ (made + p = f.plain => Ended(e, p))
        /\ p = 0 => made = f.plain
    <3>1. Packed.payload >= Packed.stream
      BY <1>3, <1>5, <2>2
    <3> QED BY <1>2, <1>3, <2>4, <2>5, <3>1, CodecCallIs
  <2>7. ~Exceeds(p)
    BY <1>5, <2>2, <2>3, <2>5, <2>6 DEF Exceeds
  <2>8. Turn(e, p) = "reject"
    BY <2>4, <2>7
  <2>9. Ended(e, p) => eaten + e = f.payload
    BY <1>3, <2>2 DEF Ended
  <2>10. p = 0 => Ended(e, p) /\ made = f.plain
    BY <1>5, <2>3, <2>6
  <2>11. CASE f.codec = "ZlibNative"
    <3>1. Turn(e, p) = ZlibNativeTurn(e, p)
      BY <1>3, <2>11 DEF Turn
    <3> QED BY <1>3, <1>5, <2>8, <2>9, <2>10, <3>1 DEF ZlibNativeTurn
  <2>12. CASE f.codec = "ZlibJvm"
    <3>1. Turn(e, p) = ZlibJvmTurn(e, p)
      BY <1>3, <2>12 DEF Turn
    <3>2. p = 0
      BY <1>3, <1>5, <2>8, <2>9, <3>1 DEF ZlibJvmTurn
    <3>3. made < f.plain \/ made = 0
      BY <1>1, <1>2, <1>3, <1>5, <2>2 DEF Inflating
    <3>4. f.plain = 0
      BY <1>5, <2>3, <2>10, <3>2, <3>3
    <3> QED BY <2>1, <2>12, <3>4 DEF EmptyOnJvm
  <2>13. CASE f.codec = "Zstd"
    <3>1. Turn(e, p) = ZstdTurn(e, p)
      BY <1>3, <2>13 DEF Turn
    <3> QED BY <1>3, <1>5, <2>8, <2>9, <2>10, <3>1 DEF ZstdTurn
  <2> QED BY <1>4, <1>5, <2>11, <2>12, <2>13 DEF Codecs
<1>7. StreamTypes'
  BY <1>1, <1>2 DEF StreamTypes
<1>8. Placed'
  <2>1. framing = "WebSocket" => arrived = consumed
    BY <1>1, <1>2 DEF Placed
  <2> QED BY <1>1, <1>2, <2>1, SameStream DEF Placed
<1>9. Handed' /\ Waiting'
  BY <1>1, <1>2 DEF Handed, Waiting
<1>10. Strict'
  <2>1. (~Acceptable(f) \/ EmptyOnJvm(f))' /\ f = frames'[Len(delivered)' + 1]
    BY <1>2, <1>4, <1>6, JudgedTheSame
  <2>2. \A i \in 1 .. Len(delivered) : Acceptable(frames[i])'
    BY <1>1, <1>2, JudgedTheSame DEF Strict
  <2> QED BY <1>2, <2>1, <2>2 DEF Strict
<1>11. Inflating'
  BY <1>1, <1>2 DEF Inflating
<1> QED BY <1>7, <1>8, <1>9, <1>10, <1>11 DEF StreamInv

LEMMA InflateTurnStep ==
  ASSUME StreamInv, InflateTurn
  PROVE  StreamInv'
<1>1. StreamTypes /\ Placed /\ Handed /\ Waiting /\ Strict /\ Inflating
  BY DEF StreamInv
<1>2. /\ pc = "inflate" /\ Packed.payload > 0 /\ Packed.sound
      /\ framing' = framing /\ frames' = frames /\ arrived' = arrived /\ consumed' = consumed
      /\ decoded' = decoded
  BY DEF InflateTurn
<1>3. PICK f, d : f = Packed /\ d = decoded
  OBVIOUS
<1>4. f \in Frames /\ f.codec # "None" /\ Lawful(f) /\ Framed(f) /\ d \in 1 .. Len(frames)
  BY <1>2, <1>3, PackedIs
<1>5. f.plain \in Nat /\ f.payload \in Nat /\ f.stream \in Nat /\ f.codec \in Codecs /\ MaxOut \in Nat
  BY <1>4, FrameIs, SizesAre
<1>6. made \in Nat /\ Room \in Nat /\ eaten \in Nat
  BY <1>1, RoomIs DEF StreamTypes, Inflating
<1>7. PICK e \in 0 .. f.payload, p \in 0 .. Room :
        /\ CodecCall(Room, e, p) /\ ~Exceeds(p)
        /\ eaten' = eaten + e /\ made' = made + p
        /\ \/ Turn(e, p) = "again" /\ pc' = pc /\ delivered' = delivered
           \/ Turn(e, p) = "done" /\ pc' = "decode" /\ delivered' = Append(delivered, decoded)
  BY <1>3 DEF InflateTurn
<1>8. e \in Nat /\ p \in Nat
  BY <1>5, <1>6, <1>7
<1>9. made + p <= f.plain /\ (f.payload >= f.stream => (made + p = f.plain => Ended(e, p)))
  BY <1>2, <1>3, <1>7, <1>8, CodecCallIs
<1>10. made' <= MaxOut /\ made' \in Nat /\ eaten' \in Nat /\ made' <= f.plain
  BY <1>5, <1>6, <1>7, <1>8, <1>9 DEF Exceeds
<1>11. /\ Turn(e, p) = "again" => ~Ended(e, p)
       /\ Turn(e, p) = "done" => Ended(e, p) /\ eaten + e >= f.payload
  <2>1. CASE f.codec = "ZlibNative"
    <3>1. Turn(e, p) = ZlibNativeTurn(e, p)
      BY <1>3, <2>1 DEF Turn
    <3> QED BY <1>3, <1>5, <1>6, <1>8, <3>1 DEF ZlibNativeTurn
  <2>2. CASE f.codec = "ZlibJvm"
    <3>1. Turn(e, p) = ZlibJvmTurn(e, p)
      BY <1>3, <2>2 DEF Turn
    <3> QED BY <1>3, <1>5, <1>6, <1>8, <3>1 DEF ZlibJvmTurn
  <2>3. CASE f.codec = "Zstd"
    <3>1. Turn(e, p) = ZstdTurn(e, p)
      BY <1>3, <2>3 DEF Turn
    <3> QED BY <1>3, <1>5, <1>6, <1>8, <3>1 DEF ZstdTurn
  <2> QED BY <1>4, <1>5, <2>1, <2>2, <2>3 DEF Codecs
<1>12. Packed' = f /\ UpTo(decoded)' = UpTo(decoded) /\ UpTo(Len(frames))' = UpTo(Len(frames))
  BY <1>2, <1>3, SameStream DEF Packed
<1>13. \A i \in 1 .. Len(delivered) : Acceptable(frames[i])'
  BY <1>1, <1>2, JudgedTheSame DEF Strict
<1>14. Placed'
  <2>1. framing = "WebSocket" => arrived = consumed
    BY <1>1, <1>2 DEF Placed
  <2>2. pc' \in {"inflate", "decode"}
    BY <1>2, <1>7
  <2> QED BY <1>1, <1>2, <1>12, <2>1, <2>2 DEF Placed
<1>15. CASE Turn(e, p) = "again" /\ pc' = pc /\ delivered' = delivered
  <2>1. StreamTypes'
    BY <1>1, <1>2, <1>10, <1>15 DEF StreamTypes
  <2>2. Handed' /\ Waiting'
    BY <1>1, <1>2, <1>15 DEF Handed, Waiting
  <2>3. Lawful(f)' /\ Framed(f)'
    BY <1>2, <1>4, JudgedTheSame
  <2>4. Lawful(Packed)' /\ Framed(Packed)' /\ Packed'.codec # "None"
    BY <1>4, <1>12, <2>3
  <2>5. Strict'
    BY <1>2, <1>13, <1>15, <2>4 DEF Strict
  <2>6. f.payload >= f.stream => made' < f.plain
    BY <1>5, <1>7, <1>9, <1>10, <1>11, <1>15
  <2>7. Inflating'
    BY <1>10, <1>12, <2>6 DEF Inflating
  <2> QED BY <1>14, <2>1, <2>2, <2>5, <2>7 DEF StreamInv
<1>16. CASE Turn(e, p) = "done" /\ pc' = "decode" /\ delivered' = Append(delivered, decoded)
  <2>1. d = Len(delivered) + 1 /\ Len(delivered) \in Nat /\ d = decoded' /\ d \in Nat
    BY <1>2, <1>3, PackedIs
  <2>2. delivered \in Seq(Nat)
    BY <1>1 DEF StreamTypes
  <2>3. delivered' = Append(delivered, d)
    BY <1>3, <1>16
  <2>4. delivered' \in Seq(Nat)
    BY <2>1, <2>2, <2>3
  <2>5. /\ Len(delivered') = d /\ delivered'[d] = d
        /\ \A i \in 1 .. Len(delivered) : delivered'[i] = delivered[i]
    BY <2>1, <2>2, <2>3
  <2>6. \A i \in 1 .. d : i = d \/ i \in 1 .. Len(delivered)
    BY <2>1
  <2>7. StreamTypes'
    BY <1>1, <1>2, <1>10, <1>16, <2>4 DEF StreamTypes
  <2>8. Handed'
    <3>1. \A i \in 1 .. Len(delivered) : delivered[i] = i
      BY <1>1 DEF Handed
    <3>2. \A i \in 1 .. Len(delivered') : delivered'[i] = i
      BY <2>5, <2>6, <3>1
    <3> QED BY <1>16, <2>1, <2>5, <3>2 DEF Handed
  <2>9. Strict'
    <3>1. Ended(e, p) /\ eaten + e >= f.payload
      BY <1>11, <1>16
    <3>2. eaten + e = f.stream /\ made + p = f.plain
      BY <1>3, <3>1 DEF Ended
    <3>3. eaten + e <= f.payload
      <4>1. PICK m : m = Min({f.payload, f.stream})
        OBVIOUS
      <4>2. eaten + e <= m
        BY <1>3, <1>7, <4>1 DEF CodecCall
      <4>3. m = IF f.payload <= f.stream THEN f.payload ELSE f.stream
        BY <1>5, <4>1, LeastOfTwo
      <4> QED BY <1>5, <1>6, <1>8, <4>2, <4>3
    <3>4. Inflatable(f)
      BY <1>2, <1>3, <1>5, <1>6, <1>7, <1>8, <1>10, <3>1, <3>2, <3>3 DEF Inflatable
    <3>5. Acceptable(f)
      BY <1>4, <3>4 DEF Acceptable, Lawful
    <3>6. Acceptable(f)' /\ f = frames'[d]
      BY <1>2, <1>3, <3>5, JudgedTheSame DEF Packed
    <3>7. \A i \in 1 .. Len(delivered') : Acceptable(frames[i])'
      BY <1>13, <2>5, <2>6, <3>6
    <3> QED BY <1>16, <3>7 DEF Strict
  <2>10. Waiting'
    BY <1>16 DEF Waiting
  <2>11. Inflating'
    BY <1>10, <1>16 DEF Inflating
  <2> QED BY <1>14, <2>7, <2>8, <2>9, <2>10, <2>11 DEF StreamInv
<1> QED BY <1>7, <1>15, <1>16

LEMMA StreamStutters ==
  ASSUME StreamInv, UNCHANGED streamVars
  PROVE  StreamInv'
<1>1. /\ framing' = framing /\ frames' = frames /\ arrived' = arrived /\ consumed' = consumed
      /\ decoded' = decoded /\ delivered' = delivered /\ pc' = pc /\ eaten' = eaten /\ made' = made
  BY DEF streamVars
<1>2. /\ Buffered' = Buffered /\ Extra' = Extra /\ Current' = Current /\ Packed' = Packed
      /\ UpTo(decoded)' = UpTo(decoded) /\ UpTo(decoded + 1)' = UpTo(decoded + 1)
      /\ UpTo(Len(frames))' = UpTo(Len(frames)) /\ MaxFrame' = MaxFrame
  BY <1>1, SameStream DEF Packed, MaxFrame
<1>3. StreamTypes' /\ Handed' /\ Inflating'
  BY <1>1, <1>2 DEF StreamInv, StreamTypes, Handed, Inflating
<1>4. Placed' /\ Waiting'
  BY <1>1, <1>2, JudgedTheSame DEF StreamInv, Placed, Waiting
<1>5. Strict'
  BY <1>1, <1>2, JudgedTheSame DEF StreamInv, Strict
<1> QED BY <1>3, <1>4, <1>5 DEF StreamInv

LEMMA StreamInvNext ==
  ASSUME StreamInv, [StreamNext]_streamVars
  PROVE  StreamInv'
<1>1. CASE DecodeNeeds
  BY <1>1, NeedsStep
<1>2. CASE DecodeRejects
  BY <1>2, RejectsStep
<1>3. CASE DecodeReturns
  BY <1>3, ReturnsStep
<1>4. CASE InflateRejects
  BY <1>4, InflateRejectsStep
<1>5. CASE InflateTurn
  BY <1>5, InflateTurnStep
<1>6. CASE Read
  BY <1>6, ReadStep
<1>7. CASE ReadMessage
  BY <1>7, ReadMessageStep
<1>8. CASE UNCHANGED streamVars
  BY <1>8, StreamStutters
<1> QED BY <1>1, <1>2, <1>3, <1>4, <1>5, <1>6, <1>7, <1>8 DEF StreamNext, Decoding

LEMMA StreamInvariant == StreamSpec => []StreamInv
<1>1. StreamInit => StreamInv
  BY StreamInvInit
<1>2. StreamInv /\ [StreamNext]_streamVars => StreamInv'
  BY StreamInvNext
<1> QED BY <1>1, <1>2, PTL DEF StreamSpec

(* However the socket cuts the byte stream, the read loop hands on the     *)
(* packets of the frames that arrived whole, each once and in the order    *)
(* they were sent, keeps no complete frame back while it waits, and stands *)
(* at the first byte of the next frame: the decoders' buffer arithmetic.   *)
THEOREM StreamSplitIndependent == StreamSpec => []SplitIndependent
<1>1. StreamInv => SplitIndependent
  <2>1. SUFFICES ASSUME StreamInv PROVE SplitIndependent
    OBVIOUS
  <2>2. delivered = [i \in 1 .. Len(delivered) |-> i]
    <3>1. delivered \in Seq(Nat) /\ \A i \in 1 .. Len(delivered) : delivered[i] = i
      BY <2>1 DEF StreamInv, StreamTypes, Handed
    <3>2. delivered = [i \in 1 .. Len(delivered) |-> delivered[i]]
      BY <3>1
    <3> QED BY <3>1, <3>2
  <2> QED BY <2>1, <2>2 DEF SplitIndependent, StreamInv, Placed, Handed, Waiting
<1>2. StreamSpec => []StreamInv
  BY StreamInvariant
<1> QED BY <1>1, <1>2, PTL

(* "Decoding is strict": what is handed on obeys the wire format and the   *)
(* limits, and a connection is ended only by a frame that breaks one, the  *)
(* empty zlib payload on the JVM excepted: the checks of the decoders and  *)
(* of the three decompressors' loops together.                             *)
THEOREM StreamStrictExactly == StreamSpec => []StrictExactly
<1>1. StreamInv => StrictExactly
  BY DEF StrictExactly, StreamInv, Strict, Handed
<1>2. StreamSpec => []StreamInv
  BY StreamInvariant
<1> QED BY <1>1, <1>2, PTL

(* The read loop never waits for more than one frame of legal size, and a  *)
(* decompressor never holds more than maxDecompressedPayloadLength: a      *)
(* length is refused as soon as it can be read.                            *)
THEOREM StreamMemoryBounded == StreamSpec => []MemoryBounded
<1>1. StreamInv => MemoryBounded
  BY DEF MemoryBounded, StreamInv, Waiting, Inflating, Extra
<1>2. StreamSpec => []StreamInv
  BY StreamInvariant
<1> QED BY <1>1, <1>2, PTL

-----------------------------------------------------------------------------
(* The table *)

(* How many slots lie between a and b, going up and around the end. *)
Gap(a, b, n) == IF a <= b THEN b - a ELSE b - a + n

LEMMA GapIs ==
  ASSUME NEW n \in Nat, NEW a \in 0 .. n - 1, NEW b \in 0 .. n - 1
  PROVE  /\ Gap(a, b, n) \in 0 .. n - 1
         /\ Cell(a, Gap(a, b, n), n) = b
  BY DEF Gap, Cell

LEMMA GapOfCell ==
  ASSUME NEW n \in Nat, NEW a \in 0 .. n - 1, NEW d \in 0 .. n - 1
  PROVE  Cell(a, d, n) \in 0 .. n - 1 /\ Gap(a, Cell(a, d, n), n) = d
  BY DEF Gap, Cell

LEMMA GapsApart ==
  ASSUME NEW n \in Nat, NEW a \in 0 .. n - 1, NEW b \in 0 .. n - 1, NEW c \in 0 .. n - 1,
         Gap(a, b, n) = Gap(a, c, n)
  PROVE  b = c
  BY DEF Gap

Pairs == [id : Ids, val : Values]
Hashed == hash \in [Ids -> HashCodes]
IsTable(t, n) == n \in Nat /\ n > 1 /\ t \in [0 .. n - 1 -> Pairs \cup {Null}]
HomeIn(k, n) == hash[k] % n

LEMMA PairIs ==
  ASSUME NEW e \in Pairs
  PROVE  e.id \in Ids /\ e.val \in Values /\ e # Null /\ e = Entry(e.id, e.val)
<1>1. e.id \in Ids /\ e.val \in Values /\ e = [id |-> e.id, val |-> e.val]
  BY DEF Pairs
<1>2. [id |-> e.id, val |-> e.val] # Null
  BY <1>1, TableAssumption
<1> QED BY <1>1, <1>2 DEF Entry

LEMMA TableIs ==
  ASSUME NEW t, NEW n, IsTable(t, n)
  PROVE  /\ DOMAIN t = 0 .. n - 1 /\ SlotsOf(t) = n
         /\ \A x \in 0 .. n - 1 : t[x] # Null => t[x] \in Pairs
<1>1. n \in Nat /\ n > 1 /\ DOMAIN t = 0 .. n - 1
  BY DEF IsTable
<1>2. Cardinality(0 .. n - 1) = n
  <2>1. Cardinality(0 .. n - 1) = IF 0 > n - 1 THEN 0 ELSE (n - 1) - 0 + 1
    BY <1>1, FS_Interval
  <2> QED BY <1>1, <2>1
<1>3. SlotsOf(t) = n
  BY <1>1, <1>2 DEF SlotsOf
<1> QED BY <1>1, <1>3 DEF IsTable

LEMMA HomeIs ==
  ASSUME Hashed, NEW k \in Ids, NEW n \in Nat \ {0}
  PROVE  HomeIn(k, n) \in 0 .. n - 1
<1>1. hash[k] \in Nat
  BY TableAssumption DEF Hashed
<1>2. PICK c \in Nat : c = hash[k]
  BY <1>1
<1>3. c % n \in 0 .. n - 1
  OBVIOUS
<1> QED BY <1>2, <1>3 DEF HomeIn

(* Every slot from the home h up to p is taken. *)
Way(t, n, h, p) == \A x \in 0 .. n - 1 : Gap(h, x, n) < Gap(h, p, n) => t[x] # Null

Unique(t, n) ==
  \A x \in 0 .. n - 1, y \in 0 .. n - 1 : t[x] # Null /\ t[y] # Null /\ t[x].id = t[y].id => x = y

Reached(t, n) == \A x \in 0 .. n - 1 : t[x] # Null => Way(t, n, HomeIn(t[x].id, n), x)

Sound(t, n) == IsTable(t, n) /\ Unique(t, n) /\ Reached(t, n)

StopsAt(t, n, k, p) ==
  /\ p \in 0 .. n - 1
  /\ t[p] = Null \/ t[p].id = k
  /\ \A x \in 0 .. n - 1 :
       Gap(HomeIn(k, n), x, n) < Gap(HomeIn(k, n), p, n) => t[x] # Null /\ t[x].id # k

HasRoom(t, n) == \E x \in 0 .. n - 1 : t[x] = Null

(* Where there is room the probe ends, at the first slot it should end at. *)
LEMMA ProbeIs ==
  ASSUME Hashed, NEW t, NEW n, IsTable(t, n), NEW k \in Ids, HasRoom(t, n)
  PROVE  StopsAt(t, n, k, Probe(k, t))
<1>1. n \in Nat \ {0} /\ SlotsOf(t) = n
  <2>1. SlotsOf(t) = n
    BY TableIs
  <2> QED BY <2>1 DEF IsTable
<1>2. PICK h \in 0 .. n - 1 : h = HomeIn(k, n)
  BY <1>1, HomeIs
<1>3. Home(k, t) = h
  BY <1>1, <1>2 DEF Home, HomeIn
<1> DEFINE Stop(x) == t[x] = Null \/ t[x].id = k
<1> DEFINE D == {d \in 0 .. n - 1 : Stop((h + d) % n)}
<1>4. Probe(k, t) = (h + Min(D)) % n
  BY <1>1, <1>3 DEF Probe
<1>5. \A d \in 0 .. n - 1 : (h + d) % n = Cell(h, d, n) /\ Cell(h, d, n) \in 0 .. n - 1
  <2> TAKE d \in 0 .. n - 1
  <2>1. d \in 0 .. n
    BY <1>1
  <2> QED BY <1>1, <1>2, <2>1, CellIs
<1>6. \A d \in 0 .. n - 1 : d \in D <=> Stop(Cell(h, d, n))
  BY <1>5
<1>7. PICK v \in 0 .. n - 1 : t[v] = Null
  BY DEF HasRoom
<1> HIDE DEF D
<1>8. Gap(h, v, n) \in D
  <2>1. Gap(h, v, n) \in 0 .. n - 1 /\ Cell(h, Gap(h, v, n), n) = v
    BY <1>1, <1>2, <1>7, GapIs
  <2>2. Stop(Cell(h, Gap(h, v, n), n))
    BY <1>7, <2>1
  <2> QED BY <1>6, <2>1, <2>2
<1>9. D \subseteq 0 .. n - 1 /\ D \subseteq Nat
  BY <1>1 DEF D
<1>10. PICK m \in D : \A d \in D : ~(d < m)
  BY <1>8, <1>9, LeastNumber
<1>11. \A d \in D : m <= d
  BY <1>9, <1>10
<1>12. Min(D) \in D /\ \A d \in D : Min(D) <= d
  BY <1>10, <1>11 DEF Min
<1>13. Min(D) = m
  <2>1. PICK q \in D : q = Min(D)
    BY <1>12
  <2>2. q <= m /\ m <= q /\ q \in Nat /\ m \in Nat
    BY <1>9, <1>10, <1>11, <1>12, <2>1
  <2> QED BY <2>1, <2>2
<1>14. m \in 0 .. n - 1 /\ Stop(Cell(h, m, n))
  BY <1>6, <1>9, <1>10
<1>15. PICK p : p = Cell(h, m, n)
  OBVIOUS
<1>16. p = Probe(k, t) /\ p \in 0 .. n - 1 /\ Gap(h, p, n) = m /\ Stop(p)
  BY <1>1, <1>2, <1>4, <1>5, <1>13, <1>14, <1>15, GapOfCell
<1>17. ASSUME NEW x \in 0 .. n - 1, Gap(h, x, n) < Gap(h, p, n) PROVE ~Stop(x)
  <2>1. Gap(h, x, n) \in 0 .. n - 1 /\ Cell(h, Gap(h, x, n), n) = x
    BY <1>1, <1>2, GapIs
  <2>2. Gap(h, x, n) \notin D
    BY <1>10, <1>16, <1>17
  <2> QED BY <1>6, <2>1, <2>2
<1> QED BY <1>2, <1>16, <1>17 DEF StopsAt

(* In a sound table it ends at the entry it looks for, if there is one. *)
LEMMA ProbeFinds ==
  ASSUME Hashed, NEW t, NEW n, Sound(t, n), NEW k \in Ids, NEW p, StopsAt(t, n, k, p),
         NEW x \in 0 .. n - 1, t[x] # Null, t[x].id = k
  PROVE  p = x
<1>1. n \in Nat \ {0}
  BY DEF Sound, IsTable
<1>2. PICK h \in 0 .. n - 1 : h = HomeIn(k, n)
  BY <1>1, HomeIs
<1>3. /\ p \in 0 .. n - 1 /\ (t[p] = Null \/ t[p].id = k)
      /\ \A y \in 0 .. n - 1 : Gap(h, y, n) < Gap(h, p, n) => t[y] # Null /\ t[y].id # k
  BY <1>2 DEF StopsAt
<1>4. \A y \in 0 .. n - 1 : Gap(h, y, n) < Gap(h, x, n) => t[y] # Null
  BY <1>2 DEF Sound, Reached, Way
<1>5. Gap(h, p, n) \in Nat /\ Gap(h, x, n) \in Nat
  <2>1. Gap(h, p, n) \in 0 .. n - 1 /\ Gap(h, x, n) \in 0 .. n - 1
    BY <1>1, <1>2, <1>3, GapIs
  <2> QED BY <2>1
<1>6. CASE Gap(h, p, n) < Gap(h, x, n)
  <2>1. t[p] # Null
    BY <1>3, <1>4, <1>6
  <2> QED BY <1>3, <2>1 DEF Sound, Unique
<1>7. CASE Gap(h, x, n) < Gap(h, p, n)
  BY <1>3, <1>7
<1>8. CASE Gap(h, x, n) = Gap(h, p, n)
  BY <1>1, <1>2, <1>3, <1>8, GapsApart
<1> QED BY <1>5, <1>6, <1>7, <1>8

(* A sound table with room: the probe for an entry's id ends at the entry. *)
LEMMA ProbeReaches ==
  ASSUME Hashed, NEW t, NEW n, Sound(t, n), HasRoom(t, n), NEW x \in 0 .. n - 1, t[x] # Null
  PROVE  Probe(t[x].id, t) = x
<1>1. IsTable(t, n)
  BY DEF Sound
<1>2. t[x] \in Pairs
  BY <1>1, TableIs
<1>3. t[x].id \in Ids
  BY <1>2, PairIs
<1>4. PICK k \in Ids : k = t[x].id
  BY <1>3
<1>5. StopsAt(t, n, k, Probe(k, t))
  BY <1>1, ProbeIs
<1> QED BY <1>4, <1>5, ProbeFinds

-----------------------------------------------------------------------------
(* set() *)

Stored(u, t, n, p, e) == \A x \in 0 .. n - 1 : u[x] = IF x = p THEN e ELSE t[x]

LEMMA PutIs ==
  ASSUME Hashed, NEW t, NEW n, IsTable(t, n), HasRoom(t, n), NEW e \in Pairs
  PROVE  IsTable(Put(t, e), n) /\ Stored(Put(t, e), t, n, Probe(e.id, t), e)
<1>1. PICK p : p = Probe(e.id, t)
  OBVIOUS
<1>2. e.id \in Ids
  BY PairIs
<1>3. StopsAt(t, n, e.id, p)
  BY <1>1, <1>2, ProbeIs
<1>4. p \in 0 .. n - 1
  BY <1>3 DEF StopsAt
<1>5. Put(t, e) = [t EXCEPT ![p] = e]
  BY <1>1 DEF Put
<1>6. t \in [0 .. n - 1 -> Pairs \cup {Null}]
  BY DEF IsTable
<1>7. [t EXCEPT ![p] = e] \in [0 .. n - 1 -> Pairs \cup {Null}]
  BY <1>4, <1>6
<1>8. \A x \in 0 .. n - 1 : [t EXCEPT ![p] = e][x] = IF x = p THEN e ELSE t[x]
  BY <1>4, <1>6
<1> QED BY <1>1, <1>5, <1>7, <1>8 DEF IsTable, Stored

LEMMA PutKeeps ==
  ASSUME Hashed, NEW t, NEW n, Sound(t, n), HasRoom(t, n), NEW e \in Pairs
  PROVE  Sound(Put(t, e), n)
<1>1. PICK p, u : p = Probe(e.id, t) /\ u = Put(t, e)
  OBVIOUS
<1>2. IsTable(t, n) /\ Unique(t, n) /\ Reached(t, n) /\ n \in Nat \ {0}
  BY DEF Sound, IsTable
<1>3. IsTable(u, n) /\ Stored(u, t, n, p, e)
  BY <1>1, <1>2, PutIs
<1>4. PICK k \in Ids : k = e.id
  BY PairIs
<1>5. StopsAt(t, n, k, p)
  BY <1>1, <1>2, <1>4, ProbeIs
<1>6. \A x \in 0 .. n - 1 : t[x] # Null /\ t[x].id = k => x = p
  BY <1>5, ProbeFinds
<1>7. p \in 0 .. n - 1 /\ u[p] = e /\ e # Null /\ \A x \in 0 .. n - 1 : x # p => u[x] = t[x]
  BY <1>3, <1>5, PairIs DEF StopsAt, Stored
<1>8. Unique(u, n)
  BY <1>2, <1>4, <1>6, <1>7 DEF Unique
<1>9. \A x \in 0 .. n - 1 : t[x] # Null => u[x] # Null
  BY <1>7
<1>10. Reached(u, n)
  <2>1. ASSUME NEW x \in 0 .. n - 1, u[x] # Null PROVE Way(u, n, HomeIn(u[x].id, n), x)
    <3>1. CASE x = p
      <4>1. Way(t, n, HomeIn(k, n), p)
        BY <1>5 DEF StopsAt, Way
      <4>2. Way(u, n, HomeIn(k, n), p)
        BY <1>9, <4>1 DEF Way
      <4> QED BY <1>4, <1>7, <3>1, <4>2
    <3>2. CASE x # p
      <4>1. u[x] = t[x]
        BY <1>7, <3>2
      <4>2. Way(t, n, HomeIn(t[x].id, n), x)
        BY <1>2, <2>1, <4>1 DEF Reached
      <4>3. Way(u, n, HomeIn(t[x].id, n), x)
        BY <1>9, <4>2 DEF Way
      <4> QED BY <4>1, <4>3
    <3> QED BY <3>1, <3>2
  <2> QED BY <2>1 DEF Reached
<1> QED BY <1>1, <1>3, <1>8, <1>10 DEF Sound

-----------------------------------------------------------------------------
(* What a table holds *)

LEMMA EntriesAre ==
  ASSUME NEW t, NEW n, IsTable(t, n)
  PROVE  /\ \A e : e \in Entries(t) <=> e # Null /\ \E x \in 0 .. n - 1 : e = t[x]
         /\ Entries(t) \subseteq Pairs
<1>1. DOMAIN t = 0 .. n - 1 /\ \A x \in 0 .. n - 1 : t[x] # Null => t[x] \in Pairs
  BY TableIs
<1>2. \A e : e \in Entries(t) <=> e # Null /\ \E x \in 0 .. n - 1 : e = t[x]
  BY <1>1 DEF Entries
<1> QED BY <1>1, <1>2

Taken(t, n) == {x \in 0 .. n - 1 : t[x] # Null}

(* It holds as many entries as slots are taken. *)
LEMMA CountIs ==
  ASSUME NEW t, NEW n, Sound(t, n)
  PROVE  /\ IsFiniteSet(Entries(t)) /\ Cardinality(Entries(t)) \in Nat
         /\ Cardinality(Taken(t, n)) = Cardinality(Entries(t))
<1>1. IsTable(t, n) /\ n \in Nat
  BY DEF Sound, IsTable
<1>2. IsFiniteSet(0 .. n - 1)
  BY <1>1, FS_Interval
<1>3. PICK T : T = Taken(t, n)
  OBVIOUS
<1>4. T \in SUBSET (0 .. n - 1) /\ \A x : x \in T <=> x \in 0 .. n - 1 /\ t[x] # Null
  BY <1>3 DEF Taken
<1>5. IsFiniteSet(T)
  BY <1>2, <1>4, FS_Subset
<1>6. PICK E : E = Entries(t)
  OBVIOUS
<1>7. \A e : e \in E <=> e # Null /\ \E x \in 0 .. n - 1 : e = t[x]
  BY <1>1, <1>6, EntriesAre
<1>8. \A x \in T : t[x] \in E
  BY <1>4, <1>7
<1>9. \A e \in E : \E x \in T : t[x] = e
  BY <1>4, <1>7
<1>10. \A x \in T, y \in T : t[x] = t[y] => x = y
  BY <1>4 DEF Sound, Unique
<1> DEFINE f == [x \in T |-> t[x]]
<1>11. \A x \in T : f[x] = t[x]
  OBVIOUS
<1>12. f \in [T -> E]
  BY <1>8
<1> HIDE DEF f
<1>13. f \in Bijection(T, E)
  BY <1>9, <1>10, <1>11, <1>12 DEF Bijection, Injection, Surjection, IsInjective
<1>14. ExistsBijection(T, E)
  BY <1>13 DEF ExistsBijection
<1>15. IsFiniteSet(E) /\ Cardinality(E) = Cardinality(T)
  BY <1>5, <1>14, FS_Bijection
<1>16. Cardinality(E) \in Nat
  BY <1>15, FS_CardinalityType
<1> QED BY <1>3, <1>6, <1>15, <1>16

LEMMA RoomLeft ==
  ASSUME NEW t, NEW n, Sound(t, n), Cardinality(Entries(t)) < n
  PROVE  HasRoom(t, n)
<1>1. n \in Nat /\ n > 1
  BY DEF Sound, IsTable
<1>2. SUFFICES ASSUME ~HasRoom(t, n) PROVE FALSE
  OBVIOUS
<1>3. Taken(t, n) = 0 .. n - 1
  BY <1>2 DEF HasRoom, Taken
<1>4. Cardinality(0 .. n - 1) = IF 0 > n - 1 THEN 0 ELSE (n - 1) - 0 + 1
  BY <1>1, FS_Interval
<1>5. Cardinality(Taken(t, n)) = n
  BY <1>1, <1>3, <1>4
<1>6. Cardinality(Taken(t, n)) = Cardinality(Entries(t))
  BY CountIs
<1> QED BY <1>1, <1>5, <1>6

(* A set of entries in which e takes the place of the one with its id. *)
Updated(E, e) == {f \in E : f.id # e.id} \cup {e}

LEMMA PutEntries ==
  ASSUME Hashed, NEW t, NEW n, Sound(t, n), HasRoom(t, n), NEW e \in Pairs
  PROVE  /\ Entries(Put(t, e)) = Updated(Entries(t), e)
         /\ Cardinality(Entries(Put(t, e)))
              = Cardinality(Entries(t)) + (IF t[Probe(e.id, t)] = Null THEN 1 ELSE 0)
<1>1. PICK p, u : p = Probe(e.id, t) /\ u = Put(t, e)
  OBVIOUS
<1>2. IsTable(t, n)
  BY DEF Sound
<1>3. IsTable(u, n) /\ Stored(u, t, n, p, e)
  BY <1>1, <1>2, PutIs
<1>4. PICK k \in Ids : k = e.id
  BY PairIs
<1>5. StopsAt(t, n, k, p)
  BY <1>1, <1>2, <1>4, ProbeIs
<1>6. \A x \in 0 .. n - 1 : t[x] # Null /\ t[x].id = k => x = p
  BY <1>5, ProbeFinds
<1>7. /\ p \in 0 .. n - 1 /\ u[p] = e /\ e # Null /\ \A x \in 0 .. n - 1 : x # p => u[x] = t[x]
      /\ t[p] = Null \/ t[p].id = k
  BY <1>3, <1>5, PairIs DEF StopsAt, Stored
<1>8. PICK E : E = Entries(t)
  OBVIOUS
<1>9. \A f : f \in E <=> f # Null /\ \E x \in 0 .. n - 1 : f = t[x]
  BY <1>2, <1>8, EntriesAre
<1>10. \A f : f \in Entries(u) <=> f # Null /\ \E x \in 0 .. n - 1 : f = u[x]
  BY <1>3, EntriesAre
<1>11. \A f : f \in Entries(u) <=> f \in Updated(E, e)
  <2>1. ASSUME NEW f, f \in Entries(u) PROVE f \in Updated(E, e)
    <3>1. PICK x \in 0 .. n - 1 : f # Null /\ f = u[x]
      BY <1>10, <2>1
    <3>2. CASE x = p
      BY <1>7, <3>1, <3>2 DEF Updated
    <3>3. CASE x # p
      <4>1. f = t[x] /\ f \in E
        BY <1>7, <1>9, <3>1, <3>3
      <4>2. f.id # k
        BY <1>6, <3>1, <3>3, <4>1
      <4> QED BY <1>4, <4>1, <4>2 DEF Updated
    <3> QED BY <3>2, <3>3
  <2>2. ASSUME NEW f, f \in Updated(E, e) PROVE f \in Entries(u)
    <3>1. CASE f = e
      BY <1>7, <1>10, <3>1
    <3>2. CASE f # e
      <4>1. f \in E /\ f.id # k
        BY <1>4, <2>2, <3>2 DEF Updated
      <4>2. PICK x \in 0 .. n - 1 : f # Null /\ f = t[x]
        BY <1>9, <4>1
      <4>3. x # p
        BY <1>7, <4>1, <4>2
      <4> QED BY <1>7, <1>10, <4>2, <4>3
    <3> QED BY <3>1, <3>2
  <2> QED BY <2>1, <2>2
<1>12. Entries(u) = Updated(E, e)
  BY <1>11
<1>13. IsFiniteSet(E) /\ Cardinality(E) \in Nat
  BY <1>8, CountIs
<1>14. CASE t[p] = Null
  <2>1. \A f \in E : f.id # e.id
    BY <1>4, <1>6, <1>9, <1>14
  <2>2. Updated(E, e) = E \cup {e} /\ e \notin E
    BY <2>1 DEF Updated
  <2>3. Cardinality(E \cup {e}) = Cardinality(E) + 1
    BY <1>13, <2>2, FS_AddElement
  <2> QED BY <1>1, <1>8, <1>12, <1>14, <2>2, <2>3
<1>15. CASE t[p] # Null
  <2>1. PICK g : g = t[p]
    OBVIOUS
  <2>2. g \in E /\ g.id = e.id
    BY <1>4, <1>7, <1>9, <1>15, <2>1
  <2>3. \A f \in E : f.id = e.id => f = g
    BY <1>4, <1>6, <1>9, <2>1
  <2>4. Updated(E, e) = (E \ {g}) \cup {e} /\ e \notin E \ {g}
    BY <2>2, <2>3 DEF Updated
  <2>5. IsFiniteSet(E \ {g}) /\ Cardinality(E \ {g}) = Cardinality(E) - 1
    BY <1>13, <2>2, FS_RemoveElement
  <2>6. Cardinality((E \ {g}) \cup {e}) = Cardinality(E \ {g}) + 1
    BY <2>4, <2>5, FS_AddElement
  <2>7. Cardinality(Updated(E, e)) = Cardinality(E)
    BY <1>13, <2>4, <2>5, <2>6
  <2> QED BY <1>1, <1>8, <1>12, <1>13, <1>15, <2>7
<1> QED BY <1>1, <1>8, <1>12, <1>14, <1>15

-----------------------------------------------------------------------------
(* grow() *)

After(f, t, m) ==
  f = [k \in 0 .. m |->
         IF k = 0 THEN Vacant(2 * SlotsOf(t))
         ELSE IF t[k - 1] = Null THEN f[k - 1] ELSE Put(f[k - 1], t[k - 1])]

(* The recursion of grow() has a solution. *)
LEMMA AfterExists ==
  ASSUME NEW t, NEW m \in Nat
  PROVE  \E f : After(f, t, m)
<1> DEFINE G == {n \in Nat : \E f : After(f, t, n)}
<1> DEFINE Reput(y, k) == IF t[k - 1] = Null THEN y ELSE Put(y, t[k - 1])
<1>1. 0 \in G
  <2> DEFINE f == [k \in 0 .. 0 |-> Vacant(2 * SlotsOf(t))]
  <2>1. f = [k \in 0 .. 0 |-> IF k = 0 THEN Vacant(2 * SlotsOf(t)) ELSE Reput(f[k - 1], k)]
    OBVIOUS
  <2> HIDE DEF f
  <2>2. After(f, t, 0)
    BY <2>1 DEF After
  <2> QED BY <2>2
<1>2. ASSUME NEW n \in Nat, n \in G PROVE n + 1 \in G
  <2>1. PICK f : After(f, t, n)
    BY <1>2
  <2>2. \A k \in 0 .. n : f[k] = IF k = 0 THEN Vacant(2 * SlotsOf(t)) ELSE Reput(f[k - 1], k)
    BY <2>1 DEF After
  <2> HIDE DEF Reput
  <2> DEFINE g == [k \in 0 .. n + 1 |-> IF k = n + 1 THEN Reput(f[n], n + 1) ELSE f[k]]
  <2>3. \A k \in 0 .. n + 1 : g[k] = IF k = 0 THEN Vacant(2 * SlotsOf(t)) ELSE Reput(g[k - 1], k)
    <3> TAKE k \in 0 .. n + 1
    <3>1. CASE k = n + 1
      <4>1. g[k] = Reput(f[n], n + 1) /\ k # 0 /\ k - 1 = n /\ n \in 0 .. n + 1 /\ n # n + 1
        BY <3>1
      <4>2. g[k - 1] = f[n]
        BY <4>1
      <4> QED BY <3>1, <4>1, <4>2
    <3>2. CASE k # n + 1
      <4>1. k \in 0 .. n /\ g[k] = f[k]
        BY <3>2
      <4>2. k # 0 => k - 1 \in 0 .. n + 1 /\ k - 1 # n + 1
        BY <4>1
      <4>3. k # 0 => g[k - 1] = f[k - 1]
        BY <4>2
      <4> QED BY <2>2, <4>1, <4>3
    <3> QED BY <3>1, <3>2
  <2>4. g = [k \in 0 .. n + 1 |-> g[k]]
    OBVIOUS
  <2> HIDE DEF g
  <2>5. g = [k \in 0 .. n + 1 |-> IF k = 0 THEN Vacant(2 * SlotsOf(t)) ELSE Reput(g[k - 1], k)]
    BY <2>3, <2>4, Zenon
  <2>6. After(g, t, n + 1)
    BY <2>5 DEF After, Reput
  <2> QED BY <2>6
<1> HIDE DEF G
<1>3. m \in G
  BY <1>1, <1>2, NumberInduction
<1> QED BY <1>3 DEF G

LEMMA GrownIs ==
  ASSUME NEW t, NEW n \in Nat, SlotsOf(t) = n
  PROVE  \E f : After(f, t, n) /\ Grown(t) = f[n]
<1> DEFINE s == CHOOSE f : f = [k \in 0 .. SlotsOf(t) |->
                  IF k = 0 THEN Vacant(2 * SlotsOf(t))
                  ELSE IF t[k - 1] = Null THEN f[k - 1] ELSE Put(f[k - 1], t[k - 1])]
<1>1. Grown(t) = s[n]
  BY DEF Grown
<1>2. \E f : After(f, t, n)
  BY AfterExists
<1>3. \A f : After(f, t, n) <=>
        f = [k \in 0 .. SlotsOf(t) |->
               IF k = 0 THEN Vacant(2 * SlotsOf(t))
               ELSE IF t[k - 1] = Null THEN f[k - 1] ELSE Put(f[k - 1], t[k - 1])]
  BY DEF After
<1>4. After(s, t, n)
  BY <1>2, <1>3
<1> QED BY <1>1, <1>4

LEMMA VacantIs ==
  ASSUME NEW n \in Nat, n > 1
  PROVE  /\ Sound(Vacant(n), n) /\ HasRoom(Vacant(n), n)
         /\ Entries(Vacant(n)) = {} /\ Cardinality(Entries(Vacant(n))) = 0
<1>1. PICK t : t = Vacant(n)
  OBVIOUS
<1>2. t \in [0 .. n - 1 -> Pairs \cup {Null}] /\ \A x \in 0 .. n - 1 : t[x] = Null
  BY <1>1 DEF Vacant
<1>3. IsTable(t, n)
  BY <1>2 DEF IsTable
<1>4. \A x \in 0 .. n - 1 : t[x] = Null
  BY <1>2
<1>5. Sound(t, n)
  BY <1>3, <1>4 DEF Sound, Unique, Reached
<1>6. 0 \in 0 .. n - 1
  OBVIOUS
<1>7. HasRoom(t, n)
  BY <1>4, <1>6 DEF HasRoom
<1>8. Entries(t) = {}
  BY <1>3, <1>4, EntriesAre
<1> QED BY <1>1, <1>5, <1>7, <1>8, FS_EmptySet

Part(t, k) == {t[x] : x \in 0 .. k - 1} \ {Null}

(* Growing keeps every entry and makes a sound table of twice the size. *)
LEMMA GrownKeeps ==
  ASSUME Hashed, NEW t, NEW n, Sound(t, n), Cardinality(Entries(t)) <= n
  PROVE  Sound(Grown(t), 2 * n) /\ Entries(Grown(t)) = Entries(t)
<1>1. IsTable(t, n) /\ Unique(t, n) /\ n \in Nat /\ n > 1
  BY DEF Sound, IsTable
<1>2. SlotsOf(t) = n /\ \A x \in 0 .. n - 1 : t[x] # Null => t[x] \in Pairs
  BY <1>1, TableIs
<1>3. PICK f : After(f, t, n) /\ Grown(t) = f[n]
  BY <1>1, <1>2, GrownIs
<1>4. PICK m \in Nat : m = 2 * n
  BY <1>1
<1>5. m > 1 /\ m > n
  BY <1>1, <1>4
<1>6. \A k \in 0 .. n : f[k] = IF k = 0 THEN Vacant(m)
                               ELSE IF t[k - 1] = Null THEN f[k - 1] ELSE Put(f[k - 1], t[k - 1])
  BY <1>2, <1>3, <1>4 DEF After
<1>7. PICK E : E = Entries(t)
  OBVIOUS
<1>8. \A e : e \in E <=> e # Null /\ \E x \in 0 .. n - 1 : e = t[x]
  BY <1>1, <1>7, EntriesAre
<1>9. IsFiniteSet(E) /\ Cardinality(E) \in Nat /\ Cardinality(E) <= n
  BY <1>7, CountIs
<1> DEFINE G == {k \in Nat : k <= n => Sound(f[k], m) /\ Entries(f[k]) = Part(t, k)}
<1>10. 0 \in G
  <2>1. f[0] = Vacant(m)
    BY <1>1, <1>6
  <2>2. Sound(Vacant(m), m) /\ Entries(Vacant(m)) = {}
    BY <1>5, VacantIs
  <2>3. Part(t, 0) = {}
    BY DEF Part
  <2> QED BY <2>1, <2>2, <2>3
<1>11. ASSUME NEW k \in Nat, k \in G PROVE k + 1 \in G
  <2>1. SUFFICES ASSUME k + 1 <= n PROVE Sound(f[k + 1], m) /\ Entries(f[k + 1]) = Part(t, k + 1)
    OBVIOUS
  <2>2. k <= n /\ k \in 0 .. n - 1 /\ k + 1 \in 0 .. n /\ k + 1 # 0 /\ (k + 1) - 1 = k
    BY <1>1, <2>1
  <2>3. PICK u : u = f[k]
    OBVIOUS
  <2>4. Sound(u, m) /\ Entries(u) = Part(t, k)
    BY <1>11, <2>2, <2>3
  <2>5. f[k + 1] = IF t[k] = Null THEN u ELSE Put(u, t[k])
    BY <1>6, <2>2, <2>3
  <2>6. \A x \in 0 .. k : x = k \/ x \in 0 .. k - 1
    OBVIOUS
  <2>7. \A x \in 0 .. k - 1 : x \in 0 .. k /\ x \in 0 .. n - 1 /\ x # k
    BY <1>1, <2>2
  <2>8. \A e : e \in Part(t, k + 1) <=> e # Null /\ (e = t[k] \/ e \in Part(t, k))
    <3>1. (k + 1) - 1 = k /\ k \in 0 .. k
      OBVIOUS
    <3>2. Part(t, k + 1) = {t[x] : x \in 0 .. k} \ {Null}
      BY <3>1 DEF Part
    <3> QED BY <2>6, <2>7, <3>1, <3>2 DEF Part
  <2>9. CASE t[k] = Null
    <3>1. Part(t, k + 1) = Part(t, k)
      BY <2>8, <2>9 DEF Part
    <3> QED BY <2>4, <2>5, <2>9, <3>1
  <2>10. CASE t[k] # Null
    <3>1. PICK e \in Pairs : e = t[k]
      BY <1>2, <2>2, <2>10
    <3>2. HasRoom(u, m)
      <4>1. Part(t, k) \in SUBSET E
        BY <1>8, <2>7 DEF Part
      <4>2. Cardinality(Part(t, k)) <= Cardinality(E)
        BY <1>9, <4>1, FS_Subset
      <4>3. Cardinality(Entries(u)) \in Nat
        BY <2>4, CountIs
      <4>4. Cardinality(Entries(u)) < m
        BY <1>1, <1>5, <1>9, <2>4, <4>2, <4>3
      <4> QED BY <2>4, <4>4, RoomLeft
    <3>3. Sound(Put(u, e), m) /\ Entries(Put(u, e)) = Updated(Part(t, k), e)
      BY <2>4, <3>2, PutKeeps, PutEntries
    <3>4. \A g \in Part(t, k) : g.id # e.id
      BY <1>1, <2>2, <2>7, <2>10, <3>1 DEF Part, Unique
    <3>5. \A g : g \in Updated(Part(t, k), e) <=> g \in Part(t, k + 1)
      <4>1. \A g \in Part(t, k) : g # Null
        BY DEF Part
      <4> QED BY <2>8, <2>10, <3>1, <3>4, <4>1 DEF Updated
    <3>6. Updated(Part(t, k), e) = Part(t, k + 1)
      BY <3>5
    <3> QED BY <2>5, <2>10, <3>1, <3>3, <3>6
  <2> QED BY <2>9, <2>10
<1> HIDE DEF G
<1>12. n \in G
  BY <1>1, <1>10, <1>11, NumberInduction
<1>13. Sound(f[n], m) /\ Entries(f[n]) = Part(t, n)
  BY <1>1, <1>12 DEF G
<1>14. Part(t, n) = E
  <2>1. \A e : e \in Part(t, n) <=> e \in E
    BY <1>8 DEF Part
  <2> QED BY <2>1
<1> QED BY <1>3, <1>4, <1>7, <1>13, <1>14

-----------------------------------------------------------------------------
(* remove() *)

(* Three slots a, b and c that follow each other from slot o on, seen from *)
(* another slot h.                                                         *)
LEMMA Around ==
  ASSUME NEW n \in Nat, NEW o \in 0 .. n - 1, NEW h \in 0 .. n - 1,
         NEW a \in 0 .. n - 1, NEW b \in 0 .. n - 1, NEW c \in 0 .. n - 1,
         Gap(o, a, n) < Gap(o, b, n), Gap(o, b, n) < Gap(o, c, n)
  PROVE  /\ Gap(h, a, n) < Gap(h, c, n) => Gap(h, b, n) < Gap(h, c, n)
         /\ Gap(h, c, n) < Gap(h, b, n) => Gap(h, a, n) < Gap(h, b, n)
         /\ Gap(h, b, n) < Gap(h, a, n) => Gap(h, c, n) < Gap(h, a, n)
  BY DEF Gap

(* An entry may stay if the way from its home does not lead over the hole. *)
LEMMA BetweenIs ==
  ASSUME NEW n \in Nat, NEW h \in 0 .. n - 1, NEW i \in 0 .. n - 1, NEW j \in 0 .. n - 1, i # j
  PROVE  Between(h, i, j, n - 1) <=> ~(Gap(h, i, n) < Gap(h, j, n))
  BY DEF Between, Gap

Going(u, q) == [slots |-> u, hole |-> q, over |-> FALSE]
Done(u, q) == [slots |-> u, hole |-> q, over |-> TRUE]

LEMMA ShiftStepIs ==
  ASSUME NEW u, NEW n, IsTable(u, n), NEW q \in 0 .. n - 1, NEW j \in 0 .. n - 1
  PROVE  /\ ShiftStep(Done(u, q), j) = Done(u, q)
         /\ u[j] = Null => ShiftStep(Going(u, q), j) = Done(u, q)
         /\ u[j] # Null /\ Between(HomeIn(u[j].id, n), q, j, n - 1) =>
              ShiftStep(Going(u, q), j) = Going(u, q)
         /\ u[j] # Null /\ ~Between(HomeIn(u[j].id, n), q, j, n - 1) =>
              ShiftStep(Going(u, q), j) = Going([u EXCEPT ![q] = u[j], ![j] = Null], j)
<1>1. SlotsOf(u) = n
  BY TableIs
<1>2. /\ Going(u, q).slots = u /\ Going(u, q).hole = q /\ ~Going(u, q).over
      /\ Done(u, q).slots = u /\ Done(u, q).hole = q /\ Done(u, q).over
  BY DEF Going, Done
<1>4. \A k : Home(k, u) = HomeIn(k, n)
  BY <1>1 DEF Home, HomeIn
<1>5. ShiftStep(Done(u, q), j) = Done(u, q)
  BY <1>2 DEF ShiftStep
<1>6. u[j] = Null => ShiftStep(Going(u, q), j) = Done(u, q)
  BY <1>2 DEF ShiftStep, Done
<1>7. u[j] # Null => ShiftStep(Going(u, q), j) =
        IF Between(HomeIn(u[j].id, n), q, j, n - 1) THEN Going(u, q)
        ELSE Going([u EXCEPT ![q] = u[j], ![j] = Null], j)
  <2>1. ASSUME u[j] # Null
        PROVE  ShiftStep(Going(u, q), j) =
                 IF Between(Home(u[j].id, u), q, j, SlotsOf(u) - 1) THEN Going(u, q)
                 ELSE [slots |-> [u EXCEPT ![q] = u[j], ![j] = Null], hole |-> j, over |-> FALSE]
    BY <1>2, <2>1 DEF ShiftStep
  <2> QED BY <1>1, <1>4, <2>1 DEF Going
<1> QED BY <1>5, <1>6, <1>7

(* The walk from the slot o that was vacated has come d slots far and the  *)
(* hole to q: what it passed is taken, every entry is on its way but for   *)
(* the hole, what it passed also without it, and a vacant slot is ahead.   *)
Moving(u, q, n, o, d) ==
  /\ IsTable(u, n) /\ Unique(u, n)
  /\ q \in 0 .. n - 1 /\ u[q] = Null /\ Gap(o, q, n) <= d
  /\ \A x \in 0 .. n - 1 : Gap(o, x, n) <= d /\ x # q => u[x] # Null
  /\ \A x \in 0 .. n - 1 : u[x] # Null =>
       \A y \in 0 .. n - 1 :
         Gap(HomeIn(u[x].id, n), y, n) < Gap(HomeIn(u[x].id, n), x, n) /\ y # q => u[y] # Null
  /\ \A x \in 0 .. n - 1 : u[x] # Null /\ Gap(o, x, n) <= d =>
       ~(Gap(HomeIn(u[x].id, n), q, n) < Gap(HomeIn(u[x].id, n), x, n))
  /\ \E v \in 0 .. n - 1 : v # q /\ u[v] = Null

(* The homes of a table's entries are slots of it. *)
LEMMA HomesAre ==
  ASSUME Hashed, NEW u, NEW n, IsTable(u, n)
  PROVE  \A x \in 0 .. n - 1 : u[x] # Null => HomeIn(u[x].id, n) \in 0 .. n - 1
<1> SUFFICES ASSUME NEW x \in 0 .. n - 1, u[x] # Null PROVE HomeIn(u[x].id, n) \in 0 .. n - 1
  OBVIOUS
<1>1. u[x] \in Pairs
  BY TableIs
<1>2. u[x].id \in Ids
  BY <1>1, PairIs
<1>3. n \in Nat \ {0}
  BY DEF IsTable
<1> QED BY <1>2, <1>3, HomeIs

(* Where the walk meets a vacant slot the table is sound again. *)
LEMMA WalkEnds ==
  ASSUME Hashed, NEW u, NEW q, NEW n, NEW o \in 0 .. n - 1, NEW d \in Nat, Moving(u, q, n, o, d),
         NEW j \in 0 .. n - 1, Gap(o, j, n) = d + 1, u[j] = Null
  PROVE  Sound(u, n)
<1>1. IsTable(u, n) /\ Unique(u, n) /\ q \in 0 .. n - 1 /\ Gap(o, q, n) <= d
  BY DEF Moving
<1>2. n \in Nat
  BY <1>1 DEF IsTable
<1>3. ASSUME NEW x \in 0 .. n - 1, u[x] # Null,
             NEW y \in 0 .. n - 1, Gap(HomeIn(u[x].id, n), y, n) < Gap(HomeIn(u[x].id, n), x, n)
      PROVE  u[y] # Null
  <2>1. PICK h \in 0 .. n - 1 : h = HomeIn(u[x].id, n)
    BY <1>1, <1>3, HomesAre
  <2>2. \A z \in 0 .. n - 1 : Gap(h, z, n) < Gap(h, x, n) /\ z # q => u[z] # Null
    BY <1>3, <2>1 DEF Moving
  <2>3. SUFFICES ASSUME y = q PROVE FALSE
    BY <1>3, <2>1, <2>2
  <2>4. Gap(h, q, n) < Gap(h, x, n)
    BY <1>3, <2>1, <2>3
  <2>5. ~(Gap(o, x, n) <= d)
    BY <1>3, <2>1, <2>4 DEF Moving
  <2>6. Gap(o, q, n) \in Nat /\ Gap(o, x, n) \in Nat
    <3>1. Gap(o, q, n) \in 0 .. n - 1 /\ Gap(o, x, n) \in 0 .. n - 1
      BY <1>1, <1>2, GapIs
    <3> QED BY <3>1
  <2>7. x # j /\ Gap(o, x, n) # Gap(o, j, n)
    BY <1>2, <1>3, GapsApart
  <2>8. Gap(o, q, n) < Gap(o, j, n) /\ Gap(o, j, n) < Gap(o, x, n)
    BY <1>1, <2>5, <2>6, <2>7
  <2>9. Gap(h, j, n) < Gap(h, x, n)
    BY <1>1, <1>2, <2>4, <2>8, Around
  <2>10. j # q
    BY <1>1, <2>6
  <2> QED BY <2>2, <2>9, <2>10
<1> QED BY <1>1, <1>3 DEF Sound, Reached, Way

(* It passes an entry that may stay. *)
LEMMA WalkPasses ==
  ASSUME Hashed, NEW u, NEW q, NEW n, NEW o \in 0 .. n - 1, NEW d \in Nat, Moving(u, q, n, o, d),
         NEW j \in 0 .. n - 1, Gap(o, j, n) = d + 1, u[j] # Null,
         Between(HomeIn(u[j].id, n), q, j, n - 1)
  PROVE  Moving(u, q, n, o, d + 1)
<1>1. IsTable(u, n) /\ Unique(u, n) /\ q \in 0 .. n - 1 /\ Gap(o, q, n) <= d /\ u[q] = Null
  BY DEF Moving
<1>2. n \in Nat
  BY <1>1 DEF IsTable
<1>3. PICK h \in 0 .. n - 1 : h = HomeIn(u[j].id, n)
  BY <1>1, HomesAre
<1>4. ~(Gap(h, q, n) < Gap(h, j, n))
  BY <1>1, <1>2, <1>3, BetweenIs
<1>5. \A x \in 0 .. n - 1 : Gap(o, x, n) \in Nat
  <2> TAKE x \in 0 .. n - 1
  <2>1. Gap(o, x, n) \in 0 .. n - 1
    BY <1>2, GapIs
  <2> QED BY <2>1
<1>6. \A x \in 0 .. n - 1 : Gap(o, x, n) <= d + 1 => Gap(o, x, n) <= d \/ x = j
  <2>1. \A x \in 0 .. n - 1 : Gap(o, x, n) = d + 1 => x = j
    BY <1>2, GapsApart
  <2> QED BY <1>5, <2>1
<1>7. Gap(o, q, n) <= d + 1
  BY <1>1, <1>5
<1>8. \A x \in 0 .. n - 1 : Gap(o, x, n) <= d + 1 /\ x # q => u[x] # Null
  BY <1>6 DEF Moving
<1>9. \A x \in 0 .. n - 1 : u[x] # Null /\ Gap(o, x, n) <= d + 1 =>
        ~(Gap(HomeIn(u[x].id, n), q, n) < Gap(HomeIn(u[x].id, n), x, n))
  BY <1>3, <1>4, <1>6 DEF Moving
<1> QED BY <1>1, <1>7, <1>8, <1>9 DEF Moving

Moved(w, u, n, q, j) ==
  \A x \in 0 .. n - 1 : w[x] = IF x = j THEN Null ELSE IF x = q THEN u[j] ELSE u[x]

LEMMA MovedIs ==
  ASSUME NEW u, NEW n, IsTable(u, n), NEW q \in 0 .. n - 1, NEW j \in 0 .. n - 1, q # j
  PROVE  /\ IsTable([u EXCEPT ![q] = u[j], ![j] = Null], n)
         /\ Moved([u EXCEPT ![q] = u[j], ![j] = Null], u, n, q, j)
<1>1. u \in [0 .. n - 1 -> Pairs \cup {Null}] /\ n \in Nat /\ n > 1
  BY DEF IsTable
<1>2. PICK w : w = [u EXCEPT ![q] = u[j], ![j] = Null]
  OBVIOUS
<1>3. w \in [0 .. n - 1 -> Pairs \cup {Null}]
  BY <1>1, <1>2
<1>4. \A x \in 0 .. n - 1 : w[x] = IF x = j THEN Null ELSE IF x = q THEN u[j] ELSE u[x]
  BY <1>1, <1>2
<1> QED BY <1>1, <1>2, <1>3, <1>4 DEF IsTable, Moved

(* It moves one that may not stay into the hole, which is then where the   *)
(* entry was.                                                              *)
LEMMA WalkMoves ==
  ASSUME Hashed, NEW u, NEW q, NEW n, NEW o \in 0 .. n - 1, NEW d \in Nat, Moving(u, q, n, o, d),
         NEW j \in 0 .. n - 1, Gap(o, j, n) = d + 1, u[j] # Null,
         ~Between(HomeIn(u[j].id, n), q, j, n - 1),
         NEW w, IsTable(w, n), Moved(w, u, n, q, j)
  PROVE  Moving(w, j, n, o, d + 1) /\ Entries(w) = Entries(u)
<1>1. IsTable(u, n) /\ Unique(u, n) /\ q \in 0 .. n - 1 /\ Gap(o, q, n) <= d /\ u[q] = Null
  BY DEF Moving
<1>2. n \in Nat /\ q # j
  BY <1>1 DEF IsTable
<1>3. /\ w[j] = Null /\ w[q] = u[j] /\ w[q] # Null
      /\ \A x \in 0 .. n - 1 : x # j /\ x # q => w[x] = u[x]
  BY <1>1, <1>2 DEF Moved
<1>4. PICK e, h : e = u[j].id /\ h = HomeIn(e, n)
  OBVIOUS
<1>5. h \in 0 .. n - 1
  BY <1>1, <1>4, HomesAre
<1>6. \A g \in 0 .. n - 1, x \in 0 .. n - 1 : Gap(g, x, n) \in Nat
  <2> TAKE g \in 0 .. n - 1, x \in 0 .. n - 1
  <2>1. Gap(g, x, n) \in 0 .. n - 1
    BY <1>2, GapIs
  <2> QED BY <2>1
<1>7. Gap(h, q, n) < Gap(h, j, n)
  BY <1>1, <1>2, <1>4, <1>5, BetweenIs
<1>8. \A x \in 0 .. n - 1 : Gap(o, x, n) <= d + 1 /\ x # j => Gap(o, x, n) <= d
  <2>1. \A x \in 0 .. n - 1 : Gap(o, x, n) = d + 1 => x = j
    BY <1>2, GapsApart
  <2> QED BY <1>6, <2>1
<1>9. PICK v \in 0 .. n - 1 : v # q /\ u[v] = Null
  BY DEF Moving
<1>10. v # j /\ Gap(o, j, n) < Gap(o, v, n)
  <2>1. v # j
    BY <1>9
  <2>2. ~(Gap(o, v, n) <= d)
    BY <1>9 DEF Moving
  <2>3. ~(Gap(o, v, n) <= d + 1)
    BY <1>8, <2>1, <2>2
  <2> QED BY <1>6, <2>1, <2>3
<1>11. Unique(w, n)
  <2>1. ASSUME NEW x \in 0 .. n - 1, NEW y \in 0 .. n - 1, w[x] # Null, w[y] # Null, w[x].id = w[y].id
        PROVE  x = y
    <3>1. x # j /\ y # j
      BY <1>3, <2>1
    <3>2. \A a \in 0 .. n - 1, b \in 0 .. n - 1 : u[a] # Null /\ u[b] # Null /\ u[a].id = u[b].id => a = b
      BY <1>1 DEF Unique
    <3>3. CASE x = q /\ y # q
      <4>1. w[y] = u[y] /\ w[x] = u[j]
        BY <1>3, <3>1, <3>3
      <4> QED BY <2>1, <3>1, <3>2, <4>1
    <3>4. CASE x # q /\ y = q
      <4>1. w[x] = u[x] /\ w[y] = u[j]
        BY <1>3, <3>1, <3>4
      <4> QED BY <2>1, <3>1, <3>2, <4>1
    <3>5. CASE x # q /\ y # q
      <4>1. w[x] = u[x] /\ w[y] = u[y]
        BY <1>3, <3>1, <3>5
      <4> QED BY <2>1, <3>2, <4>1
    <3> QED BY <3>3, <3>4, <3>5
  <2> QED BY <2>1 DEF Unique
<1>12. \A x \in 0 .. n - 1 : Gap(o, x, n) <= d + 1 /\ x # j => w[x] # Null
  <2>1. \A x \in 0 .. n - 1 : Gap(o, x, n) <= d /\ x # q => u[x] # Null
    BY DEF Moving
  <2> QED BY <1>3, <1>8, <2>1
<1>13. ASSUME NEW x \in 0 .. n - 1, w[x] # Null, NEW y \in 0 .. n - 1, y # j,
              Gap(HomeIn(w[x].id, n), y, n) < Gap(HomeIn(w[x].id, n), x, n)
       PROVE  w[y] # Null
  <2>1. CASE y = q
    BY <1>3, <2>1
  <2>2. CASE x = q /\ y # q
    <3>1. w[x].id = e /\ Gap(h, y, n) < Gap(h, q, n)
      BY <1>3, <1>4, <1>13, <2>2
    <3>2. Gap(h, y, n) < Gap(h, j, n)
      BY <1>1, <1>5, <1>6, <1>7, <3>1
    <3>3. u[y] # Null
      BY <1>4, <2>2, <3>2 DEF Moving
    <3> QED BY <1>3, <1>13, <2>2, <3>3
  <2>3. CASE x # q /\ y # q
    <3>1. x # j /\ w[x] = u[x]
      BY <1>3, <1>13, <2>3
    <3>2. u[y] # Null
      BY <1>13, <2>3, <3>1 DEF Moving
    <3> QED BY <1>3, <1>13, <2>3, <3>2
  <2> QED BY <2>1, <2>2, <2>3
<1>14. ASSUME NEW x \in 0 .. n - 1, w[x] # Null, Gap(o, x, n) <= d + 1,
              Gap(HomeIn(w[x].id, n), j, n) < Gap(HomeIn(w[x].id, n), x, n)
       PROVE  FALSE
  <2>1. CASE x = q
    <3>1. Gap(h, j, n) < Gap(h, q, n)
      BY <1>3, <1>4, <1>14, <2>1
    <3> QED BY <1>1, <1>5, <1>6, <1>7, <3>1
  <2>2. CASE x # q
    <3>1. x # j /\ w[x] = u[x] /\ u[x] # Null
      BY <1>3, <1>14, <2>2
    <3>2. Gap(o, x, n) <= d
      BY <1>8, <1>14, <3>1
    <3>3. PICK g \in 0 .. n - 1 : g = HomeIn(u[x].id, n)
      BY <1>1, <3>1, HomesAre
    <3>4. Gap(g, j, n) < Gap(g, x, n)
      BY <1>14, <3>1, <3>3
    <3>5. ~(Gap(g, q, n) < Gap(g, x, n))
      BY <3>1, <3>2, <3>3 DEF Moving
    <3>6. Gap(o, x, n) # Gap(o, q, n)
      BY <1>1, <1>2, <2>2, GapsApart
    <3>7. Gap(o, x, n) < Gap(o, j, n)
      BY <1>6, <3>2
    <3>8. CASE Gap(o, q, n) < Gap(o, x, n)
      <4>1. Gap(g, q, n) < Gap(g, x, n)
        BY <1>1, <1>2, <3>4, <3>7, <3>8, Around
      <4> QED BY <3>5, <4>1
    <3>9. CASE Gap(o, x, n) < Gap(o, q, n)
      <4>1. Gap(g, v, n) < Gap(g, x, n)
        BY <1>2, <1>10, <3>4, <3>7, Around
      <4>2. u[v] # Null
        BY <1>9, <3>1, <3>3, <4>1 DEF Moving
      <4> QED BY <1>9, <4>2
    <3> QED BY <1>1, <1>6, <3>6, <3>8, <3>9
  <2> QED BY <2>1, <2>2
<1>15. w[v] = Null
  BY <1>3, <1>9, <1>10
<1>16. Moving(w, j, n, o, d + 1)
  <2>1. Gap(o, j, n) <= d + 1
    BY <1>6
  <2> QED BY <1>3, <1>9, <1>10, <1>11, <1>12, <1>13, <1>14, <1>15, <2>1 DEF Moving
<1>17. \A f : f \in Entries(w) <=> f \in Entries(u)
  <2>1. \A f : f \in Entries(w) <=> f # Null /\ \E x \in 0 .. n - 1 : f = w[x]
    BY EntriesAre
  <2>2. \A f : f \in Entries(u) <=> f # Null /\ \E x \in 0 .. n - 1 : f = u[x]
    BY <1>1, EntriesAre
  <2>3. ASSUME NEW x \in 0 .. n - 1, w[x] # Null PROVE \E y \in 0 .. n - 1 : w[x] = u[y]
    BY <1>3, <2>3
  <2>4. ASSUME NEW x \in 0 .. n - 1, u[x] # Null PROVE \E y \in 0 .. n - 1 : u[x] = w[y]
    BY <1>1, <1>3, <2>4
  <2> QED BY <2>1, <2>2, <2>3, <2>4
<1> QED BY <1>16, <1>17

Walked(f, t, i, m) ==
  f = [k \in 0 .. m |-> IF k = 0 THEN Going(t, i) ELSE ShiftStep(f[k - 1], (i + k) % SlotsOf(t))]

(* The recursion of the shift has a solution. *)
LEMMA WalkedExists ==
  ASSUME NEW t, NEW i, NEW m \in Nat
  PROVE  \E f : Walked(f, t, i, m)
<1> DEFINE G == {n \in Nat : \E f : Walked(f, t, i, n)}
<1> DEFINE Ahead(y, k) == ShiftStep(y, (i + k) % SlotsOf(t))
<1>1. 0 \in G
  <2> DEFINE f == [k \in 0 .. 0 |-> Going(t, i)]
  <2>1. f = [k \in 0 .. 0 |-> IF k = 0 THEN Going(t, i) ELSE Ahead(f[k - 1], k)]
    OBVIOUS
  <2> HIDE DEF f
  <2>2. Walked(f, t, i, 0)
    BY <2>1 DEF Walked
  <2> QED BY <2>2
<1>2. ASSUME NEW n \in Nat, n \in G PROVE n + 1 \in G
  <2>1. PICK f : Walked(f, t, i, n)
    BY <1>2
  <2>2. \A k \in 0 .. n : f[k] = IF k = 0 THEN Going(t, i) ELSE Ahead(f[k - 1], k)
    BY <2>1 DEF Walked
  <2> HIDE DEF Ahead
  <2> DEFINE g == [k \in 0 .. n + 1 |-> IF k = n + 1 THEN Ahead(f[n], n + 1) ELSE f[k]]
  <2>3. \A k \in 0 .. n + 1 : g[k] = IF k = 0 THEN Going(t, i) ELSE Ahead(g[k - 1], k)
    <3> TAKE k \in 0 .. n + 1
    <3>1. CASE k = n + 1
      <4>1. g[k] = Ahead(f[n], n + 1) /\ k # 0 /\ k - 1 = n /\ n \in 0 .. n + 1 /\ n # n + 1
        BY <3>1
      <4>2. g[k - 1] = f[n]
        BY <4>1
      <4> QED BY <3>1, <4>1, <4>2
    <3>2. CASE k # n + 1
      <4>1. k \in 0 .. n /\ g[k] = f[k]
        BY <3>2
      <4>2. k # 0 => k - 1 \in 0 .. n + 1 /\ k - 1 # n + 1
        BY <4>1
      <4>3. k # 0 => g[k - 1] = f[k - 1]
        BY <4>2
      <4> QED BY <2>2, <4>1, <4>3
    <3> QED BY <3>1, <3>2
  <2>4. g = [k \in 0 .. n + 1 |-> g[k]]
    OBVIOUS
  <2> HIDE DEF g
  <2>5. g = [k \in 0 .. n + 1 |-> IF k = 0 THEN Going(t, i) ELSE Ahead(g[k - 1], k)]
    BY <2>3, <2>4, Zenon
  <2>6. Walked(g, t, i, n + 1)
    BY <2>5 DEF Walked, Ahead
  <2> QED BY <2>6
<1> HIDE DEF G
<1>3. m \in G
  BY <1>1, <1>2, NumberInduction
<1> QED BY <1>3 DEF G

LEMMA ShiftBackIs ==
  ASSUME NEW t, NEW i, NEW n \in Nat \ {0}, SlotsOf(t) = n
  PROVE  \E f : Walked(f, t, i, n - 1) /\ ShiftBack(t, i) = f[n - 1].slots
<1> DEFINE s == CHOOSE f : f = [k \in 0 .. SlotsOf(t) - 1 |->
                  IF k = 0 THEN [slots |-> t, hole |-> i, over |-> FALSE]
                  ELSE ShiftStep(f[k - 1], (i + k) % SlotsOf(t))]
<1>1. ShiftBack(t, i) = s[n - 1].slots
  BY DEF ShiftBack
<1>2. \E f : Walked(f, t, i, n - 1)
  BY WalkedExists
<1>3. \A f : Walked(f, t, i, n - 1) <=>
        f = [k \in 0 .. SlotsOf(t) - 1 |->
               IF k = 0 THEN [slots |-> t, hole |-> i, over |-> FALSE]
               ELSE ShiftStep(f[k - 1], (i + k) % SlotsOf(t))]
  BY DEF Walked, Going
<1>4. Walked(s, t, i, n - 1)
  BY <1>2, <1>3
<1> QED BY <1>1, <1>4

Vacated(u, t, n, i) == \A x \in 0 .. n - 1 : u[x] = IF x = i THEN Null ELSE t[x]

(* The shift starts from a sound table of which one entry was taken. *)
LEMMA WalkStarts ==
  ASSUME Hashed, NEW t, NEW n, Sound(t, n), HasRoom(t, n), NEW i \in 0 .. n - 1, t[i] # Null,
         NEW u, IsTable(u, n), Vacated(u, t, n, i)
  PROVE  Moving(u, i, n, i, 0) /\ Entries(u) = Entries(t) \ {t[i]}
<1>1. IsTable(t, n) /\ Unique(t, n) /\ Reached(t, n)
  BY DEF Sound
<1>2. n \in Nat
  BY <1>1 DEF IsTable
<1>3. u[i] = Null /\ \A x \in 0 .. n - 1 : x # i => u[x] = t[x]
  BY DEF Vacated
<1>4. Gap(i, i, n) = 0
  BY <1>2 DEF Gap
<1>5. \A x \in 0 .. n - 1 : Gap(i, x, n) <= 0 => x = i
  <2> TAKE x \in 0 .. n - 1
  <2>1. Gap(i, x, n) \in 0 .. n - 1
    BY <1>2, GapIs
  <2>2. Gap(i, x, n) <= 0 => Gap(i, x, n) = Gap(i, i, n)
    BY <1>4, <2>1
  <2> QED BY <1>2, <2>2, GapsApart
<1>6. Unique(u, n)
  BY <1>1, <1>3 DEF Unique
<1>7. ASSUME NEW x \in 0 .. n - 1, u[x] # Null, NEW y \in 0 .. n - 1, y # i,
             Gap(HomeIn(u[x].id, n), y, n) < Gap(HomeIn(u[x].id, n), x, n)
      PROVE  u[y] # Null
  <2>1. u[x] = t[x] /\ u[y] = t[y]
    BY <1>3, <1>7
  <2> QED BY <1>1, <1>7, <2>1 DEF Reached, Way
<1>8. PICK v \in 0 .. n - 1 : t[v] = Null
  BY DEF HasRoom
<1>9. v # i /\ u[v] = Null
  BY <1>3, <1>8
<1>10. Gap(i, i, n) <= 0
  BY <1>4
<1>11. Moving(u, i, n, i, 0)
  BY <1>3, <1>5, <1>6, <1>7, <1>9, <1>10 DEF Moving
<1>12. \A f : f \in Entries(u) <=> f \in Entries(t) \ {t[i]}
  <2>1. \A f : f \in Entries(t) <=> f # Null /\ \E x \in 0 .. n - 1 : f = t[x]
    BY <1>1, EntriesAre
  <2>2. \A f : f \in Entries(u) <=> f # Null /\ \E x \in 0 .. n - 1 : f = u[x]
    BY EntriesAre
  <2>3. \A x \in 0 .. n - 1 : t[x] = t[i] => x = i
    BY <1>1 DEF Unique
  <2> QED BY <1>3, <2>1, <2>2, <2>3
<1> QED BY <1>11, <1>12

(* A walk that is over left a sound table, one under way left it as above. *)
OnWalk(s, E, n, o, d) ==
  \E u, q : /\ IsTable(u, n) /\ q \in 0 .. n - 1 /\ Entries(u) = E
            /\ \/ s = Done(u, q) /\ Sound(u, n)
               \/ s = Going(u, q) /\ Moving(u, q, n, o, d)

LEMMA WalkStep ==
  ASSUME Hashed, NEW s, NEW E, NEW n, NEW o \in 0 .. n - 1, NEW d \in Nat, OnWalk(s, E, n, o, d),
         NEW j \in 0 .. n - 1, Gap(o, j, n) = d + 1
  PROVE  OnWalk(ShiftStep(s, j), E, n, o, d + 1)
<1>1. PICK u, q : /\ IsTable(u, n) /\ q \in 0 .. n - 1 /\ Entries(u) = E
                  /\ \/ s = Done(u, q) /\ Sound(u, n)
                     \/ s = Going(u, q) /\ Moving(u, q, n, o, d)
  BY DEF OnWalk
<1>2. PICK r : r = ShiftStep(s, j)
  OBVIOUS
<1>3. /\ ShiftStep(Done(u, q), j) = Done(u, q)
      /\ u[j] = Null => ShiftStep(Going(u, q), j) = Done(u, q)
      /\ u[j] # Null /\ Between(HomeIn(u[j].id, n), q, j, n - 1) =>
           ShiftStep(Going(u, q), j) = Going(u, q)
      /\ u[j] # Null /\ ~Between(HomeIn(u[j].id, n), q, j, n - 1) =>
           ShiftStep(Going(u, q), j) = Going([u EXCEPT ![q] = u[j], ![j] = Null], j)
  BY <1>1, ShiftStepIs
<1>4. CASE s = Done(u, q) /\ Sound(u, n)
  <2>1. r = Done(u, q)
    BY <1>2, <1>3, <1>4
  <2> QED BY <1>1, <1>2, <1>4, <2>1 DEF OnWalk
<1>5. CASE s = Going(u, q) /\ Moving(u, q, n, o, d)
  <2>1. CASE u[j] = Null
    <3>1. r = Done(u, q)
      BY <1>2, <1>3, <1>5, <2>1
    <3>2. Sound(u, n)
      BY <1>5, <2>1, WalkEnds
    <3> QED BY <1>1, <1>2, <3>1, <3>2 DEF OnWalk
  <2>2. CASE u[j] # Null /\ Between(HomeIn(u[j].id, n), q, j, n - 1)
    <3>1. r = Going(u, q)
      BY <1>2, <1>3, <1>5, <2>2
    <3>2. Moving(u, q, n, o, d + 1)
      BY <1>5, <2>2, WalkPasses
    <3> QED BY <1>1, <1>2, <3>1, <3>2 DEF OnWalk
  <2>3. CASE u[j] # Null /\ ~Between(HomeIn(u[j].id, n), q, j, n - 1)
    <3>1. PICK w : w = [u EXCEPT ![q] = u[j], ![j] = Null]
      OBVIOUS
    <3>2. r = Going(w, j)
      BY <1>2, <1>3, <1>5, <2>3, <3>1
    <3>3. q # j
      BY <1>5, <2>3 DEF Moving
    <3>4. IsTable(w, n) /\ Moved(w, u, n, q, j)
      BY <1>1, <3>1, <3>3, MovedIs
    <3>5. Moving(w, j, n, o, d + 1) /\ Entries(w) = Entries(u)
      BY <1>5, <2>3, <3>4, WalkMoves
    <3> QED BY <1>1, <1>2, <3>2, <3>4, <3>5 DEF OnWalk
  <2> QED BY <2>1, <2>2, <2>3
<1> QED BY <1>1, <1>4, <1>5

(* remove() leaves the other entries, where their probes find them. *)
LEMMA ShiftBackKeeps ==
  ASSUME Hashed, NEW t, NEW n, Sound(t, n), HasRoom(t, n), NEW i \in 0 .. n - 1, t[i] # Null
  PROVE  /\ Sound(ShiftBack([t EXCEPT ![i] = Null], i), n)
         /\ Entries(ShiftBack([t EXCEPT ![i] = Null], i)) = Entries(t) \ {t[i]}
<1>1. n \in Nat /\ n > 1 /\ t \in [0 .. n - 1 -> Pairs \cup {Null}]
  BY DEF Sound, IsTable
<1>2. PICK r : r = [t EXCEPT ![i] = Null]
  OBVIOUS
<1>3. r \in [0 .. n - 1 -> Pairs \cup {Null}] /\ \A x \in 0 .. n - 1 : r[x] = IF x = i THEN Null ELSE t[x]
  BY <1>1, <1>2
<1>4. IsTable(r, n) /\ Vacated(r, t, n, i)
  BY <1>1, <1>3 DEF IsTable, Vacated
<1>5. n \in Nat \ {0}
  BY <1>1
<1>6. Moving(r, i, n, i, 0) /\ Entries(r) = Entries(t) \ {t[i]}
  BY <1>4, WalkStarts
<1>7. SlotsOf(r) = n
  BY <1>4, TableIs
<1>8. PICK f : Walked(f, r, i, n - 1) /\ ShiftBack(r, i) = f[n - 1].slots
  BY <1>5, <1>7, ShiftBackIs
<1>9. \A k \in 0 .. n - 1 : f[k] = IF k = 0 THEN Going(r, i) ELSE ShiftStep(f[k - 1], (i + k) % n)
  BY <1>7, <1>8 DEF Walked
<1>10. PICK E : E = Entries(r)
  OBVIOUS
<1> DEFINE G == {k \in Nat : k <= n - 1 => OnWalk(f[k], E, n, i, k)}
<1>11. 0 \in G
  <2>1. f[0] = Going(r, i)
    BY <1>5, <1>9
  <2>2. OnWalk(f[0], E, n, i, 0)
    BY <1>4, <1>6, <1>10, <2>1 DEF OnWalk
  <2> QED BY <2>2
<1>12. ASSUME NEW k \in Nat, k \in G PROVE k + 1 \in G
  <2>1. SUFFICES ASSUME k + 1 <= n - 1 PROVE OnWalk(f[k + 1], E, n, i, k + 1)
    OBVIOUS
  <2>2. k <= n - 1 /\ k + 1 \in 0 .. n - 1 /\ k + 1 \in 0 .. n /\ k + 1 # 0 /\ (k + 1) - 1 = k
    BY <1>5, <2>1
  <2>3. OnWalk(f[k], E, n, i, k)
    BY <1>12, <2>2
  <2>4. PICK j : j = (i + (k + 1)) % n
    OBVIOUS
  <2>5. j \in 0 .. n - 1 /\ Gap(i, j, n) = k + 1
    <3>1. j = Cell(i, k + 1, n)
      BY <1>5, <2>2, <2>4, CellIs
    <3> QED BY <1>5, <2>2, <3>1, GapOfCell
  <2>6. f[k + 1] = ShiftStep(f[k], j)
    BY <1>9, <2>2, <2>4
  <2> QED BY <2>3, <2>5, <2>6, WalkStep
<1> HIDE DEF G
<1>13. n - 1 \in Nat
  BY <1>5
<1>14. n - 1 \in G
  BY <1>11, <1>12, <1>13, NumberInduction
<1>15. OnWalk(f[n - 1], E, n, i, n - 1)
  BY <1>13, <1>14 DEF G
<1>16. PICK u, q : /\ IsTable(u, n) /\ q \in 0 .. n - 1 /\ Entries(u) = E
                   /\ \/ f[n - 1] = Done(u, q) /\ Sound(u, n)
                      \/ f[n - 1] = Going(u, q) /\ Moving(u, q, n, i, n - 1)
  BY <1>15 DEF OnWalk
<1>17. ~Moving(u, q, n, i, n - 1)
  <2>1. SUFFICES ASSUME Moving(u, q, n, i, n - 1) PROVE FALSE
    OBVIOUS
  <2>2. PICK v \in 0 .. n - 1 : v # q /\ u[v] = Null
    BY <2>1 DEF Moving
  <2>3. Gap(i, v, n) \in 0 .. n - 1
    BY <1>5, GapIs
  <2>4. Gap(i, v, n) <= n - 1
    BY <1>5, <2>3
  <2> QED BY <2>1, <2>2, <2>4 DEF Moving
<1>18. f[n - 1].slots = u /\ Sound(u, n)
  BY <1>16, <1>17 DEF Going, Done
<1> QED BY <1>2, <1>6, <1>8, <1>10, <1>16, <1>18

-----------------------------------------------------------------------------
(* The inductive invariant of the map *)

MapInv ==
  /\ Hashed
  /\ Sound(table, SlotsOf(table))
  /\ filled = Cardinality(Entries(table))
  /\ 2 * filled <= SlotsOf(table)

LEMMA MapInvIs ==
  ASSUME MapInv
  PROVE  \E n \in Nat :
           /\ n > 1 /\ n = SlotsOf(table) /\ IsTable(table, n) /\ Sound(table, n) /\ HasRoom(table, n)
           /\ filled = Cardinality(Entries(table)) /\ filled \in Nat /\ 2 * filled <= n
<1>1. PICK n : n = SlotsOf(table)
  OBVIOUS
<1>2. Sound(table, n) /\ filled = Cardinality(Entries(table)) /\ 2 * filled <= n
  BY <1>1 DEF MapInv
<1>3. IsTable(table, n) /\ n \in Nat /\ n > 1
  BY <1>2 DEF Sound, IsTable
<1>4. Cardinality(Entries(table)) \in Nat
  BY <1>2, CountIs
<1>5. Cardinality(Entries(table)) < n
  BY <1>2, <1>3, <1>4
<1>6. HasRoom(table, n)
  BY <1>2, <1>5, RoomLeft
<1> QED BY <1>1, <1>2, <1>3, <1>4, <1>6

LEMMA SoundNext ==
  ASSUME UNCHANGED hash, Hashed, NEW t, NEW n, Sound(t, n), table' = t,
         filled' = Cardinality(Entries(t)), 2 * filled' <= n
  PROVE  MapInv'
<1>1. IsTable(t, n)
  BY DEF Sound
<1>2. SlotsOf(t) = n
  BY <1>1, TableIs
<1>3. Sound(t, n)'
  BY DEF Sound, IsTable, Unique, Reached, Way, HomeIn
<1>4. SlotsOf(table)' = n /\ Entries(table)' = Entries(t) /\ Hashed'
  BY <1>2 DEF SlotsOf, Entries, Hashed
<1>5. Sound(table, SlotsOf(table))'
  BY <1>3, <1>4
<1> QED BY <1>4, <1>5 DEF MapInv

LEMMA MapInvInit == MapInit => MapInv
<1> SUFFICES ASSUME MapInit PROVE MapInv
  OBVIOUS
<1>1. TableSize \in Nat /\ TableSize > 1
  BY TableAssumption
<1>2. Hashed /\ table = Vacant(TableSize) /\ filled = 0
  BY DEF MapInit, Hashed
<1>3. Sound(table, TableSize) /\ Cardinality(Entries(table)) = 0
  BY <1>1, <1>2, VacantIs
<1>4. IsTable(table, TableSize)
  BY <1>3 DEF Sound
<1>5. SlotsOf(table) = TableSize
  BY <1>4, TableIs
<1> QED BY <1>1, <1>2, <1>3, <1>5 DEF MapInv

(* set(): the entry takes the place of the one with its id, if any. *)
LEMMA SetStep ==
  ASSUME MapInv, NEW k \in Ids, NEW v \in Values, SetId(k, v)
  PROVE  MapInv' /\ Entries(table)' = Updated(Entries(table), Entry(k, v)) /\ answer' = Null
<1>1. PICK n \in Nat :
        /\ n > 1 /\ n = SlotsOf(table) /\ IsTable(table, n) /\ Sound(table, n) /\ HasRoom(table, n)
        /\ filled = Cardinality(Entries(table)) /\ filled \in Nat /\ 2 * filled <= n
  BY MapInvIs
<1>2. PICK e \in Pairs : e = Entry(k, v)
  BY DEF Entry, Pairs
<1>3. e.id = k
  BY <1>2 DEF Entry
<1>4. PICK t : t = IF MustGrow THEN Grown(table) ELSE table
  OBVIOUS
<1>5. /\ table' = Put(t, e) /\ answer' = Null /\ hash' = hash
      /\ filled' = (IF MustGrow THEN Cardinality(Entries(t)) ELSE filled)
                     + (IF t[Probe(k, t)] = Null THEN 1 ELSE 0)
  BY <1>2, <1>4 DEF SetId
<1>6. Hashed
  BY DEF MapInv
<1>7. \E m \in Nat : Sound(t, m) /\ Entries(t) = Entries(table) /\ 2 * (filled + 1) <= m
  <2>1. CASE MustGrow
    <3>1. filled <= n
      BY <1>1
    <3>2. Sound(Grown(table), 2 * n) /\ Entries(Grown(table)) = Entries(table)
      BY <1>1, <1>6, <3>1, GrownKeeps
    <3>3. 2 * n \in Nat /\ 2 * (filled + 1) <= 2 * n
      BY <1>1
    <3> QED BY <1>4, <2>1, <3>2, <3>3
  <2>2. CASE ~MustGrow
    <3>1. 2 * (filled + 1) <= n
      BY <1>1, <2>2 DEF MustGrow
    <3> QED BY <1>1, <1>4, <2>2, <3>1
  <2> QED BY <2>1, <2>2
<1>8. PICK m \in Nat : Sound(t, m) /\ Entries(t) = Entries(table) /\ 2 * (filled + 1) <= m
  BY <1>7
<1>9. HasRoom(t, m)
  <2>1. Cardinality(Entries(t)) < m
    BY <1>1, <1>8
  <2> QED BY <1>8, <2>1, RoomLeft
<1>10. PICK u : u = Put(t, e)
  OBVIOUS
<1>11. Sound(u, m)
  BY <1>6, <1>8, <1>9, <1>10, PutKeeps
<1>12. /\ Entries(u) = Updated(Entries(t), e)
       /\ Cardinality(Entries(u)) = Cardinality(Entries(t)) + (IF t[Probe(k, t)] = Null THEN 1 ELSE 0)
  BY <1>3, <1>6, <1>8, <1>9, <1>10, PutEntries
<1>13. filled' = Cardinality(Entries(u))
  BY <1>1, <1>5, <1>8, <1>12
<1>14. 2 * filled' <= m
  <2>1. filled' = filled \/ filled' = filled + 1
    BY <1>1, <1>8, <1>12, <1>13
  <2> QED BY <1>1, <1>8, <2>1
<1>15. MapInv'
  BY <1>5, <1>6, <1>10, <1>11, <1>13, <1>14, SoundNext
<1>16. Entries(table)' = Entries(u)
  BY <1>5, <1>10 DEF Entries
<1> QED BY <1>2, <1>5, <1>8, <1>12, <1>15, <1>16

(* remove(): the entry with the id is taken out, if there is one. *)
LEMMA RemoveStep ==
  ASSUME MapInv, NEW k \in Ids, RemoveId(k)
  PROVE  /\ MapInv'
         /\ \/ /\ \A e \in Entries(table) : e.id # k
               /\ Entries(table)' = Entries(table) /\ answer' = Null
            \/ \E e \in Entries(table) :
                 e.id = k /\ Entries(table)' = Entries(table) \ {e} /\ answer' = e.val
<1>1. PICK n \in Nat :
        /\ n > 1 /\ n = SlotsOf(table) /\ IsTable(table, n) /\ Sound(table, n) /\ HasRoom(table, n)
        /\ filled = Cardinality(Entries(table)) /\ filled \in Nat /\ 2 * filled <= n
  BY MapInvIs
<1>2. Hashed /\ hash' = hash
  BY DEF MapInv, RemoveId
<1>3. PICK i : i = Probe(k, table)
  OBVIOUS
<1>4. StopsAt(table, n, k, i)
  BY <1>1, <1>2, <1>3, ProbeIs
<1>5. i \in 0 .. n - 1 /\ (table[i] = Null \/ table[i].id = k)
  BY <1>4 DEF StopsAt
<1>6. \A e : e \in Entries(table) <=> e # Null /\ \E x \in 0 .. n - 1 : e = table[x]
  BY <1>1, EntriesAre
<1>7. CASE table[i] = Null
  <2>1. answer' = Null /\ table' = table /\ filled' = filled
    BY <1>3, <1>7 DEF RemoveId
  <2>2. \A e \in Entries(table) : e.id # k
    <3>1. \A x \in 0 .. n - 1 : table[x] # Null /\ table[x].id = k => x = i
      BY <1>1, <1>2, <1>4, ProbeFinds
    <3> QED BY <1>6, <1>7, <3>1
  <2>3. Entries(table)' = Entries(table)
    BY <2>1 DEF Entries
  <2>4. PICK t : t = table
    OBVIOUS
  <2>5. MapInv'
    BY <1>1, <1>2, <2>1, <2>4, SoundNext
  <2> QED BY <2>1, <2>2, <2>3, <2>5
<1>8. CASE table[i] # Null
  <2>1. PICK e, u : e = table[i] /\ u = ShiftBack([table EXCEPT ![i] = Null], i)
    OBVIOUS
  <2>2. answer' = e.val /\ table' = u /\ filled' = filled - 1
    BY <1>3, <1>8, <2>1 DEF RemoveId
  <2>3. Sound(u, n) /\ Entries(u) = Entries(table) \ {e}
    BY <1>1, <1>2, <1>5, <1>8, <2>1, ShiftBackKeeps
  <2>4. e \in Entries(table) /\ e.id = k
    BY <1>5, <1>6, <1>8, <2>1
  <2>5. IsFiniteSet(Entries(table))
    BY <1>1, CountIs
  <2>6. Cardinality(Entries(table) \ {e}) = Cardinality(Entries(table)) - 1
    BY <2>4, <2>5, FS_RemoveElement
  <2>7. filled' = Cardinality(Entries(u)) /\ 2 * filled' <= n
    BY <1>1, <2>2, <2>3, <2>6
  <2>8. MapInv'
    BY <1>2, <2>2, <2>3, <2>7, SoundNext
  <2>9. Entries(table)' = Entries(u)
    BY <2>2 DEF Entries
  <2> QED BY <2>2, <2>3, <2>4, <2>8, <2>9
<1> QED BY <1>7, <1>8

LEMMA ClearMapStep ==
  ASSUME MapInv, ClearMap
  PROVE  MapInv' /\ Entries(table)' = {} /\ answer' = Null
<1>1. PICK n \in Nat : n > 1 /\ n = SlotsOf(table)
  BY MapInvIs
<1>2. PICK u : u = Vacant(n)
  OBVIOUS
<1>3. table' = u /\ filled' = 0 /\ answer' = Null /\ hash' = hash /\ Hashed
  BY <1>1, <1>2 DEF ClearMap, MapInv
<1>4. Sound(u, n) /\ Entries(u) = {} /\ Cardinality(Entries(u)) = 0
  BY <1>1, <1>2, VacantIs
<1>5. 2 * filled' <= n
  BY <1>1, <1>3
<1>6. MapInv'
  BY <1>3, <1>4, <1>5, SoundNext
<1>7. Entries(table)' = Entries(u)
  BY <1>3 DEF Entries
<1> QED BY <1>3, <1>4, <1>6, <1>7

LEMMA SameMap ==
  ASSUME MapInv, UNCHANGED <<hash, table, filled>>
  PROVE  MapInv'
  BY DEF MapInv, Hashed, Sound, IsTable, Unique, Reached, Way, HomeIn, SlotsOf, Entries

LEMMA MapInvariant == MapSpec => []MapInv
<1>1. MapInit => MapInv
  BY MapInvInit
<1>2. MapInv /\ [MapNext]_mapVars => MapInv'
  <2>1. SUFFICES ASSUME MapInv, [MapNext]_mapVars PROVE MapInv'
    OBVIOUS
  <2>2. CASE \E k \in Ids, v \in Values : SetId(k, v)
    BY <2>1, <2>2, SetStep
  <2>3. CASE \E k \in Ids : RemoveId(k)
    BY <2>1, <2>3, RemoveStep
  <2>4. CASE ForEachValue
    BY <2>1, <2>4, SameMap DEF ForEachValue
  <2>5. CASE ClearMap
    BY <2>1, <2>5, ClearMapStep
  <2>6. CASE UNCHANGED mapVars
    BY <2>1, <2>6, SameMap DEF mapVars
  <2> QED BY <2>1, <2>2, <2>3, <2>4, <2>5, <2>6 DEF MapNext
<1> QED BY <1>1, <1>2, PTL DEF MapSpec

(* "so later probes still find their keys": whatever ids collide, however  *)
(* clusters wrap around the end and whatever remove() shifts and grow()    *)
(* moves, an entry is where the probe for its id ends, size is the number  *)
(* of entries, and at most half of the slots are taken.                    *)
THEOREM MapTableSound == MapSpec => []TableSound
<1>1. MapInv => TableSound
  <2>1. SUFFICES ASSUME MapInv PROVE TableSound
    OBVIOUS
  <2>2. PICK n \in Nat :
          /\ n > 1 /\ n = SlotsOf(table) /\ IsTable(table, n) /\ Sound(table, n) /\ HasRoom(table, n)
          /\ filled = Cardinality(Entries(table)) /\ filled \in Nat /\ 2 * filled <= n
    BY <2>1, MapInvIs
  <2>3. DOMAIN table = 0 .. n - 1
    BY <2>2, TableIs
  <2>4. \A x \in 0 .. n - 1 : table[x] # Null => Probe(table[x].id, table) = x
    BY <2>1, <2>2, ProbeReaches DEF MapInv
  <2>5. Cardinality(Taken(table, n)) = filled
    BY <2>2, CountIs
  <2>6. {i \in DOMAIN table : table[i] # Null} = Taken(table, n)
    BY <2>3 DEF Taken
  <2> QED BY <2>2, <2>3, <2>4, <2>5, <2>6 DEF TableSound
<1>2. MapSpec => []MapInv
  BY MapInvariant
<1> QED BY <1>1, <1>2, PTL

-----------------------------------------------------------------------------
(* The table as a map *)

AsMap(E) == [k \in {e.id : e \in E} |-> (CHOOSE e \in E : e.id = k).val]

OneEach(E) == E \subseteq Pairs /\ \A e \in E, f \in E : e.id = f.id => e = f

LEMMA AsMapIs ==
  ASSUME NEW E, OneEach(E)
  PROVE  /\ DOMAIN AsMap(E) = {e.id : e \in E}
         /\ \A e \in E : AsMap(E)[e.id] = e.val
<1>1. DOMAIN AsMap(E) = {e.id : e \in E}
  BY DEF AsMap
<1>2. ASSUME NEW e \in E PROVE AsMap(E)[e.id] = e.val
  <2>1. PICK c : c = CHOOSE f \in E : f.id = e.id
    OBVIOUS
  <2>2. c \in E /\ c.id = e.id
    BY <2>1
  <2>3. c = e
    BY <2>2 DEF OneEach
  <2>4. AsMap(E)[e.id] = (CHOOSE f \in E : f.id = e.id).val
    BY DEF AsMap
  <2> QED BY <2>1, <2>3, <2>4
<1> QED BY <1>1, <1>2

LEMMA OneEntryEach ==
  ASSUME NEW t, NEW n, Sound(t, n)
  PROVE  OneEach(Entries(t))
<1>1. IsTable(t, n) /\ Unique(t, n)
  BY DEF Sound
<1>2. /\ \A e : e \in Entries(t) <=> e # Null /\ \E x \in 0 .. n - 1 : e = t[x]
      /\ Entries(t) \subseteq Pairs
  BY <1>1, EntriesAre
<1>3. ASSUME NEW e \in Entries(t), NEW f \in Entries(t), e.id = f.id PROVE e = f
  <2>1. PICK x \in 0 .. n - 1, y \in 0 .. n - 1 : e # Null /\ f # Null /\ e = t[x] /\ f = t[y]
    BY <1>2
  <2>2. x = y
    BY <1>1, <1>3, <2>1 DEF Unique
  <2> QED BY <2>1, <2>2
<1> QED BY <1>2, <1>3 DEF OneEach

LEMMA AsMapSet ==
  ASSUME NEW E, OneEach(E), NEW e \in Pairs, OneEach(Updated(E, e))
  PROVE  AsMap(Updated(E, e)) =
           [i \in DOMAIN AsMap(E) \cup {e.id} |-> IF i = e.id THEN e.val ELSE AsMap(E)[i]]
<1>1. PICK U : U = Updated(E, e)
  OBVIOUS
<1>2. \A f : f \in U <=> (f \in E /\ f.id # e.id) \/ f = e
  BY <1>1 DEF Updated
<1>3. DOMAIN AsMap(E) = {f.id : f \in E} /\ \A f \in E : AsMap(E)[f.id] = f.val
  BY AsMapIs
<1>4. DOMAIN AsMap(U) = {f.id : f \in U} /\ \A f \in U : AsMap(U)[f.id] = f.val
  BY <1>1, AsMapIs
<1>5. DOMAIN AsMap(U) = DOMAIN AsMap(E) \cup {e.id}
  BY <1>2, <1>3, <1>4
<1>6. ASSUME NEW i \in DOMAIN AsMap(E) \cup {e.id}
      PROVE  AsMap(U)[i] = IF i = e.id THEN e.val ELSE AsMap(E)[i]
  <2>1. CASE i = e.id
    BY <1>2, <1>4, <2>1
  <2>2. CASE i # e.id
    <3>1. PICK f \in E : f.id = i
      BY <1>3, <1>6, <2>2
    <3>2. f \in U
      BY <1>2, <2>2, <3>1
    <3> QED BY <1>3, <1>4, <2>2, <3>1, <3>2
  <2> QED BY <2>1, <2>2
<1>7. AsMap(U) = [i \in DOMAIN AsMap(U) |-> AsMap(U)[i]]
  BY DEF AsMap
<1> QED BY <1>1, <1>5, <1>6, <1>7

LEMMA AsMapRemove ==
  ASSUME NEW E, OneEach(E), NEW e \in E, OneEach(E \ {e})
  PROVE  AsMap(E \ {e}) = Restrict(AsMap(E), DOMAIN AsMap(E) \ {e.id})
<1>1. PICK U : U = E \ {e}
  OBVIOUS
<1>2. \A f : f \in U <=> f \in E /\ f.id # e.id
  BY <1>1 DEF OneEach
<1>3. DOMAIN AsMap(E) = {f.id : f \in E} /\ \A f \in E : AsMap(E)[f.id] = f.val
  BY AsMapIs
<1>4. DOMAIN AsMap(U) = {f.id : f \in U} /\ \A f \in U : AsMap(U)[f.id] = f.val
  BY <1>1, AsMapIs
<1>5. DOMAIN AsMap(U) = DOMAIN AsMap(E) \ {e.id}
  BY <1>2, <1>3, <1>4
<1>6. ASSUME NEW i \in DOMAIN AsMap(U) PROVE AsMap(U)[i] = AsMap(E)[i]
  <2>1. PICK f \in U : f.id = i
    BY <1>4
  <2>2. f \in E
    BY <1>2
  <2> QED BY <1>3, <1>4, <2>1, <2>2
<1>7. AsMap(U) = [i \in DOMAIN AsMap(U) |-> AsMap(U)[i]]
  BY DEF AsMap
<1> QED BY <1>1, <1>5, <1>6, <1>7 DEF Restrict

LEMMA AsMapKept ==
  ASSUME NEW E, NEW k, \A e \in E : e.id # k
  PROVE  k \notin DOMAIN AsMap(E) /\ Restrict(AsMap(E), DOMAIN AsMap(E) \ {k}) = AsMap(E)
<1>1. k \notin DOMAIN AsMap(E)
  BY DEF AsMap
<1>2. DOMAIN AsMap(E) \ {k} = DOMAIN AsMap(E)
  BY <1>1
<1>3. AsMap(E) = [i \in DOMAIN AsMap(E) |-> AsMap(E)[i]]
  BY DEF AsMap
<1> QED BY <1>1, <1>2, <1>3 DEF Restrict

LEMMA AsMapEmpty == AsMap({}) = <<>>
  BY DEF AsMap

(* forEachValue() visits each value as often as an id has it. *)
LEMMA Visits ==
  ASSUME NEW t, NEW n, Sound(t, n), NEW v
  PROVE  Cardinality({i \in DOMAIN t : t[i] # Null /\ t[i].val = v})
           = Cardinality({k \in DOMAIN AsMap(Entries(t)) : AsMap(Entries(t))[k] = v})
<1>1. IsTable(t, n) /\ Unique(t, n) /\ n \in Nat
  BY DEF Sound, IsTable
<1>2. DOMAIN t = 0 .. n - 1
  BY <1>1, TableIs
<1>3. PICK E : E = Entries(t)
  OBVIOUS
<1>4. OneEach(E)
  BY <1>3, OneEntryEach
<1>5. \A e : e \in E <=> e # Null /\ \E x \in 0 .. n - 1 : e = t[x]
  BY <1>1, <1>3, EntriesAre
<1>6. DOMAIN AsMap(E) = {e.id : e \in E} /\ \A e \in E : AsMap(E)[e.id] = e.val
  BY <1>4, AsMapIs
<1>7. PICK S : S = {i \in DOMAIN t : t[i] # Null /\ t[i].val = v}
  OBVIOUS
<1>8. PICK T : T = {k \in DOMAIN AsMap(E) : AsMap(E)[k] = v}
  OBVIOUS
<1>9. S \in SUBSET (0 .. n - 1) /\ \A i : i \in S <=> i \in 0 .. n - 1 /\ t[i] # Null /\ t[i].val = v
  BY <1>2, <1>7
<1>10. IsFiniteSet(0 .. n - 1)
  BY <1>1, FS_Interval
<1>11. IsFiniteSet(S)
  BY <1>9, <1>10, FS_Subset
<1>12. \A i \in S : t[i].id \in T
  BY <1>5, <1>6, <1>8, <1>9
<1>13. ASSUME NEW k \in T PROVE \E i \in S : t[i].id = k
  <2>1. PICK e \in E : e.id = k /\ AsMap(E)[k] = v
    BY <1>6, <1>8
  <2>2. e.val = v
    BY <1>6, <2>1
  <2> QED BY <1>5, <1>9, <2>1, <2>2
<1>14. \A i \in S, j \in S : t[i].id = t[j].id => i = j
  BY <1>1, <1>9 DEF Unique
<1> DEFINE f == [i \in S |-> t[i].id]
<1>15. \A i \in S : f[i] = t[i].id
  OBVIOUS
<1>16. f \in [S -> T]
  BY <1>12
<1> HIDE DEF f
<1>17. f \in Bijection(S, T)
  BY <1>13, <1>14, <1>15, <1>16 DEF Bijection, Injection, Surjection, IsInjective
<1>18. ExistsBijection(S, T)
  BY <1>17 DEF ExistsBijection
<1>19. Cardinality(T) = Cardinality(S)
  BY <1>11, <1>18, FS_Bijection
<1> QED BY <1>3, <1>7, <1>8, <1>19

LEMMA DictionarySteps ==
  ASSUME MapInv, [MapNext]_mapVars
  PROVE  [Dict!Next]_(Dict!vars)
<1>1. PICK E, F : E = Entries(table) /\ F = Entries(table')
  OBVIOUS
<1>2. PICK n : IsTable(table, n) /\ Sound(table, n)
  BY MapInvIs
<1>3. OneEach(E)
  BY <1>1, <1>2, OneEntryEach
<1>4. ASSUME MapInv' PROVE OneEach(F)
  <2>1. PICK t, m : t = table' /\ m = SlotsOf(t)
    OBVIOUS
  <2>2. Sound(table, SlotsOf(table))'
    BY <1>4 DEF MapInv
  <2>3. Unique(t, m) /\ IsTable(t, m)
    BY <2>1, <2>2 DEF Sound, Unique, IsTable, SlotsOf
  <2>4. /\ \A e : e \in F <=> e # Null /\ \E x \in 0 .. m - 1 : e = t[x]
        /\ F \subseteq Pairs
    BY <1>1, <2>1, <2>3, EntriesAre
  <2>5. ASSUME NEW e \in F, NEW f \in F, e.id = f.id PROVE e = f
    <3>1. PICK x \in 0 .. m - 1, y \in 0 .. m - 1 : e # Null /\ f # Null /\ e = t[x] /\ f = t[y]
      BY <2>4
    <3>2. x = y
      BY <2>3, <2>5, <3>1 DEF Unique
    <3> QED BY <3>1, <3>2
  <2> QED BY <2>4, <2>5 DEF OneEach
<1>5. Mapped = AsMap(E) /\ Mapped' = AsMap(F) /\ F = Entries(table)'
  BY <1>1 DEF AsMap, Entries, Mapped
<1>6. ASSUME NEW k \in Ids, NEW v \in Values, SetId(k, v) PROVE Dict!Set(k, v)
  <2>1. MapInv' /\ F = Updated(E, Entry(k, v)) /\ answer' = Null
    BY <1>1, <1>5, <1>6, SetStep
  <2>2. PICK e \in Pairs : e = Entry(k, v)
    BY DEF Entry, Pairs
  <2>3. e.id = k /\ e.val = v
    BY <2>2 DEF Entry
  <2>4. OneEach(Updated(E, e))
    BY <1>4, <2>1, <2>2
  <2>5. AsMap(F) = [i \in DOMAIN AsMap(E) \cup {k} |-> IF i = k THEN v ELSE AsMap(E)[i]]
    BY <1>3, <2>1, <2>2, <2>3, <2>4, AsMapSet
  <2>6. Mapped' = [i \in DOMAIN Mapped \cup {k} |-> IF i = k THEN v ELSE Mapped[i]]
    BY <1>5, <2>5
  <2> QED BY <2>1, <2>6 DEF Dict!Set
<1>7. ASSUME NEW k \in Ids, RemoveId(k) PROVE Dict!Remove(k)
  <2>1. /\ MapInv'
        /\ \/ (\A e \in E : e.id # k) /\ F = E /\ answer' = Null
           \/ \E e \in E : e.id = k /\ F = E \ {e} /\ answer' = e.val
    BY <1>1, <1>5, <1>7, RemoveStep
  <2>2. CASE (\A e \in E : e.id # k) /\ F = E /\ answer' = Null
    <3>1. k \notin DOMAIN AsMap(E) /\ Restrict(AsMap(E), DOMAIN AsMap(E) \ {k}) = AsMap(E)
      BY <2>2, AsMapKept
    <3>2. k \notin DOMAIN Mapped /\ Mapped' = Restrict(Mapped, DOMAIN Mapped \ {k})
      BY <1>5, <2>2, <3>1
    <3>3. Mapped' = [i \in DOMAIN Mapped \ {k} |-> Mapped[i]]
      BY <3>2 DEF Restrict
    <3> QED BY <2>2, <3>2, <3>3 DEF Dict!Remove, Dict!Restrict
  <2>3. CASE \E e \in E : e.id = k /\ F = E \ {e} /\ answer' = e.val
    <3>1. PICK e \in E : e.id = k /\ F = E \ {e} /\ answer' = e.val
      BY <2>3
    <3>2. OneEach(E \ {e})
      BY <1>4, <2>1, <3>1
    <3>3. AsMap(F) = Restrict(AsMap(E), DOMAIN AsMap(E) \ {k})
      BY <1>3, <3>1, <3>2, AsMapRemove
    <3>4. k \in DOMAIN AsMap(E) /\ AsMap(E)[k] = e.val
      BY <1>3, <3>1, AsMapIs
    <3>5. k \in DOMAIN Mapped /\ Mapped[k] = answer' /\ Mapped' = [i \in DOMAIN Mapped \ {k} |-> Mapped[i]]
      BY <1>5, <3>1, <3>3, <3>4 DEF Restrict
    <3>6. /\ answer' = IF k \in DOMAIN Mapped THEN Mapped[k] ELSE Null
          /\ Mapped' = [i \in DOMAIN Mapped \ {k} |-> Mapped[i]]
      BY <3>5
    <3> QED BY <3>6, Zenon DEF Dict!Remove, Dict!Restrict
  <2> QED BY <2>1, <2>2, <2>3
<1>8. ASSUME ForEachValue PROVE Dict!ForEachValue
  <2>1. \A v : Cardinality({i \in DOMAIN table : table[i] # Null /\ table[i].val = v})
                 = Cardinality({k \in DOMAIN AsMap(E) : AsMap(E)[k] = v})
    <3> TAKE v
    <3>1. Cardinality({i \in DOMAIN table : table[i] # Null /\ table[i].val = v})
            = Cardinality({k \in DOMAIN AsMap(Entries(table)) : AsMap(Entries(table))[k] = v})
      BY <1>2, Visits, Zenon
    <3> QED BY <1>1, <3>1
  <2>2. \A v : Cardinality({i \in DOMAIN table : table[i] # Null /\ table[i].val = v})
                 = Cardinality({k \in DOMAIN Mapped : Mapped[k] = v})
    BY <1>5, <2>1
  <2>3. answer' = [v \in Values |-> Cardinality({k \in DOMAIN Mapped : Mapped[k] = v})]
    BY <1>8, <2>2 DEF ForEachValue
  <2>4. table' = table
    BY <1>8 DEF ForEachValue
  <2>5. Mapped' = Mapped
    BY <2>4 DEF Mapped, Entries
  <2>6. \A S : Dict!Cardinality(S) = Cardinality(S)
    BY DEF Dict!Cardinality, Cardinality
  <2>7. \A v : Dict!Cardinality({k \in DOMAIN Mapped : Mapped[k] = v})
                 = Cardinality({k \in DOMAIN Mapped : Mapped[k] = v})
    BY <2>6
  <2>8. answer' = [v \in Values |-> Dict!Cardinality({k \in DOMAIN Mapped : Mapped[k] = v})]
    BY <2>3, <2>7
  <2> QED BY <2>5, <2>8 DEF Dict!ForEachValue
<1>9. ASSUME ClearMap PROVE Dict!Clear
  <2>1. F = {} /\ answer' = Null
    BY <1>5, <1>9, ClearMapStep
  <2>2. Mapped' = <<>>
    BY <1>5, <2>1, AsMapEmpty
  <2> QED BY <2>1, <2>2 DEF Dict!Clear
<1>10. ASSUME UNCHANGED mapVars PROVE UNCHANGED Dict!vars
  <2>1. table' = table /\ answer' = answer
    BY <1>10 DEF mapVars
  <2>2. Mapped' = Mapped
    BY <2>1 DEF Mapped, Entries
  <2> QED BY <2>1, <2>2 DEF Dict!vars
<1> QED BY <1>6, <1>7, <1>8, <1>9, <1>10 DEF MapNext, Dict!Next

(* The pending-request table is a map: set(), remove(), forEachValue() and *)
(* clear() answer as one does, for every table size, every hash code and   *)
(* every sequence of calls.  No response finds its request gone, and       *)
(* shutdown() visits each pending request once.                            *)
THEOREM MapImplementsDictionary == MapSpec => MapContract
<1>1. MapInit => Dict!Init
  <2>1. SUFFICES ASSUME MapInit PROVE Dict!Init
    OBVIOUS
  <2>2. Entries(table) = {} /\ answer = Null
    <3>1. TableSize \in Nat /\ TableSize > 1
      BY TableAssumption
    <3>2. Entries(Vacant(TableSize)) = {}
      BY <3>1, VacantIs
    <3> QED BY <2>1, <3>2 DEF MapInit
  <2> QED BY <2>2, AsMapEmpty DEF Dict!Init, AsMap, Mapped
<1>2. MapInv /\ [MapNext]_mapVars => [Dict!Next]_(Dict!vars)
  BY DictionarySteps
<1>3. MapSpec => []MapInv
  BY MapInvariant
<1> QED BY <1>1, <1>2, <1>3, PTL DEF MapSpec, MapContract, Dict!Spec
=============================================================================
