---------------------- MODULE DensePriceOrderBookProofs -----------------------
(***************************************************************************)
(* Proofs about DensePriceOrderBook, for every capacity, price grid, set   *)
(* of requests and order of calls: the pool never leaks a node, and the    *)
(* total of a level, its bit and the best level are those of its queue;    *)
(* and the dense book implements the reference book of FeedBook.           *)
(*                                                                         *)
(* The two properties walk along lists, which no invariant of one step     *)
(* does.  DenseInv makes the lists local instead: it says of each node     *)
(* that its neighbours point back at it, and of two histories the code     *)
(* does not keep how they go on at the next node: ahead, the quantity in   *)
(* front of an order in its queue, and depth, the length of the free list  *)
(* from a free node on.  Both order their list strictly, so that no list   *)
(* has a loop and no two share a node.  The next part walks along the      *)
(* lists of a book with DenseInv, and finds the properties.                *)
(*                                                                         *)
(* For the refinement the queue of a level is a sequence again: Line is    *)
(* the only sequence that follows the links from the level's head to the   *)
(* end, and each order of the level is on it once.  What append, unlink    *)
(* and a reduction make of the links is then an Append, a RemovedAt or a   *)
(* smaller entry of one queue of the view, and each operation of the class *)
(* is the step of the reference book that the view and TakerOrder show.    *)
(***************************************************************************)
EXTENDS MCDenseOrderBook, FiniteSetTheorems, WellFoundedInduction, TLAPS

-----------------------------------------------------------------------------
(***************************************************************************)
(* The record of the class's fields.                                       *)
(***************************************************************************)
Link == Pool \cup {kInvalid}
NodeType == [id : OrderIds \cup {NoId}, side : Sides, price : Int, remaining : Int,
             previous : Link, next : Link, free_next : Link,
             level : LevelIndices \cup {kInvalid}]
LevelType == [head : Link, tail : Link, total : Int]

Book(nodes, levels, bitmap, best, index, free, active) ==
    [nodes |-> nodes, levels |-> levels, bitmap |-> bitmap, best |-> best,
     index |-> index, free |-> free, active |-> active]

IsIndex(index) == index = [x \in DOMAIN index |-> index[x]]

IsBook(k) ==
    /\ k = Book(k.nodes, k.levels, k.bitmap, k.best, k.index, k.free, k.active)
    /\ k.nodes \in [Pool -> NodeType]
    /\ k.levels \in [Sides -> [LevelIndices -> LevelType]]
    /\ k.bitmap \in [Sides -> SUBSET LevelIndices]
    /\ k.best \in [Sides -> LevelIndices \cup {kInvalid}]
    /\ IsIndex(k.index)
    /\ k.free \in Link /\ k.active \in Int

LEMMA Invalid == kInvalid \notin Pool /\ kInvalid \in Link /\ kInvalid \notin LevelIndices
BY DenseAssumption DEF Pool, Link, LevelIndices

LEMMA NodeFields ==
    ASSUME NEW k, IsBook(k), NEW i \in Pool
    PROVE  LET o == k.nodes[i]
           IN  /\ o \in NodeType /\ o.side \in Sides /\ o.price \in Int /\ o.remaining \in Int
               /\ o.previous \in Link /\ o.next \in Link /\ o.free_next \in Link
               /\ o.level \in LevelIndices \cup {kInvalid} /\ o.id \in OrderIds \cup {NoId}
BY DEF IsBook, NodeType

LEMMA LevelFields ==
    ASSUME NEW k, IsBook(k), NEW s \in Sides, NEW l \in LevelIndices
    PROVE  LET v == k.levels[s][l]
           IN  v \in LevelType /\ v.head \in Link /\ v.tail \in Link /\ v.total \in Int
BY DEF IsBook, LevelType

LEMMA BookFields ==
    ASSUME NEW nodes, NEW levels, NEW bitmap, NEW best, NEW index, NEW free, NEW active
    PROVE  LET k == Book(nodes, levels, bitmap, best, index, free, active)
           IN  /\ k.nodes = nodes /\ k.levels = levels /\ k.bitmap = bitmap /\ k.best = best
               /\ k.index = index /\ k.free = free /\ k.active = active
BY DEF Book

LEMMA SetNodes ==
    ASSUME NEW nodes, NEW levels, NEW bitmap, NEW best, NEW index, NEW free, NEW active, NEW x
    PROVE  [Book(nodes, levels, bitmap, best, index, free, active) EXCEPT !.nodes = x] =
             Book(x, levels, bitmap, best, index, free, active)
BY DEF Book

LEMMA SetLevels ==
    ASSUME NEW nodes, NEW levels, NEW bitmap, NEW best, NEW index, NEW free, NEW active, NEW x
    PROVE  [Book(nodes, levels, bitmap, best, index, free, active) EXCEPT !.levels = x] =
             Book(nodes, x, bitmap, best, index, free, active)
BY DEF Book

LEMMA SetBitmap ==
    ASSUME NEW nodes, NEW levels, NEW bitmap, NEW best, NEW index, NEW free, NEW active, NEW x
    PROVE  [Book(nodes, levels, bitmap, best, index, free, active) EXCEPT !.bitmap = x] =
             Book(nodes, levels, x, best, index, free, active)
BY DEF Book

LEMMA SetBest ==
    ASSUME NEW nodes, NEW levels, NEW bitmap, NEW best, NEW index, NEW free, NEW active, NEW x
    PROVE  [Book(nodes, levels, bitmap, best, index, free, active) EXCEPT !.best = x] =
             Book(nodes, levels, bitmap, x, index, free, active)
BY DEF Book

LEMMA SetIndex ==
    ASSUME NEW nodes, NEW levels, NEW bitmap, NEW best, NEW index, NEW free, NEW active, NEW x
    PROVE  [Book(nodes, levels, bitmap, best, index, free, active) EXCEPT !.index = x] =
             Book(nodes, levels, bitmap, best, x, free, active)
BY DEF Book

LEMMA SetFree ==
    ASSUME NEW nodes, NEW levels, NEW bitmap, NEW best, NEW index, NEW free, NEW active, NEW x
    PROVE  [Book(nodes, levels, bitmap, best, index, free, active) EXCEPT !.free = x] =
             Book(nodes, levels, bitmap, best, index, x, active)
BY DEF Book

LEMMA SetActive ==
    ASSUME NEW nodes, NEW levels, NEW bitmap, NEW best, NEW index, NEW free, NEW active, NEW x
    PROVE  [Book(nodes, levels, bitmap, best, index, free, active) EXCEPT !.active = x] =
             Book(nodes, levels, bitmap, best, index, free, x)
BY DEF Book

\* A book with one field written.
LEMMA WriteField ==
    ASSUME NEW k, IsBook(k), NEW x
    PROVE  /\ [k EXCEPT !.nodes = x] = Book(x, k.levels, k.bitmap, k.best, k.index, k.free, k.active)
           /\ [k EXCEPT !.levels = x] = Book(k.nodes, x, k.bitmap, k.best, k.index, k.free, k.active)
           /\ [k EXCEPT !.bitmap = x] = Book(k.nodes, k.levels, x, k.best, k.index, k.free, k.active)
           /\ [k EXCEPT !.best = x] = Book(k.nodes, k.levels, k.bitmap, x, k.index, k.free, k.active)
           /\ [k EXCEPT !.index = x] = Book(k.nodes, k.levels, k.bitmap, k.best, x, k.free, k.active)
           /\ [k EXCEPT !.free = x] = Book(k.nodes, k.levels, k.bitmap, k.best, k.index, x, k.active)
           /\ [k EXCEPT !.active = x] = Book(k.nodes, k.levels, k.bitmap, k.best, k.index, k.free, x)
<1> DEFINE j == Book(k.nodes, k.levels, k.bitmap, k.best, k.index, k.free, k.active)
<1>1. k = j
  BY DEF IsBook
<1>2. [j EXCEPT !.nodes = x] = Book(x, k.levels, k.bitmap, k.best, k.index, k.free, k.active)
  BY SetNodes
<1>3. [j EXCEPT !.levels = x] = Book(k.nodes, x, k.bitmap, k.best, k.index, k.free, k.active)
  BY SetLevels
<1>4. [j EXCEPT !.bitmap = x] = Book(k.nodes, k.levels, x, k.best, k.index, k.free, k.active)
  BY SetBitmap
<1>5. [j EXCEPT !.best = x] = Book(k.nodes, k.levels, k.bitmap, x, k.index, k.free, k.active)
  BY SetBest
<1>6. [j EXCEPT !.index = x] = Book(k.nodes, k.levels, k.bitmap, k.best, x, k.free, k.active)
  BY SetIndex
<1>7. [j EXCEPT !.free = x] = Book(k.nodes, k.levels, k.bitmap, k.best, k.index, x, k.active)
  BY SetFree
<1>8. [j EXCEPT !.active = x] = Book(k.nodes, k.levels, k.bitmap, k.best, k.index, k.free, x)
  BY SetActive
<1> HIDE DEF j
<1> QED
  BY <1>1, <1>2, <1>3, <1>4, <1>5, <1>6, <1>7, <1>8

-----------------------------------------------------------------------------
(***************************************************************************)
(* The best level of a side.                                               *)
(***************************************************************************)
LEMMA LeastNat ==
    ASSUME NEW T \in SUBSET Nat, T # {}
    PROVE  \E m \in T : \A k \in T : m <= k
<1>1. IsWellFoundedOn(OpToRel(<, Nat), Nat)
  BY NatLessThanWellFounded
<1> DEFINE R == OpToRel(<, Nat)
<1>2. \A x, y \in Nat : x < y => <<x, y>> \in R
  BY DEF OpToRel
<1> HIDE DEF R
<1>3. IsWellFoundedOn(R, Nat)
  BY <1>1 DEF R
<1>4. PICK x \in T : \A y \in T : ~(<<y, x>> \in R)
  BY <1>3, WFMin
<1>5. ASSUME NEW k \in T PROVE x <= k
  <2>1. ~(<<k, x>> \in R) /\ k \in Nat /\ x \in Nat
    BY <1>4
  <2>2. ~(k < x)
    BY <1>2, <2>1
  <2> QED
    BY <2>1, <2>2
<1> QED
  BY <1>5

Better(side, l, o) == IF side = "Buy" THEN l >= o ELSE l <= o
Leads(side, l, occupied) == l \in occupied /\ \A o \in occupied : Better(side, l, o)

LEMMA LeaderExists ==
    ASSUME NEW side, NEW occupied \in SUBSET LevelIndices, occupied # {}
    PROVE  \E l : Leads(side, l, occupied)
<1>1. LevelCount \in Nat /\ \A l \in occupied : l \in Nat /\ LevelCount - l \in Nat
  BY DenseAssumption DEF LevelIndices
<1>2. CASE side = "Buy"
  <2> DEFINE T == {LevelCount - l : l \in occupied}
  <2>1. T \in SUBSET Nat /\ T # {}
    BY <1>1
  <2>2. \A n \in T : \E l \in occupied : n = LevelCount - l
    OBVIOUS
  <2>3. \A l \in occupied : LevelCount - l \in T
    OBVIOUS
  <2> HIDE DEF T
  <2>4. PICK m \in T : \A k \in T : m <= k
    BY <2>1, LeastNat
  <2>5. PICK l \in occupied : m = LevelCount - l
    BY <2>2
  <2>6. \A o \in occupied : l >= o
    BY <1>1, <2>3, <2>4, <2>5
  <2> QED
    BY <1>2, <2>6 DEF Leads, Better
<1>3. CASE side # "Buy"
  <2>1. occupied \in SUBSET Nat
    BY <1>1
  <2>2. PICK l \in occupied : \A o \in occupied : l <= o
    BY <2>1, LeastNat
  <2> QED
    BY <1>3, <2>2 DEF Leads, Better
<1> QED
  BY <1>2, <1>3

LEMMA FindBestLeads ==
    ASSUME NEW side, NEW occupied \in SUBSET LevelIndices, occupied # {}
    PROVE  Leads(side, FindBest(side, occupied), occupied)
<1>1. \E l \in occupied : \A o \in occupied : IF side = "Buy" THEN l >= o ELSE l <= o
  BY LeaderExists DEF Leads, Better
<1> QED
  BY <1>1 DEF Leads, Better, FindBest

LEMMA LeaderIsBest ==
    ASSUME NEW side, NEW occupied \in SUBSET LevelIndices, NEW l, Leads(side, l, occupied)
    PROVE  FindBest(side, occupied) = l
<1>1. occupied # {} /\ l \in occupied
  BY DEF Leads
<1>2. Leads(side, FindBest(side, occupied), occupied)
  BY <1>1, FindBestLeads
<1>3. PICK f : f = FindBest(side, occupied)
  OBVIOUS
<1>4. Better(side, l, f) /\ Better(side, f, l) /\ f \in occupied
  BY <1>1, <1>2, <1>3 DEF Leads
<1>5. f \in Int /\ l \in Int
  BY <1>1, <1>4 DEF LevelIndices
<1>6. f = l
  BY <1>4, <1>5 DEF Better
<1> QED
  BY <1>3, <1>6

LEMMA NoBest ==
    ASSUME NEW side
    PROVE  FindBest(side, {}) = kInvalid
BY DEF FindBest

LEMMA BestIsLevel ==
    ASSUME NEW side, NEW occupied \in SUBSET LevelIndices
    PROVE  /\ FindBest(side, occupied) \in LevelIndices \cup {kInvalid}
           /\ FindBest(side, occupied) = kInvalid <=> occupied = {}
<1>1. kInvalid \notin LevelIndices
  BY DenseAssumption DEF LevelIndices
<1>2. CASE occupied = {}
  BY <1>2, NoBest
<1>3. CASE occupied # {}
  BY <1>1, <1>3, FindBestLeads DEF Leads
<1> QED
  BY <1>2, <1>3

\* set_occupied and clear_occupied keep the best level.
LEMMA BestWith ==
    ASSUME NEW side, NEW occupied \in SUBSET LevelIndices, NEW level \in LevelIndices,
           NEW best, best = FindBest(side, occupied)
    PROVE  FindBest(side, occupied \cup {level}) =
             IF \/ best = kInvalid
                \/ IF side = "Buy" THEN level > best ELSE level < best
             THEN level ELSE best
<1> DEFINE more == occupied \cup {level}
<1>1. level \in Int /\ \A o \in more : o \in Int
  BY DEF LevelIndices
<1>2. more \in SUBSET LevelIndices
  OBVIOUS
<1>3. CASE occupied = {}
  <2>1. best = kInvalid
    BY <1>3, NoBest
  <2>2. Leads(side, level, more)
    BY <1>1, <1>3 DEF Leads, Better
  <2> QED
    BY <1>2, <2>1, <2>2, LeaderIsBest
<1>4. CASE occupied # {}
  <2>1. Leads(side, best, occupied) /\ best # kInvalid
    BY <1>4, FindBestLeads, BestIsLevel
  <2>2. best \in more /\ best \in Int /\ \A o \in occupied : o \in Int /\ Better(side, best, o)
    BY <1>1, <2>1 DEF Leads
  <2>3. CASE IF side = "Buy" THEN level > best ELSE level < best
    <3>1. Leads(side, level, more)
      BY <1>1, <2>2, <2>3 DEF Leads, Better
    <3> QED
      BY <1>2, <2>3, <3>1, LeaderIsBest
  <2>4. CASE ~(IF side = "Buy" THEN level > best ELSE level < best)
    <3>1. Leads(side, best, more)
      BY <1>1, <2>2, <2>4 DEF Leads, Better
    <3> QED
      BY <1>2, <2>1, <2>4, <3>1, LeaderIsBest
  <2> QED
    BY <2>3, <2>4
<1> QED
  BY <1>3, <1>4

LEMMA BestWithout ==
    ASSUME NEW side, NEW occupied \in SUBSET LevelIndices, NEW level,
           NEW best, best = FindBest(side, occupied), best # level
    PROVE  FindBest(side, occupied \ {level}) = best
<1>1. CASE occupied = {}
  <2>1. occupied \ {level} = occupied
    BY <1>1
  <2> QED
    BY <2>1
<1>2. CASE occupied # {}
  <2>1. Leads(side, best, occupied)
    BY <1>2, FindBestLeads
  <2>2. Leads(side, best, occupied \ {level})
    BY <2>1 DEF Leads
  <2>3. occupied \ {level} \in SUBSET LevelIndices
    OBVIOUS
  <2> QED
    BY <2>2, <2>3, LeaderIsBest
<1> QED
  BY <1>1, <1>2

-----------------------------------------------------------------------------
(***************************************************************************)
(* Nodes.                                                                  *)
(***************************************************************************)
\* Everything but the links.
SameOrder(o, p) ==
    /\ p.id = o.id /\ p.side = o.side /\ p.price = o.price /\ p.remaining = o.remaining
    /\ p.free_next = o.free_next /\ p.level = o.level

WithPrevious(o, x) == [o EXCEPT !.previous = x]
WithNext(o, x) == [o EXCEPT !.next = x]
Isolated(o) == [o EXCEPT !.previous = kInvalid, !.next = kInvalid]

LEMMA NodeLinks ==
    ASSUME NEW o \in NodeType, NEW x \in Link
    PROVE  /\ WithPrevious(o, x) \in NodeType /\ SameOrder(o, WithPrevious(o, x))
           /\ WithPrevious(o, x).previous = x /\ WithPrevious(o, x).next = o.next
           /\ WithNext(o, x) \in NodeType /\ SameOrder(o, WithNext(o, x))
           /\ WithNext(o, x).next = x /\ WithNext(o, x).previous = o.previous
BY DEF NodeType, SameOrder, WithPrevious, WithNext

LEMMA NodeIsolated ==
    ASSUME NEW o \in NodeType
    PROVE  /\ Isolated(o) \in NodeType /\ SameOrder(o, Isolated(o))
           /\ Isolated(o).previous = kInvalid /\ Isolated(o).next = kInvalid
<1>1. PICK q : q = WithPrevious(o, kInvalid)
  OBVIOUS
<1>2. kInvalid \in Link
  BY DEF Link
<1>3. q \in NodeType /\ SameOrder(o, q) /\ q.previous = kInvalid
  BY <1>1, <1>2, NodeLinks
<1>4. Isolated(o) = WithNext(q, kInvalid)
  BY <1>1 DEF Isolated, WithNext, WithPrevious
<1>5. PICK p : p = WithNext(q, kInvalid)
  OBVIOUS
<1>6. p \in NodeType /\ SameOrder(q, p) /\ p.next = kInvalid /\ p.previous = q.previous
  BY <1>2, <1>3, <1>5, NodeLinks
<1>7. SameOrder(o, p)
  BY <1>3, <1>6 DEF SameOrder
<1> QED
  BY <1>3, <1>4, <1>5, <1>6, <1>7

LEMMA NodeRemaining ==
    ASSUME NEW o \in NodeType, NEW x \in Int
    PROVE  LET p == [o EXCEPT !.remaining = x]
           IN  /\ p \in NodeType /\ p.remaining = x
               /\ p.id = o.id /\ p.side = o.side /\ p.price = o.price
               /\ p.previous = o.previous /\ p.next = o.next
               /\ p.free_next = o.free_next /\ p.level = o.level
BY DEF NodeType

-----------------------------------------------------------------------------
(***************************************************************************)
(* Bitmap and best levels.                                                 *)
(***************************************************************************)
Bits(k) ==
    \A s \in Sides :
       /\ \A l \in LevelIndices : l \in k.bitmap[s] <=> k.levels[s][l].head # kInvalid
       /\ k.best[s] = FindBest(s, k.bitmap[s])

\* The same, but for one level.
BitsBut(k, side, level) ==
    \A s \in Sides :
       /\ \A l \in LevelIndices :
             (s # side \/ l # level) => (l \in k.bitmap[s] <=> k.levels[s][l].head # kInvalid)
       /\ k.best[s] = FindBest(s, k.bitmap[s])

SameRest(k, u) == u.index = k.index /\ u.free = k.free /\ u.active = k.active

\* What a book becomes when the bit of a level and the best level are written.
Flagged(k, bitmap, best) ==
    Book(k.nodes, k.levels, bitmap, best, k.index, k.free, k.active)

Flag(k, side, x, y) == [k EXCEPT !.bitmap[side] = x, !.best[side] = y]

LEMMA FlaggedIs ==
    ASSUME NEW k, IsBook(k), NEW side \in Sides, NEW x, NEW y
    PROVE  Flag(k, side, x, y) =
             Flagged(k, [k.bitmap EXCEPT ![side] = x], [k.best EXCEPT ![side] = y])
<1> DEFINE m == [k.bitmap EXCEPT ![side] = x]
           n == [k.best EXCEPT ![side] = y]
           j == [k EXCEPT !.bitmap = m]
<1>1. j = Book(k.nodes, k.levels, m, k.best, k.index, k.free, k.active)
  BY WriteField
<1>2. j.best = k.best
  BY <1>1, BookFields
<1>3. [k EXCEPT !.bitmap[side] = x, !.best[side] = y] = [j EXCEPT !.best[side] = y]
  OBVIOUS
<1> HIDE DEF j
<1>4. [j EXCEPT !.best[side] = y] = [j EXCEPT !.best = n]
  BY <1>2
<1> HIDE DEF m, n
<1>5. [j EXCEPT !.best = n] = Book(k.nodes, k.levels, m, n, k.index, k.free, k.active)
  BY <1>1, SetBest
<1> QED
  BY <1>3, <1>4, <1>5 DEF Flag, Flagged, m, n

LEMMA FlaggedBook ==
    ASSUME NEW k, IsBook(k), NEW bitmap \in [Sides -> SUBSET LevelIndices],
           NEW best \in [Sides -> LevelIndices \cup {kInvalid}],
           NEW u, u = Flagged(k, bitmap, best)
    PROVE  /\ IsBook(u) /\ u.nodes = k.nodes /\ u.levels = k.levels /\ SameRest(k, u)
           /\ u.bitmap = bitmap /\ u.best = best
<1>1. /\ u.nodes = k.nodes /\ u.levels = k.levels /\ u.index = k.index /\ u.free = k.free
      /\ u.active = k.active /\ u.bitmap = bitmap /\ u.best = best
  BY BookFields DEF Flagged
<1>2. u = Book(u.nodes, u.levels, u.bitmap, u.best, u.index, u.free, u.active)
  BY <1>1 DEF Flagged
<1>3. IsBook(u)
  BY <1>1, <1>2 DEF IsBook
<1> QED
  BY <1>1, <1>3 DEF SameRest

LEMMA ClearBits ==
    ASSUME NEW k, IsBook(k), NEW side \in Sides, NEW level \in LevelIndices,
           BitsBut(k, side, level), level \in k.bitmap[side],
           NEW u, u = ClearIfEmpty(k, side, level)
    PROVE  IsBook(u) /\ Bits(u) /\ u.nodes = k.nodes /\ u.levels = k.levels /\ SameRest(k, u)
<1>1. CASE k.levels[side][level].head # kInvalid
  <2>1. u = k
    BY <1>1 DEF ClearIfEmpty
  <2>2. Bits(k)
    BY <1>1 DEF Bits, BitsBut
  <2> QED
    BY <2>1, <2>2 DEF SameRest
<1>2. CASE k.levels[side][level].head = kInvalid
  <2> DEFINE rest == k.bitmap[side] \ {level}
             y == IF k.best[side] = level THEN FindBest(side, rest) ELSE k.best[side]
             m == [k.bitmap EXCEPT ![side] = rest]
             n == [k.best EXCEPT ![side] = y]
  <2>1. u = [k EXCEPT !.bitmap[side] = rest, !.best[side] = y]
    BY <1>2 DEF ClearIfEmpty
  <2>2. rest \in SUBSET LevelIndices /\ k.bitmap[side] \in SUBSET LevelIndices
    BY DEF IsBook
  <2>3. y = FindBest(side, rest)
    <3>1. PICK best : best = k.best[side] /\ best = FindBest(side, k.bitmap[side])
      BY DEF BitsBut
    <3>2. best # level => FindBest(side, rest) = best
      BY <2>2, <3>1, BestWithout
    <3> QED
      BY <3>1, <3>2
  <2>4. y \in LevelIndices \cup {kInvalid}
    BY <2>2, <2>3, BestIsLevel
  <2>5. m \in [Sides -> SUBSET LevelIndices]
    BY <2>2 DEF IsBook
  <2> HIDE DEF y
  <2>6. n \in [Sides -> LevelIndices \cup {kInvalid}]
    BY <2>4 DEF IsBook
  <2>7. u = Flagged(k, m, n)
    <3> HIDE DEF rest
    <3>1. u = Flag(k, side, rest, y)
      BY <2>1 DEF Flag
    <3> QED
      BY <3>1, FlaggedIs
  <2>8. m[side] = rest /\ n[side] = y /\ \A s \in Sides : s # side => m[s] = k.bitmap[s] /\ n[s] = k.best[s]
    BY DEF IsBook
  <2>9. level \notin rest /\ \A l \in LevelIndices : l # level => (l \in rest <=> l \in k.bitmap[side])
    OBVIOUS
  <2> HIDE DEF m, n, rest
  <2>10. /\ IsBook(u) /\ u.nodes = k.nodes /\ u.levels = k.levels /\ SameRest(k, u)
         /\ u.bitmap = m /\ u.best = n
    BY <2>5, <2>6, <2>7, FlaggedBook
  <2>11. ASSUME NEW s \in Sides
         PROVE  /\ \A l \in LevelIndices : l \in m[s] <=> k.levels[s][l].head # kInvalid
                /\ n[s] = FindBest(s, m[s])
    <3>1. CASE s = side
      BY <3>1, <2>3, <2>8, <2>9, <1>2 DEF BitsBut
    <3>2. CASE s # side
      BY <3>2, <2>8 DEF BitsBut
    <3> QED
      BY <3>1, <3>2
  <2>12. Bits(u)
    BY <2>10, <2>11 DEF Bits
  <2> QED
    BY <2>10, <2>12
<1> QED
  BY <1>1, <1>2

LEMMA OccupyBits ==
    ASSUME NEW k, IsBook(k), NEW side \in Sides, NEW level \in LevelIndices,
           BitsBut(k, side, level), k.levels[side][level].head # kInvalid,
           NEW u, u = SetOccupied(k, side, level)
    PROVE  IsBook(u) /\ Bits(u) /\ u.nodes = k.nodes /\ u.levels = k.levels /\ SameRest(k, u)
<1> DEFINE more == k.bitmap[side] \cup {level}
           best == k.best[side]
           y == IF \/ best = kInvalid
                   \/ IF side = "Buy" THEN level > best ELSE level < best
                THEN level ELSE best
           m == [k.bitmap EXCEPT ![side] = more]
           n == [k.best EXCEPT ![side] = y]
<1>1. u = [k EXCEPT !.bitmap[side] = more, !.best[side] = y]
  BY DEF SetOccupied
<1>2. more \in SUBSET LevelIndices /\ k.bitmap[side] \in SUBSET LevelIndices
  BY DEF IsBook
<1>3. FindBest(side, more) = y
  <2>1. best = FindBest(side, k.bitmap[side])
    BY DEF BitsBut
  <2> HIDE DEF best
  <2> QED
    BY <1>2, <2>1, BestWith
<1>4. y \in LevelIndices \cup {kInvalid}
  BY <1>2, <1>3, BestIsLevel
<1>5. m \in [Sides -> SUBSET LevelIndices]
  BY <1>2 DEF IsBook
<1> HIDE DEF y
<1>6. n \in [Sides -> LevelIndices \cup {kInvalid}]
  BY <1>4 DEF IsBook
<1>7. u = Flagged(k, m, n)
  <2> HIDE DEF more
  <2>1. u = Flag(k, side, more, y)
    BY <1>1 DEF Flag
  <2> QED
    BY <2>1, FlaggedIs
<1>8. m[side] = more /\ n[side] = y /\ \A s \in Sides : s # side => m[s] = k.bitmap[s] /\ n[s] = k.best[s]
  BY DEF IsBook
<1>9. level \in more /\ \A l \in LevelIndices : l # level => (l \in more <=> l \in k.bitmap[side])
  OBVIOUS
<1> HIDE DEF m, n, more
<1>10. /\ IsBook(u) /\ u.nodes = k.nodes /\ u.levels = k.levels /\ SameRest(k, u)
       /\ u.bitmap = m /\ u.best = n
  BY <1>5, <1>6, <1>7, FlaggedBook
<1>11. ASSUME NEW s \in Sides
       PROVE  /\ \A l \in LevelIndices : l \in m[s] <=> k.levels[s][l].head # kInvalid
              /\ n[s] = FindBest(s, m[s])
  <2>1. CASE s = side
    BY <2>1, <1>3, <1>8, <1>9 DEF BitsBut
  <2>2. CASE s # side
    BY <2>2, <1>8 DEF BitsBut
  <2> QED
    BY <2>1, <2>2
<1>12. Bits(u)
  BY <1>10, <1>11 DEF Bits
<1> QED
  BY <1>10, <1>12

-----------------------------------------------------------------------------
(***************************************************************************)
(* Writing the links.                                                      *)
(***************************************************************************)
Relink(k, N, L) == [k EXCEPT !.nodes = N, !.levels = L]

LEMMA RelinkBook ==
    ASSUME NEW k, IsBook(k), NEW N \in [Pool -> NodeType],
           NEW L \in [Sides -> [LevelIndices -> LevelType]], NEW u, u = Relink(k, N, L)
    PROVE  /\ IsBook(u) /\ u.nodes = N /\ u.levels = L /\ u.bitmap = k.bitmap
           /\ u.best = k.best /\ SameRest(k, u)
<1> DEFINE j == [k EXCEPT !.nodes = N]
<1>1. j = Book(N, k.levels, k.bitmap, k.best, k.index, k.free, k.active)
  BY WriteField
<1>2. Relink(k, N, L) = [j EXCEPT !.levels = L]
  BY DEF Relink
<1> HIDE DEF j
<1>3. u = Book(N, L, k.bitmap, k.best, k.index, k.free, k.active)
  BY <1>1, <1>2, SetLevels
<1>4. /\ u.nodes = N /\ u.levels = L /\ u.index = k.index /\ u.free = k.free
      /\ u.active = k.active /\ u.bitmap = k.bitmap /\ u.best = k.best
  BY <1>3, BookFields
<1>5. u = Book(u.nodes, u.levels, u.bitmap, u.best, u.index, u.free, u.active)
  BY <1>3, <1>4
<1>6. IsBook(u)
  BY <1>4, <1>5 DEF IsBook
<1> QED
  BY <1>4, <1>6 DEF SameRest

\* The levels with one of them written.
LevelsWith(L, s, l, v) == [L EXCEPT ![s][l] = v]

Rewrites(L, M, s, l, v) ==
    /\ M \in [Sides -> [LevelIndices -> LevelType]] /\ M[s][l] = v
    /\ \A r \in Sides : \A m \in LevelIndices : (r # s \/ m # l) => M[r][m] = L[r][m]

LEMMA LevelWritten ==
    ASSUME NEW L \in [Sides -> [LevelIndices -> LevelType]], NEW s \in Sides,
           NEW l \in LevelIndices, NEW v \in LevelType
    PROVE  Rewrites(L, LevelsWith(L, s, l, v), s, l, v)
BY DEF LevelsWith, Rewrites

\* No two of an order and its neighbours are the same.
Apart(o, i) ==
    o.previous # i /\ o.next # i /\ (o.previous # o.next \/ o.next = kInvalid)

\* The head and the tail of the level and the nodes next to the order close
\* the hole that it leaves.
Bypassed(k, u, i) ==
    LET o == k.nodes[i]
        v == k.levels[o.side][o.level]
        w == u.levels[o.side][o.level]
    IN  /\ u.nodes[i].next = kInvalid
        /\ u.nodes[i].id = o.id /\ u.nodes[i].side = o.side
        /\ \A n \in Pool \ {i} :
              /\ SameOrder(k.nodes[n], u.nodes[n])
              /\ u.nodes[n].next = IF n = o.previous THEN o.next ELSE k.nodes[n].next
              /\ u.nodes[n].previous =
                    IF n = o.next THEN o.previous ELSE k.nodes[n].previous
        /\ w.head = IF o.previous = kInvalid THEN o.next ELSE v.head
        /\ w.tail = IF o.next = kInvalid THEN o.previous ELSE v.tail
        /\ w.total = v.total - o.remaining
        /\ \A s \in Sides : \A l \in LevelIndices :
              (s # o.side \/ l # o.level) => u.levels[s][l] = k.levels[s][l]

UnlinkedNode(k, i, n) ==
    CASE n = i -> Isolated(k.nodes[n])
      [] n = k.nodes[i].previous -> WithNext(k.nodes[n], k.nodes[i].next)
      [] n = k.nodes[i].next -> WithPrevious(k.nodes[n], k.nodes[i].previous)
      [] OTHER -> k.nodes[n]
UnlinkedLevel(o, v) ==
    [head  |-> IF o.previous = kInvalid THEN o.next ELSE v.head,
     tail  |-> IF o.next = kInvalid THEN o.previous ELSE v.tail,
     total |-> v.total - o.remaining]

LEMMA UnlinkNode ==
    ASSUME NEW k, IsBook(k), NEW i \in Pool, NEW n \in Pool,
           Apart(k.nodes[i], i)
    PROVE  LET o == k.nodes[i]
               p == UnlinkedNode(k, i, n)
           IN  /\ p \in NodeType /\ SameOrder(k.nodes[n], p)
               /\ n = i => p.next = kInvalid
               /\ n # i => /\ p.next = IF n = o.previous THEN o.next ELSE k.nodes[n].next
                           /\ p.previous = IF n = o.next THEN o.previous
                                           ELSE k.nodes[n].previous
<1> DEFINE o == k.nodes[i]
           p == UnlinkedNode(k, i, n)
<1>1. /\ k.nodes[n] \in NodeType /\ k.nodes[i] \in NodeType
      /\ o.previous \in Link /\ o.next \in Link /\ kInvalid \in Link /\ kInvalid \notin Pool
  BY Invalid, NodeFields
<1>2. CASE n = i
  <2>1. p = Isolated(k.nodes[n])
    BY <1>2 DEF UnlinkedNode, Apart
  <2> HIDE DEF p
  <2>2. p \in NodeType /\ SameOrder(k.nodes[n], p) /\ p.next = kInvalid
    BY <2>1, <1>1, NodeIsolated
  <2> QED
    BY <1>2, <2>2 DEF p
<1>3. CASE n # i /\ n = o.previous
  <2>1. p = WithNext(k.nodes[n], o.next)
    BY <1>1, <1>3 DEF UnlinkedNode, Apart
  <2>2. n # o.next
    BY <1>1, <1>3 DEF Apart
  <2> HIDE DEF p
  <2>3. /\ p \in NodeType /\ SameOrder(k.nodes[n], p) /\ p.next = o.next
        /\ p.previous = k.nodes[n].previous
    BY <2>1, <1>1, NodeLinks
  <2> QED
    BY <1>3, <2>2, <2>3 DEF p
<1>4. CASE n # i /\ n # o.previous /\ n = o.next
  <2>1. p = WithPrevious(k.nodes[n], o.previous)
    BY <1>4 DEF UnlinkedNode
  <2> HIDE DEF p
  <2>3. /\ p \in NodeType /\ SameOrder(k.nodes[n], p) /\ p.previous = o.previous
        /\ p.next = k.nodes[n].next
    BY Zenon, <2>1, <1>1, NodeLinks
  <2> QED
    BY <1>4, <2>3 DEF p
<1>5. CASE n # i /\ n # o.previous /\ n # o.next
  <2>1. p = k.nodes[n]
    BY <1>5 DEF UnlinkedNode
  <2> QED
    BY <1>1, <1>5, <2>1 DEF SameOrder
<1> QED
  BY <1>2, <1>3, <1>4, <1>5

\* unlink.
LEMMA UnlinkBypasses ==
    ASSUME NEW k, IsBook(k), Bits(k), NEW i \in Pool, k.nodes[i].level \in LevelIndices,
           Apart(k.nodes[i], i),
           k.levels[k.nodes[i].side][k.nodes[i].level].head # kInvalid,
           NEW u, u = Unlink(k, i)
    PROVE  IsBook(u) /\ Bits(u) /\ Bypassed(k, u, i) /\ SameRest(k, u)
<1> DEFINE o == k.nodes[i]
           v == k.levels[o.side][o.level]
           N == [n \in Pool |-> UnlinkedNode(k, i, n)]
           w == UnlinkedLevel(o, v)
           L == LevelsWith(k.levels, o.side, o.level, w)
           raw == Relink(k, N, L)
<1>1. /\ o \in NodeType /\ o.side \in Sides /\ v \in LevelType /\ o.remaining \in Int
      /\ o.previous \in Link /\ o.next \in Link
      /\ v.head \in Link /\ v.tail \in Link /\ v.total \in Int
  BY NodeFields, LevelFields
<1>2. u = ClearIfEmpty(raw, o.side, o.level)
  <2> DEFINE lit == [k EXCEPT
            !.nodes = [n \in Pool |->
                CASE n = i -> [@[n] EXCEPT !.previous = kInvalid, !.next = kInvalid]
                  [] n = o.previous -> [@[n] EXCEPT !.next = o.next]
                  [] n = o.next -> [@[n] EXCEPT !.previous = o.previous]
                  [] OTHER -> @[n]],
            !.levels[o.side][o.level] =
                [head  |-> IF o.previous = kInvalid THEN o.next ELSE @.head,
                 tail  |-> IF o.next = kInvalid THEN o.previous ELSE @.tail,
                 total |-> @.total - o.remaining]]
  <2>1. u = ClearIfEmpty(lit, o.side, o.level)
    BY Zenon DEF Unlink
  <2>2. lit = [k EXCEPT !.nodes = N, !.levels[o.side][o.level] = UnlinkedLevel(o, @)]
    BY Zenon DEF UnlinkedNode, UnlinkedLevel, Isolated, WithNext, WithPrevious
  <2>3. lit = raw
    BY Zenon, <2>2 DEF Relink, LevelsWith
  <2> HIDE DEF lit, raw
  <2> QED
    BY Zenon, <2>1, <2>3
<1>3. N \in [Pool -> NodeType]
  BY Zenon, UnlinkNode
<1>4. w \in LevelType
  BY <1>1 DEF UnlinkedLevel, LevelType
<1>5. Rewrites(k.levels, L, o.side, o.level, w)
  <2>1. k.levels \in [Sides -> [LevelIndices -> LevelType]]
    BY DEF IsBook
  <2> HIDE DEF w
  <2> QED
    BY <1>1, <1>4, <2>1, LevelWritten
<1>6. /\ w.head = IF o.previous = kInvalid THEN o.next ELSE v.head
      /\ w.tail = IF o.next = kInvalid THEN o.previous ELSE v.tail
      /\ w.total = v.total - o.remaining
  BY DEF UnlinkedLevel
<1>7. \A n \in Pool : /\ N[n] = UnlinkedNode(k, i, n) /\ SameOrder(k.nodes[n], N[n])
                      /\ n = i => N[n].next = kInvalid
                      /\ n # i => /\ N[n].next = IF n = o.previous THEN o.next ELSE k.nodes[n].next
                                  /\ N[n].previous = IF n = o.next THEN o.previous
                                                     ELSE k.nodes[n].previous
  BY UnlinkNode
<1> HIDE DEF N, L, w, raw
<1>8. /\ IsBook(raw) /\ raw.nodes = N /\ raw.levels = L /\ raw.bitmap = k.bitmap
      /\ raw.best = k.best /\ SameRest(k, raw)
  BY Zenon, <1>3, <1>5, RelinkBook DEF raw, Rewrites
<1>9. BitsBut(raw, o.side, o.level) /\ o.level \in raw.bitmap[o.side]
  BY <1>1, <1>5, <1>8 DEF Bits, BitsBut, Rewrites
<1>10. /\ IsBook(u) /\ Bits(u) /\ u.nodes = N /\ u.levels = L /\ SameRest(raw, u)
  BY Zenon, <1>1, <1>2, <1>8, <1>9, ClearBits
<1>11. Bypassed(k, u, i)
  BY Zenon, <1>1, <1>5, <1>6, <1>7, <1>10 DEF Bypassed, Rewrites, SameOrder
<1> QED
  BY Zenon, <1>8, <1>10, <1>11 DEF SameRest

\* unlink_filled.
FilledNode(k, i, n) ==
    CASE n = i -> Isolated(k.nodes[n])
      [] n = k.nodes[i].next -> WithPrevious(k.nodes[n], kInvalid)
      [] OTHER -> k.nodes[n]
FilledLevel(o, v) ==
    [head  |-> o.next, tail |-> IF o.next = kInvalid THEN kInvalid ELSE v.tail,
     total |-> v.total]

LEMMA FilledNodeIs ==
    ASSUME NEW k, IsBook(k), NEW i \in Pool, NEW n \in Pool, Apart(k.nodes[i], i),
           k.nodes[i].previous = kInvalid
    PROVE  FilledNode(k, i, n) = UnlinkedNode(k, i, n)
<1>1. kInvalid \notin Pool
  BY Invalid
<1>2. CASE n = i
  BY <1>2 DEF FilledNode, UnlinkedNode, Apart
<1>3. CASE n # i /\ n = k.nodes[i].next
  <2>1. n # k.nodes[i].previous
    BY <1>1
  <2> QED
    BY <1>3, <2>1 DEF FilledNode, UnlinkedNode
<1>4. CASE n # i /\ n # k.nodes[i].next
  <2>1. n # k.nodes[i].previous
    BY <1>1
  <2> QED
    BY <1>4, <2>1 DEF FilledNode, UnlinkedNode
<1> QED
  BY <1>2, <1>3, <1>4

LEMMA FilledLevelIs ==
    ASSUME NEW o, o.previous = kInvalid, o.remaining = 0, NEW v \in LevelType
    PROVE  FilledLevel(o, v) = UnlinkedLevel(o, v)
<1>1. v.total - o.remaining = v.total
  BY DEF LevelType
<1> QED
  BY <1>1 DEF FilledLevel, UnlinkedLevel

LEMMA FilledIsUnlinked ==
    ASSUME NEW k, IsBook(k), NEW i \in Pool, k.nodes[i].level \in LevelIndices,
           Apart(k.nodes[i], i), k.nodes[i].previous = kInvalid, k.nodes[i].remaining = 0
    PROVE  UnlinkFilled(k, i, k.nodes[i].level) = Unlink(k, i)
<1> DEFINE o == k.nodes[i]
           v == k.levels[o.side][o.level]
           N == [n \in Pool |-> UnlinkedNode(k, i, n)]
           M == [n \in Pool |-> FilledNode(k, i, n)]
<1>1. v \in LevelType
  BY NodeFields, LevelFields
<1>2. M = N
  BY FilledNodeIs
<1>3. FilledLevel(o, v) = UnlinkedLevel(o, v)
  BY <1>1, FilledLevelIs
<1> DEFINE lit == [k EXCEPT
            !.nodes = [n \in Pool |->
                CASE n = i -> [@[n] EXCEPT !.previous = kInvalid, !.next = kInvalid]
                  [] n = o.previous -> [@[n] EXCEPT !.next = o.next]
                  [] n = o.next -> [@[n] EXCEPT !.previous = o.previous]
                  [] OTHER -> @[n]],
            !.levels[o.side][o.level] =
                [head  |-> IF o.previous = kInvalid THEN o.next ELSE @.head,
                 tail  |-> IF o.next = kInvalid THEN o.previous ELSE @.tail,
                 total |-> @.total - o.remaining]]
           fil == [k EXCEPT
            !.nodes = [n \in Pool |->
                CASE n = i -> [@[n] EXCEPT !.previous = kInvalid, !.next = kInvalid]
                  [] n = o.next -> [@[n] EXCEPT !.previous = kInvalid]
                  [] OTHER -> @[n]],
            !.levels[o.side][o.level] =
                [head  |-> o.next,
                 tail  |-> IF o.next = kInvalid THEN kInvalid ELSE @.tail,
                 total |-> @.total]]
<1>4. lit = Relink(k, N, LevelsWith(k.levels, o.side, o.level, UnlinkedLevel(o, v)))
  <2>1. lit = [k EXCEPT !.nodes = N, !.levels[o.side][o.level] = UnlinkedLevel(o, @)]
    BY SMTT(20) DEF UnlinkedNode, UnlinkedLevel, Isolated, WithNext, WithPrevious
  <2> QED
    BY Zenon, <2>1 DEF Relink, LevelsWith
<1>5. fil = Relink(k, M, LevelsWith(k.levels, o.side, o.level, FilledLevel(o, v)))
  <2>1. fil = [k EXCEPT !.nodes = M, !.levels[o.side][o.level] = FilledLevel(o, @)]
    BY DEF FilledNode, FilledLevel, Isolated, WithPrevious
  <2> QED
    BY <2>1 DEF Relink, LevelsWith
<1>6. Unlink(k, i) = ClearIfEmpty(lit, o.side, o.level)
  BY DEF Unlink
<1>7. UnlinkFilled(k, i, o.level) = ClearIfEmpty(fil, o.side, o.level)
  BY DEF UnlinkFilled
<1> HIDE DEF lit, fil, M, N, o, v
<1>8. lit = fil
  BY <1>2, <1>3, <1>4, <1>5
<1> QED
  BY <1>6, <1>7, <1>8 DEF o

\* append.
AppendedNode(k, i, last, n) ==
    CASE n = i -> WithPrevious(k.nodes[n], last)
      [] n = last -> WithNext(k.nodes[n], i)
      [] OTHER -> k.nodes[n]
AppendedLevel(k, i, v) ==
    [head |-> IF v.tail = kInvalid THEN i ELSE v.head, tail |-> i,
     total |-> v.total + k.nodes[i].remaining]

\* The order is behind the last one of the level.
Appended(k, u, i, level) ==
    LET side == k.nodes[i].side
        v == k.levels[side][level]
        w == u.levels[side][level]
    IN  /\ \A n \in Pool : SameOrder(k.nodes[n], u.nodes[n])
        /\ u.nodes[i].previous = v.tail /\ u.nodes[i].next = k.nodes[i].next
        /\ \A n \in Pool \ {i} :
              /\ u.nodes[n].next = IF n = v.tail THEN i ELSE k.nodes[n].next
              /\ u.nodes[n].previous = k.nodes[n].previous
        /\ w.head = IF v.tail = kInvalid THEN i ELSE v.head
        /\ w.tail = i
        /\ w.total = v.total + k.nodes[i].remaining
        /\ \A s \in Sides : \A l \in LevelIndices :
              (s # side \/ l # level) => u.levels[s][l] = k.levels[s][l]

LEMMA AppendNode ==
    ASSUME NEW k, IsBook(k), NEW i \in Pool, NEW n \in Pool, NEW last \in Link, last # i
    PROVE  LET p == AppendedNode(k, i, last, n)
           IN  /\ p \in NodeType /\ SameOrder(k.nodes[n], p)
               /\ n = i => p.previous = last /\ p.next = k.nodes[n].next
               /\ n # i => /\ p.next = IF n = last THEN i ELSE k.nodes[n].next
                           /\ p.previous = k.nodes[n].previous
<1> DEFINE p == AppendedNode(k, i, last, n)
<1>1. k.nodes[n] \in NodeType /\ i \in Link
  BY NodeFields DEF Link
<1>2. CASE n = i
  <2>1. p = WithPrevious(k.nodes[n], last)
    BY <1>2 DEF AppendedNode
  <2> HIDE DEF p
  <2>2. p \in NodeType /\ SameOrder(k.nodes[n], p) /\ p.previous = last /\ p.next = k.nodes[n].next
    BY <2>1, <1>1, NodeLinks
  <2> QED
    BY <1>2, <2>2 DEF p
<1>3. CASE n # i /\ n = last
  <2>1. p = WithNext(k.nodes[n], i)
    BY <1>3 DEF AppendedNode
  <2> HIDE DEF p
  <2>2. p \in NodeType /\ SameOrder(k.nodes[n], p) /\ p.next = i /\ p.previous = k.nodes[n].previous
    BY <2>1, <1>1, NodeLinks
  <2> QED
    BY <1>3, <2>2 DEF p
<1>4. CASE n # i /\ n # last
  <2>1. p = k.nodes[n]
    BY <1>4 DEF AppendedNode
  <2> QED
    BY <1>1, <1>4, <2>1 DEF SameOrder
<1> QED
  BY <1>2, <1>3, <1>4

LEMMA AppendAppends ==
    ASSUME NEW k, IsBook(k), Bits(k), NEW i \in Pool, NEW level \in LevelIndices,
           k.levels[k.nodes[i].side][level].tail # i,
           k.levels[k.nodes[i].side][level].tail # kInvalid =>
              k.levels[k.nodes[i].side][level].head # kInvalid,
           NEW u, u = AppendTo(k, i, level)
    PROVE  IsBook(u) /\ Bits(u) /\ Appended(k, u, i, level) /\ SameRest(k, u)
<1> DEFINE side == k.nodes[i].side
           v == k.levels[side][level]
           last == v.tail
           N == [n \in Pool |-> AppendedNode(k, i, last, n)]
           w == AppendedLevel(k, i, v)
           L == LevelsWith(k.levels, side, level, w)
           raw == Relink(k, N, L)
<1>1. /\ side \in Sides /\ v \in LevelType /\ k.nodes[i].remaining \in Int
      /\ v.head \in Link /\ v.tail \in Link /\ v.total \in Int /\ i \in Link
      /\ i # kInvalid
  BY NodeFields, LevelFields, Invalid DEF Link
<1>2. u = SetOccupied(raw, side, level)
  <2> DEFINE lit == [k EXCEPT
            !.nodes = [n \in Pool |-> CASE n = i -> [@[n] EXCEPT !.previous = last]
                                        [] n = last -> [@[n] EXCEPT !.next = i]
                                        [] OTHER -> @[n]],
            !.levels[side][level] =
                [head |-> IF last = kInvalid THEN i ELSE @.head, tail |-> i,
                 total |-> @.total + k.nodes[i].remaining]]
  <2>1. u = SetOccupied(lit, side, level)
    BY Zenon DEF AppendTo
  <2>2. lit = [k EXCEPT !.nodes = N, !.levels[side][level] =
                [head |-> IF last = kInvalid THEN i ELSE @.head, tail |-> i,
                 total |-> @.total + k.nodes[i].remaining]]
    BY Zenon DEF AppendedNode, WithNext, WithPrevious
  <2>3. lit = raw
    BY Zenon, <2>2 DEF Relink, LevelsWith, AppendedLevel
  <2> HIDE DEF lit, raw
  <2> QED
    BY Zenon, <2>1, <2>3
<1>3. N \in [Pool -> NodeType]
  BY Zenon, <1>1, AppendNode
<1>4. w \in LevelType
  BY <1>1 DEF AppendedLevel, LevelType
<1>5. Rewrites(k.levels, L, side, level, w)
  <2>1. k.levels \in [Sides -> [LevelIndices -> LevelType]]
    BY DEF IsBook
  <2> HIDE DEF w
  <2> QED
    BY <1>1, <1>4, <2>1, LevelWritten
<1>6. /\ w.head = IF v.tail = kInvalid THEN i ELSE v.head
      /\ w.tail = i
      /\ w.total = v.total + k.nodes[i].remaining
  BY Zenon DEF AppendedLevel
<1>7. \A n \in Pool : /\ N[n] = AppendedNode(k, i, last, n) /\ SameOrder(k.nodes[n], N[n])
                      /\ n = i => N[n].previous = last /\ N[n].next = k.nodes[n].next
                      /\ n # i => /\ N[n].next = IF n = last THEN i ELSE k.nodes[n].next
                                  /\ N[n].previous = k.nodes[n].previous
  <2> SUFFICES ASSUME NEW n \in Pool
               PROVE  /\ N[n] = AppendedNode(k, i, last, n) /\ SameOrder(k.nodes[n], N[n])
                      /\ n = i => N[n].previous = last /\ N[n].next = k.nodes[n].next
                      /\ n # i => /\ N[n].next = IF n = last THEN i ELSE k.nodes[n].next
                                  /\ N[n].previous = k.nodes[n].previous
    OBVIOUS
  <2>1. N[n] = AppendedNode(k, i, last, n)
    BY Zenon
  <2>2. last \in Link /\ last # i
    BY Zenon, <1>1
  <2> HIDE DEF N, L, w, raw, last, v, side
  <2> QED
    BY <2>1, <2>2, AppendNode
<1> HIDE DEF N, L, w, raw
<1>8. /\ IsBook(raw) /\ raw.nodes = N /\ raw.levels = L /\ raw.bitmap = k.bitmap
      /\ raw.best = k.best /\ SameRest(k, raw)
  BY Zenon, <1>3, <1>5, RelinkBook DEF raw, Rewrites
<1>9. BitsBut(raw, side, level) /\ raw.levels[side][level].head # kInvalid
  BY <1>1, <1>5, <1>6, <1>8 DEF Bits, BitsBut, Rewrites
<1>10. /\ IsBook(u) /\ Bits(u) /\ u.nodes = N /\ u.levels = L /\ SameRest(raw, u)
  BY Zenon, <1>1, <1>2, <1>8, <1>9, OccupyBits
<1>11. Appended(k, u, i, level)
  BY Zenon, <1>1, <1>5, <1>6, <1>7, <1>10 DEF Appended, Rewrites
<1> QED
  BY Zenon, <1>8, <1>10, <1>11 DEF SameRest

-----------------------------------------------------------------------------
(***************************************************************************)
(* The queues of the levels.  R is the set of the orders that are linked,  *)
(* and ahead[i] the quantity in front of order i in its queue: a history   *)
(* the code does not keep, and which makes the queues local: each order    *)
(* begins where the one in front of it ends.                               *)
(***************************************************************************)
SameQueue(k, i, j) ==
    k.nodes[i].side = k.nodes[j].side /\ k.nodes[i].level = k.nodes[j].level

LevelOf(k, i) == k.levels[k.nodes[i].side][k.nodes[i].level]

LinkOK(k, R, i) ==
    LET o == k.nodes[i]
    IN  /\ o.level \in LevelIndices
        /\ o.previous = kInvalid => LevelOf(k, i).head = i
        /\ o.previous # kInvalid => /\ o.previous \in R /\ SameQueue(k, i, o.previous)
                                    /\ k.nodes[o.previous].next = i
        /\ o.next = kInvalid => LevelOf(k, i).tail = i
        /\ o.next # kInvalid => /\ o.next \in R /\ SameQueue(k, i, o.next)
                                /\ k.nodes[o.next].previous = i

EndsOK(k, R, s, l) ==
    LET v == k.levels[s][l]
    IN  /\ v.head = kInvalid <=> v.tail = kInvalid
        /\ v.head # kInvalid => /\ v.head \in R /\ k.nodes[v.head].previous = kInvalid
                                /\ k.nodes[v.head].side = s /\ k.nodes[v.head].level = l
        /\ v.tail # kInvalid => /\ v.tail \in R /\ k.nodes[v.tail].next = kInvalid
                                /\ k.nodes[v.tail].side = s /\ k.nodes[v.tail].level = l

Links(k, R) ==
    /\ \A i \in R : LinkOK(k, R, i)
    /\ \A s \in Sides : \A l \in LevelIndices : EndsOK(k, R, s, l)

EndAt(k, ahead, i) == ahead[i] + k.nodes[i].remaining

PlaceOK(k, R, ahead, i) ==
    LET o == k.nodes[i]
    IN  /\ ahead[i] \in Nat /\ o.remaining \in Nat
        /\ o.previous = kInvalid => ahead[i] = 0
        /\ o.previous # kInvalid => ahead[i] = EndAt(k, ahead, o.previous)
        /\ o.next = kInvalid => LevelOf(k, i).total = EndAt(k, ahead, i)
        /\ EndAt(k, ahead, i) <= LevelOf(k, i).total
        /\ \A j \in R : j # i /\ SameQueue(k, i, j) =>
              EndAt(k, ahead, i) <= ahead[j] \/ EndAt(k, ahead, j) <= ahead[i]

Places(k, R, ahead) ==
    /\ \A i \in R : PlaceOK(k, R, ahead, i)
    /\ \A s \in Sides : \A l \in LevelIndices :
          k.levels[s][l].head = kInvalid => k.levels[s][l].total = 0

\* The orders at rest: linked into the queues, with a quantity left.
Resting(k, R, ahead) ==
    /\ R \subseteq Pool /\ Links(k, R) /\ Places(k, R, ahead) /\ Bits(k)
    /\ \A i \in R : k.nodes[i].remaining # 0

\* An order at rest is no neighbour of itself, and its level is occupied.
LEMMA OrdersApart ==
    ASSUME NEW k, NEW R, NEW ahead, Resting(k, R, ahead), NEW i \in R
    PROVE  Apart(k.nodes[i], i)
<1> DEFINE o == k.nodes[i]
<1>1. /\ LinkOK(k, R, i) /\ PlaceOK(k, R, ahead, i) /\ i # kInvalid
      /\ o.remaining \in Nat /\ o.remaining # 0 /\ ahead[i] \in Nat
  BY Invalid DEF Resting, Links, Places, PlaceOK
<1>2. o.previous # i
  <2> SUFFICES ASSUME o.previous = i PROVE FALSE
    OBVIOUS
  <2>1. ahead[i] = ahead[i] + o.remaining
    BY <1>1 DEF PlaceOK, EndAt
  <2> QED
    BY <1>1, <2>1
<1>3. o.next # i
  BY <1>1, <1>2 DEF LinkOK
<1>4. ASSUME o.previous = o.next, o.next # kInvalid PROVE FALSE
  <2>1. PICK p : p = o.next
    OBVIOUS
  <2>2. p \in R /\ k.nodes[p].previous = i /\ ahead[i] = EndAt(k, ahead, p)
    BY <1>1, <1>4, <2>1 DEF LinkOK, PlaceOK
  <2>3. ahead[p] = EndAt(k, ahead, i) /\ k.nodes[p].remaining \in Nat /\ ahead[p] \in Nat
    BY <1>1, <2>2 DEF Resting, Places, PlaceOK
  <2> QED
    BY <1>1, <2>2, <2>3 DEF EndAt
<1> QED
  BY <1>2, <1>3, <1>4 DEF Apart

LEMMA OrdersOccupy ==
    ASSUME NEW k, NEW R, NEW ahead, Resting(k, R, ahead), IsBook(k), NEW i \in R
    PROVE  k.nodes[i].level \in LevelIndices /\ LevelOf(k, i).head # kInvalid
<1> DEFINE o == k.nodes[i]
<1>1. /\ LinkOK(k, R, i) /\ PlaceOK(k, R, ahead, i) /\ i \in Pool
      /\ o.remaining \in Nat /\ o.remaining # 0 /\ ahead[i] \in Nat
  BY DEF Resting, Links, Places, PlaceOK
<1>2. o.level \in LevelIndices /\ o.side \in Sides
  BY Zenon, <1>1, NodeFields DEF LinkOK
<1>3. LevelOf(k, i).total \in Int /\ ahead[i] + o.remaining <= LevelOf(k, i).total
  BY <1>1, <1>2, LevelFields DEF PlaceOK, EndAt, LevelOf
<1>4. LevelOf(k, i).total # 0
  BY <1>1, <1>3
<1>5. LevelOf(k, i).head = kInvalid => LevelOf(k, i).total = 0
  BY <1>2 DEF Resting, Places, LevelOf
<1> QED
  BY <1>2, <1>4, <1>5

-----------------------------------------------------------------------------
(***************************************************************************)
(* Taking an order out of its queue.                                       *)
(***************************************************************************)
LEMMA BypassedNode ==
    ASSUME NEW k, NEW R, NEW ahead, Resting(k, R, ahead), IsBook(k), NEW i \in R,
           NEW u, Bypassed(k, u, i), NEW j \in R \ {i}
    PROVE  /\ u.nodes[j].side = k.nodes[j].side /\ u.nodes[j].level = k.nodes[j].level
           /\ u.nodes[j].remaining = k.nodes[j].remaining
           /\ j = k.nodes[i].next => u.nodes[j].previous = k.nodes[i].previous
           /\ j # k.nodes[i].next => /\ u.nodes[j].previous = k.nodes[j].previous
                                     /\ k.nodes[j].previous # i
           /\ j = k.nodes[i].previous => u.nodes[j].next = k.nodes[i].next
           /\ j # k.nodes[i].previous => /\ u.nodes[j].next = k.nodes[j].next
                                         /\ k.nodes[j].next # i
           /\ SameQueue(k, i, j) =>
                /\ LevelOf(u, j).head = (IF k.nodes[i].previous = kInvalid THEN k.nodes[i].next
                                         ELSE LevelOf(k, i).head)
                /\ LevelOf(u, j).tail = (IF k.nodes[i].next = kInvalid THEN k.nodes[i].previous
                                         ELSE LevelOf(k, i).tail)
                /\ LevelOf(u, j).total = LevelOf(k, i).total - k.nodes[i].remaining
           /\ ~SameQueue(k, i, j) => LevelOf(u, j) = LevelOf(k, j)
           /\ SameQueue(k, i, j) => LevelOf(k, j) = LevelOf(k, i)
<1> DEFINE o == k.nodes[i]
<1>1. j \in Pool \ {i} /\ i \in Pool /\ j \in R /\ i # kInvalid /\ LinkOK(k, R, j) /\ LinkOK(k, R, i)
  BY Zenon, Invalid DEF Resting, Links
<1>2. SameOrder(k.nodes[j], u.nodes[j])
  BY SMTT(20), <1>1 DEF Bypassed
<1>3. /\ u.nodes[j].side = k.nodes[j].side /\ u.nodes[j].level = k.nodes[j].level
      /\ u.nodes[j].remaining = k.nodes[j].remaining
  BY Zenon, <1>2 DEF SameOrder
<1>4. /\ u.nodes[j].previous = IF j = o.next THEN o.previous ELSE k.nodes[j].previous
      /\ u.nodes[j].next = IF j = o.previous THEN o.next ELSE k.nodes[j].next
  BY <1>1 DEF Bypassed
<1>5. (j # o.next => k.nodes[j].previous # i) /\ (j # o.previous => k.nodes[j].next # i)
  BY <1>1 DEF LinkOK
<1>6. j # o.previous => u.nodes[j].next = k.nodes[j].next
  BY <1>4
<1>7. SameQueue(k, i, j) => LevelOf(u, j) = u.levels[o.side][o.level] /\ LevelOf(k, j) = LevelOf(k, i)
  BY Zenon, <1>3 DEF SameQueue, LevelOf
<1>8. SameQueue(k, i, j) =>
        /\ LevelOf(u, j).head = (IF o.previous = kInvalid THEN o.next ELSE LevelOf(k, i).head)
        /\ LevelOf(u, j).tail = (IF o.next = kInvalid THEN o.previous ELSE LevelOf(k, i).tail)
        /\ LevelOf(u, j).total = LevelOf(k, i).total - o.remaining
  BY Zenon, <1>7 DEF Bypassed, LevelOf
<1>9. ~SameQueue(k, i, j) => LevelOf(u, j) = LevelOf(k, j)
  <2>1. k.nodes[j].side \in Sides /\ k.nodes[j].level \in LevelIndices
    BY Zenon, <1>1, NodeFields DEF LinkOK
  <2>2. \A s \in Sides : \A l \in LevelIndices :
           (s # o.side \/ l # o.level) => u.levels[s][l] = k.levels[s][l]
    BY Zenon DEF Bypassed
  <2> QED
    BY <1>3, <2>1, <2>2 DEF LevelOf, SameQueue
<1> QED
  BY <1>3, <1>4, <1>5, <1>6, <1>7, <1>8, <1>9

LEMMA BypassedQueue ==
    ASSUME NEW k, NEW R, NEW ahead, Resting(k, R, ahead), IsBook(k), NEW i \in R,
           NEW u, Bypassed(k, u, i), NEW j \in R \ {i}, NEW r \in R \ {i}
    PROVE  SameQueue(u, j, r) <=> SameQueue(k, j, r)
<1>1. u.nodes[j].side = k.nodes[j].side /\ u.nodes[j].level = k.nodes[j].level
  BY BypassedNode
<1>2. u.nodes[r].side = k.nodes[r].side /\ u.nodes[r].level = k.nodes[r].level
  BY BypassedNode
<1> QED
  BY <1>1, <1>2 DEF SameQueue

LEMMA BypassLinks ==
    ASSUME NEW k, NEW R, NEW ahead, Resting(k, R, ahead), IsBook(k), NEW i \in R,
           NEW u, Bypassed(k, u, i)
    PROVE  Links(u, R \ {i})
<1> DEFINE o == k.nodes[i]
           S == R \ {i}
<1>1. /\ R \subseteq Pool /\ i # kInvalid /\ kInvalid \notin R /\ LinkOK(k, R, i)
      /\ \A j \in R : LinkOK(k, R, j)
  BY Invalid DEF Resting, Links
<1>2. Apart(o, i) /\ LevelOf(k, i).head # kInvalid /\ o.level \in LevelIndices /\ o.side \in Sides
  BY Zenon, <1>1, OrdersApart, OrdersOccupy, NodeFields
<1>3. LevelOf(k, i).tail # kInvalid
  BY <1>2 DEF Resting, Links, EndsOK, LevelOf
<1>4. ASSUME NEW j \in S PROVE LinkOK(u, S, j)
  <2>1. j \in R /\ j # i /\ j # kInvalid /\ LinkOK(k, R, j)
    BY <1>1
  <2>2. u.nodes[j].level \in LevelIndices
    BY <2>1, BypassedNode DEF LinkOK
  <2>3. ASSUME u.nodes[j].previous = kInvalid PROVE LevelOf(u, j).head = j
    <3>1. CASE j = o.next
      <4>1. o.previous = kInvalid /\ SameQueue(k, i, j)
        BY <1>1, <2>1, <2>3, <3>1, BypassedNode DEF LinkOK
      <4> QED
        BY <3>1, <4>1, BypassedNode
    <3>2. CASE j # o.next
      <4>1. k.nodes[j].previous = kInvalid
        BY <2>3, <3>2, BypassedNode
      <4>2. LevelOf(k, j).head = j
        BY <2>1, <4>1 DEF LinkOK
      <4>3. CASE SameQueue(k, i, j)
        <5>1. LevelOf(k, i).head = j
          BY <4>2, <4>3, BypassedNode
        <5>2. o.previous # kInvalid
          BY <1>1, <2>1, <5>1 DEF LinkOK
        <5> QED
          BY <4>3, <5>1, <5>2, BypassedNode
      <4>4. CASE ~SameQueue(k, i, j)
        BY <4>2, <4>4, BypassedNode
      <4> QED
        BY <4>3, <4>4
    <3> QED
      BY <3>1, <3>2
  <2>4. ASSUME u.nodes[j].previous # kInvalid
        PROVE  LET r == u.nodes[j].previous
               IN  r \in S /\ SameQueue(u, j, r) /\ u.nodes[r].next = j
    <3>1. PICK r : r = u.nodes[j].previous
      OBVIOUS
    <3>2. CASE j = o.next
      <4>1. r = o.previous /\ r # i
        BY <1>2, <3>1, <3>2, BypassedNode DEF Apart
      <4>2. r \in S /\ SameQueue(k, i, r) /\ SameQueue(k, i, j)
        BY <1>1, <2>1, <2>4, <3>1, <3>2, <4>1 DEF LinkOK
      <4>3. u.nodes[r].next = j
        BY <3>2, <4>1, <4>2, BypassedNode
      <4>4. SameQueue(u, j, r)
        <5>1. SameQueue(k, j, r)
          BY <4>2 DEF SameQueue
        <5> QED
          BY <4>2, <5>1, BypassedQueue
      <4> QED
        BY <3>1, <4>2, <4>3, <4>4
    <3>3. CASE j # o.next
      <4>1. r = k.nodes[j].previous /\ r # i
        BY <3>1, <3>3, BypassedNode
      <4>2. r \in S /\ SameQueue(k, j, r) /\ k.nodes[r].next = j
        BY <2>1, <2>4, <3>1, <4>1 DEF LinkOK
      <4>3. r # o.previous
        BY <1>1, <2>1, <2>4, <3>1, <4>2 DEF LinkOK
      <4>4. u.nodes[r].next = j
        BY <4>2, <4>3, BypassedNode
      <4>5. SameQueue(u, j, r)
        BY <4>2, BypassedNode DEF SameQueue
      <4> QED
        BY <3>1, <4>2, <4>4, <4>5
    <3> QED
      BY <3>2, <3>3
  <2>5. ASSUME u.nodes[j].next = kInvalid PROVE LevelOf(u, j).tail = j
    <3>1. CASE j = o.previous
      <4>1. o.next = kInvalid /\ SameQueue(k, i, j)
        BY <1>1, <2>1, <2>5, <3>1, BypassedNode DEF LinkOK
      <4> QED
        BY <3>1, <4>1, BypassedNode
    <3>2. CASE j # o.previous
      <4>1. k.nodes[j].next = kInvalid
        BY <2>5, <3>2, BypassedNode
      <4>2. LevelOf(k, j).tail = j
        BY <2>1, <4>1 DEF LinkOK
      <4>3. CASE SameQueue(k, i, j)
        <5>1. LevelOf(k, i).tail = j
          BY <4>2, <4>3, BypassedNode
        <5>2. o.next # kInvalid
          BY <1>1, <2>1, <5>1 DEF LinkOK
        <5> QED
          BY <4>3, <5>1, <5>2, BypassedNode
      <4>4. CASE ~SameQueue(k, i, j)
        BY <4>2, <4>4, BypassedNode
      <4> QED
        BY <4>3, <4>4
    <3> QED
      BY <3>1, <3>2
  <2>6. ASSUME u.nodes[j].next # kInvalid
        PROVE  LET r == u.nodes[j].next
               IN  r \in S /\ SameQueue(u, j, r) /\ u.nodes[r].previous = j
    <3>1. PICK r : r = u.nodes[j].next
      OBVIOUS
    <3>2. CASE j = o.previous
      <4>1. r = o.next /\ r # i
        BY <1>2, <3>1, <3>2, BypassedNode DEF Apart
      <4>2. r \in S /\ SameQueue(k, i, r) /\ SameQueue(k, i, j)
        BY <1>1, <2>1, <2>6, <3>1, <3>2, <4>1 DEF LinkOK
      <4>3. u.nodes[r].previous = j
        BY <3>2, <4>1, <4>2, BypassedNode
      <4>4. SameQueue(u, j, r)
        <5>1. SameQueue(k, j, r)
          BY <4>2 DEF SameQueue
        <5> QED
          BY <4>2, <5>1, BypassedQueue
      <4> QED
        BY <3>1, <4>2, <4>3, <4>4
    <3>3. CASE j # o.previous
      <4>1. r = k.nodes[j].next /\ r # i
        BY <3>1, <3>3, BypassedNode
      <4>2. r \in S /\ SameQueue(k, j, r) /\ k.nodes[r].previous = j
        BY <2>1, <2>6, <3>1, <4>1 DEF LinkOK
      <4>3. r # o.next
        BY <1>1, <2>1, <2>6, <3>1, <4>2 DEF LinkOK
      <4>4. u.nodes[r].previous = j
        BY <4>2, <4>3, BypassedNode
      <4>5. SameQueue(u, j, r)
        BY <4>2, BypassedNode DEF SameQueue
      <4> QED
        BY <3>1, <4>2, <4>4, <4>5
    <3> QED
      BY <3>2, <3>3
  <2> QED
    BY <2>2, <2>3, <2>4, <2>5, <2>6 DEF LinkOK
<1>5. ASSUME NEW s \in Sides, NEW l \in LevelIndices PROVE EndsOK(u, S, s, l)
  <2> DEFINE v == k.levels[s][l]
             w == u.levels[s][l]
  <2>1. EndsOK(k, R, s, l)
    BY Zenon DEF Resting, Links
  <2>2. CASE s = o.side /\ l = o.level
    <3>1. /\ v = LevelOf(k, i)
          /\ w.head = IF o.previous = kInvalid THEN o.next ELSE v.head
          /\ w.tail = IF o.next = kInvalid THEN o.previous ELSE v.tail
      BY Zenon, <2>2 DEF Bypassed, LevelOf
    <3> HIDE DEF v, w
    <3>2. w.head = kInvalid <=> w.tail = kInvalid
      BY <1>2, <1>3, <3>1
    <3>3. ASSUME w.head # kInvalid
          PROVE  /\ w.head \in S /\ u.nodes[w.head].previous = kInvalid
                 /\ u.nodes[w.head].side = s /\ u.nodes[w.head].level = l
      <4>1. PICK h : h = w.head
        OBVIOUS
      <4>2. CASE o.previous = kInvalid
        <5>1. h = o.next /\ h \in S /\ SameQueue(k, i, h)
          BY <1>1, <1>2, <3>1, <3>3, <4>1, <4>2 DEF LinkOK, Apart
        <5> QED
          BY <2>2, <4>1, <4>2, <5>1, BypassedNode DEF SameQueue
      <4>3. CASE o.previous # kInvalid
        <5>1. /\ h = v.head /\ h \in R /\ k.nodes[h].previous = kInvalid
              /\ k.nodes[h].side = s /\ k.nodes[h].level = l
          BY <2>1, <3>1, <3>3, <4>1, <4>3 DEF EndsOK, v
        <5>2. h # i
          BY <4>3, <5>1
        <5>3. h # o.next
          BY <1>1, <5>1 DEF LinkOK
        <5> QED
          BY <4>1, <5>1, <5>2, <5>3, BypassedNode
      <4> QED
        BY <4>2, <4>3
    <3>4. ASSUME w.tail # kInvalid
          PROVE  /\ w.tail \in S /\ u.nodes[w.tail].next = kInvalid
                 /\ u.nodes[w.tail].side = s /\ u.nodes[w.tail].level = l
      <4>1. PICK h : h = w.tail
        OBVIOUS
      <4>2. CASE o.next = kInvalid
        <5>1. h = o.previous /\ h \in S /\ SameQueue(k, i, h)
          BY <1>1, <1>2, <3>1, <3>4, <4>1, <4>2 DEF LinkOK, Apart
        <5> QED
          BY <2>2, <4>1, <4>2, <5>1, BypassedNode DEF SameQueue
      <4>3. CASE o.next # kInvalid
        <5>1. /\ h = v.tail /\ h \in R /\ k.nodes[h].next = kInvalid
              /\ k.nodes[h].side = s /\ k.nodes[h].level = l
          BY <2>1, <3>1, <3>4, <4>1, <4>3 DEF EndsOK, v
        <5>2. h # i
          BY <4>3, <5>1
        <5>3. h # o.previous
          BY Zenon, <1>1, <5>1 DEF LinkOK
        <5> QED
          BY <4>1, <5>1, <5>2, <5>3, BypassedNode
      <4> QED
        BY <4>2, <4>3
    <3> QED
      BY Zenon, <3>2, <3>3, <3>4 DEF EndsOK, w
  <2>3. CASE s # o.side \/ l # o.level
    <3>1. w = v
      BY <2>3 DEF Bypassed
    <3>2. ASSUME NEW h \in R, k.nodes[h].side = s, k.nodes[h].level = l
          PROVE  /\ h \in S /\ h # o.next /\ h # o.previous
                 /\ u.nodes[h].side = s /\ u.nodes[h].level = l
                 /\ u.nodes[h].previous = k.nodes[h].previous
                 /\ u.nodes[h].next = k.nodes[h].next
      <4>1. h # i /\ h # o.next /\ h # o.previous
        BY <1>1, <2>3, <3>2 DEF LinkOK, SameQueue
      <4> QED
        BY <4>1, <3>2, BypassedNode
    <3> QED
      BY Zenon, <2>1, <3>1, <3>2 DEF EndsOK
  <2> QED
    BY <2>2, <2>3
<1> QED
  BY <1>4, <1>5 DEF Links

-----------------------------------------------------------------------------
(***************************************************************************)
(* When q of an order's quantity goes, the orders behind it move up by q.  *)
(***************************************************************************)
Behind(k, ahead, i, j) == j # i /\ SameQueue(k, i, j) /\ EndAt(k, ahead, i) <= ahead[j]
Shifted(k, ahead, i, q) ==
    [j \in Pool |-> IF Behind(k, ahead, i, j) THEN ahead[j] - q ELSE ahead[j]]

LEMMA PlaceFields ==
    ASSUME NEW k, NEW R, NEW ahead, Resting(k, R, ahead), IsBook(k), NEW i \in R
    PROVE  /\ i \in Pool /\ ahead[i] \in Nat /\ k.nodes[i].remaining \in Nat \ {0}
           /\ LevelOf(k, i).total \in Int
           /\ EndAt(k, ahead, i) = ahead[i] + k.nodes[i].remaining
           /\ EndAt(k, ahead, i) \in Nat
           /\ EndAt(k, ahead, i) <= LevelOf(k, i).total
<1>1. /\ PlaceOK(k, R, ahead, i) /\ LinkOK(k, R, i) /\ i \in Pool /\ k.nodes[i].remaining # 0
  BY DEF Resting, Places, Links
<1>2. k.nodes[i].level \in LevelIndices /\ k.nodes[i].side \in Sides
  BY <1>1, NodeFields DEF LinkOK
<1>3. LevelOf(k, i).total \in Int
  BY <1>2, LevelFields DEF LevelOf
<1>4. ahead[i] \in Nat /\ k.nodes[i].remaining \in Nat /\ EndAt(k, ahead, i) <= LevelOf(k, i).total
  BY <1>1 DEF PlaceOK
<1> QED
  BY <1>1, <1>3, <1>4 DEF EndAt

\* The orders behind and those in front.
LEMMA ShiftedPlace ==
    ASSUME NEW k, NEW R, NEW ahead, Resting(k, R, ahead), IsBook(k), NEW i \in R,
           NEW q \in Nat, q <= k.nodes[i].remaining, NEW j \in R \ {i}
    PROVE  LET s == Shifted(k, ahead, i, q)
           IN  /\ s[j] \in Nat
               /\ ~SameQueue(k, i, j) => s[j] = ahead[j]
               /\ SameQueue(k, i, j) =>
                     \/ EndAt(k, ahead, i) <= ahead[j] /\ s[j] = ahead[j] - q
                     \/ EndAt(k, ahead, j) <= ahead[i] /\ s[j] = ahead[j]
<1> DEFINE s == Shifted(k, ahead, i, q)
<1>1. /\ j \in Pool /\ ahead[j] \in Nat /\ ahead[i] \in Nat
      /\ k.nodes[i].remaining \in Nat \ {0} /\ k.nodes[j].remaining \in Nat \ {0}
      /\ EndAt(k, ahead, i) = ahead[i] + k.nodes[i].remaining
      /\ EndAt(k, ahead, j) = ahead[j] + k.nodes[j].remaining
  BY PlaceFields
<1>2. s[j] = IF Behind(k, ahead, i, j) THEN ahead[j] - q ELSE ahead[j]
  BY <1>1 DEF Shifted
<1>3. SameQueue(k, i, j) => EndAt(k, ahead, i) <= ahead[j] \/ EndAt(k, ahead, j) <= ahead[i]
  BY DEF Resting, Places, PlaceOK
<1> HIDE DEF s
<1>4. CASE Behind(k, ahead, i, j)
  <2>1. SameQueue(k, i, j) /\ EndAt(k, ahead, i) <= ahead[j] /\ s[j] = ahead[j] - q
    BY <1>2, <1>4 DEF Behind
  <2>2. s[j] \in Nat
    BY <1>1, <2>1
  <2> QED
    BY <2>1, <2>2 DEF s
<1>5. CASE ~Behind(k, ahead, i, j)
  <2>1. s[j] = ahead[j]
    BY <1>2, <1>5
  <2>2. SameQueue(k, i, j) => EndAt(k, ahead, j) <= ahead[i]
    BY <1>3, <1>5 DEF Behind
  <2> QED
    BY <1>1, <2>1, <2>2 DEF s
<1> QED
  BY <1>4, <1>5

LEMMA ShiftedSelf ==
    ASSUME NEW k, NEW ahead, NEW i \in Pool, NEW q
    PROVE  Shifted(k, ahead, i, q)[i] = ahead[i]
BY DEF Shifted, Behind

\* What holds of the intervals of two orders after the move.
LEMMA ShiftedApart ==
    ASSUME NEW k, NEW R, NEW ahead, Resting(k, R, ahead), IsBook(k), NEW i \in R,
           NEW q \in Nat, q <= k.nodes[i].remaining,
           NEW j \in R \ {i}, NEW m \in R \ {i}, j # m, SameQueue(k, j, m)
    PROVE  LET s == Shifted(k, ahead, i, q)
           IN  \/ s[j] + k.nodes[j].remaining <= s[m]
               \/ s[m] + k.nodes[m].remaining <= s[j]
<1> DEFINE s == Shifted(k, ahead, i, q)
<1>1. /\ ahead[j] \in Nat /\ ahead[i] \in Nat /\ ahead[m] \in Nat
      /\ k.nodes[i].remaining \in Nat \ {0}
      /\ k.nodes[j].remaining \in Nat \ {0} /\ k.nodes[m].remaining \in Nat \ {0}
      /\ EndAt(k, ahead, i) = ahead[i] + k.nodes[i].remaining
      /\ EndAt(k, ahead, j) = ahead[j] + k.nodes[j].remaining
      /\ EndAt(k, ahead, m) = ahead[m] + k.nodes[m].remaining
  BY PlaceFields
<1>2. EndAt(k, ahead, j) <= ahead[m] \/ EndAt(k, ahead, m) <= ahead[j]
  BY DEF Resting, Places, PlaceOK
<1>3. SameQueue(k, i, j) <=> SameQueue(k, i, m)
  BY DEF SameQueue
<1>4. CASE SameQueue(k, i, j)
  <2>1. \/ EndAt(k, ahead, i) <= ahead[j] /\ s[j] = ahead[j] - q
        \/ EndAt(k, ahead, j) <= ahead[i] /\ s[j] = ahead[j]
    BY <1>4, ShiftedPlace
  <2>2. \/ EndAt(k, ahead, i) <= ahead[m] /\ s[m] = ahead[m] - q
        \/ EndAt(k, ahead, m) <= ahead[i] /\ s[m] = ahead[m]
    BY <1>3, <1>4, ShiftedPlace
  <2> HIDE DEF s
  <2>3. \/ s[j] + k.nodes[j].remaining <= s[m]
        \/ s[m] + k.nodes[m].remaining <= s[j]
    BY <1>1, <1>2, <2>1, <2>2
  <2> QED
    BY <2>3 DEF s
<1>5. CASE ~SameQueue(k, i, j)
  <2>1. s[j] = ahead[j] /\ s[m] = ahead[m]
    BY <1>3, <1>5, ShiftedPlace
  <2> QED
    BY <1>1, <1>2, <2>1
<1> QED
  BY <1>4, <1>5

LEMMA BypassPlace ==
    ASSUME NEW k, NEW R, NEW ahead, Resting(k, R, ahead), IsBook(k), NEW i \in R,
           NEW u, Bypassed(k, u, i), NEW j \in R \ {i}
    PROVE  PlaceOK(u, R \ {i}, Shifted(k, ahead, i, k.nodes[i].remaining), j)
<1> DEFINE o == k.nodes[i]
           q == o.remaining
           s == Shifted(k, ahead, i, q)
           S == R \ {i}
<1>1. /\ i \in Pool /\ ahead[i] \in Nat /\ q \in Nat \ {0}
      /\ EndAt(k, ahead, i) = ahead[i] + q
      /\ LevelOf(k, i).total \in Int /\ EndAt(k, ahead, i) <= LevelOf(k, i).total
      /\ i # kInvalid /\ kInvalid \notin R /\ PlaceOK(k, R, ahead, i) /\ LinkOK(k, R, i)
  BY PlaceFields, Invalid DEF Resting, Places, Links
<1>2. /\ j \in Pool /\ ahead[j] \in Nat /\ k.nodes[j].remaining \in Nat \ {0}
      /\ EndAt(k, ahead, j) = ahead[j] + k.nodes[j].remaining
      /\ LevelOf(k, j).total \in Int /\ EndAt(k, ahead, j) <= LevelOf(k, j).total
      /\ PlaceOK(k, R, ahead, j) /\ LinkOK(k, R, j) /\ j # kInvalid /\ j # i
  BY PlaceFields, Invalid DEF Resting, Places, Links
<1>3. ASSUME NEW m \in S PROVE EndAt(u, s, m) = s[m] + k.nodes[m].remaining
  BY BypassedNode DEF EndAt
<1>4. s[j] \in Nat /\ u.nodes[j].remaining = k.nodes[j].remaining
  BY <1>1, ShiftedPlace, BypassedNode
<1>5. ASSUME NEW m \in S, m # j, SameQueue(u, j, m)
      PROVE  EndAt(u, s, j) <= s[m] \/ EndAt(u, s, m) <= s[j]
  <2>1. SameQueue(k, j, m)
    BY <1>5, BypassedQueue
  <2>2. s[j] + k.nodes[j].remaining <= s[m] \/ s[m] + k.nodes[m].remaining <= s[j]
    BY <1>1, <1>5, <2>1, ShiftedApart
  <2> QED
    BY <1>3, <2>2
<1>6. CASE SameQueue(k, i, j)
  <2>1. \/ EndAt(k, ahead, i) <= ahead[j] /\ s[j] = ahead[j] - q
        \/ EndAt(k, ahead, j) <= ahead[i] /\ s[j] = ahead[j]
    BY <1>1, <1>6, ShiftedPlace
  <2>2. LevelOf(u, j).total = LevelOf(k, i).total - q /\ LevelOf(k, j) = LevelOf(k, i)
    BY <1>6, BypassedNode
  <2>3. EndAt(u, s, j) <= LevelOf(u, j).total
    <3> HIDE DEF s, q
    <3> QED
      BY <1>1, <1>2, <1>3, <2>1, <2>2
  <2>4. ASSUME j = o.next
        PROVE  /\ u.nodes[j].previous = kInvalid => s[j] = 0
               /\ u.nodes[j].previous # kInvalid => s[j] = EndAt(u, s, u.nodes[j].previous)
    <3>1. /\ k.nodes[j].previous = i /\ u.nodes[j].previous = o.previous
      BY <1>1, <1>2, <2>4, BypassedNode DEF LinkOK
    <3>2. ahead[j] = EndAt(k, ahead, i)
      BY <1>1, <1>2, <3>1 DEF PlaceOK
    <3>3. s[j] = ahead[i]
      <4> HIDE DEF s, q
      <4> QED
        BY <1>1, <1>2, <2>1, <3>2
    <3>4. u.nodes[j].previous = kInvalid => s[j] = 0
      BY <1>1, <3>1, <3>3 DEF PlaceOK
    <3>5. ASSUME u.nodes[j].previous # kInvalid PROVE s[j] = EndAt(u, s, u.nodes[j].previous)
      <4>1. PICK p : p = o.previous /\ p = u.nodes[j].previous
        BY <3>1
      <4>2. p \in S /\ SameQueue(k, i, p) /\ ahead[i] = EndAt(k, ahead, p)
        <5>1. Apart(o, i)
          BY OrdersApart
        <5> QED
          BY <1>1, <3>1, <3>5, <4>1, <5>1 DEF LinkOK, PlaceOK, Apart
      <4>3. /\ ahead[p] \in Nat /\ k.nodes[p].remaining \in Nat \ {0}
            /\ EndAt(k, ahead, p) = ahead[p] + k.nodes[p].remaining
        BY <4>2, PlaceFields
      <4>4. \/ EndAt(k, ahead, i) <= ahead[p] /\ s[p] = ahead[p] - q
            \/ EndAt(k, ahead, p) <= ahead[i] /\ s[p] = ahead[p]
        BY <1>1, <4>2, ShiftedPlace
      <4>5. EndAt(u, s, p) = s[p] + k.nodes[p].remaining
        BY <1>3, <4>2
      <4> HIDE DEF s, q
      <4>6. s[p] = ahead[p]
        BY <1>1, <4>2, <4>3, <4>4
      <4> QED
        BY <3>3, <4>1, <4>2, <4>3, <4>5, <4>6
    <3> QED
      BY Zenon, <3>4, <3>5
  <2>5. ASSUME j # o.next
        PROVE  /\ u.nodes[j].previous = kInvalid => s[j] = 0
               /\ u.nodes[j].previous # kInvalid => s[j] = EndAt(u, s, u.nodes[j].previous)
    <3>1. /\ u.nodes[j].previous = k.nodes[j].previous /\ k.nodes[j].previous # i
      BY <2>5, BypassedNode
    <3>2. u.nodes[j].previous = kInvalid => s[j] = 0
      <4> SUFFICES ASSUME u.nodes[j].previous = kInvalid PROVE s[j] = 0
        OBVIOUS
      <4>1. ahead[j] = 0
        BY <1>2, <3>1 DEF PlaceOK
      <4> HIDE DEF s, q
      <4> QED
        BY <1>1, <1>2, <2>1, <4>1
    <3>3. ASSUME u.nodes[j].previous # kInvalid PROVE s[j] = EndAt(u, s, u.nodes[j].previous)
      <4>1. PICK p : p = k.nodes[j].previous /\ p = u.nodes[j].previous
        BY <3>1
      <4>2. p \in S /\ SameQueue(k, j, p) /\ ahead[j] = EndAt(k, ahead, p)
        BY <1>2, <3>1, <3>3, <4>1 DEF LinkOK, PlaceOK
      <4>3. /\ ahead[p] \in Nat /\ k.nodes[p].remaining \in Nat \ {0}
            /\ EndAt(k, ahead, p) = ahead[p] + k.nodes[p].remaining
        BY <4>2, PlaceFields
      <4>4. SameQueue(k, i, p)
        BY <1>6, <4>2 DEF SameQueue
      <4>5. \/ EndAt(k, ahead, i) <= ahead[p] /\ s[p] = ahead[p] - q
            \/ EndAt(k, ahead, p) <= ahead[i] /\ s[p] = ahead[p]
        BY <1>1, <4>2, <4>4, ShiftedPlace
      <4>6. EndAt(u, s, p) = s[p] + k.nodes[p].remaining
        BY <1>3, <4>2
      <4> HIDE DEF s, q
      <4>7. s[j] = s[p] + k.nodes[p].remaining
        BY <1>1, <1>2, <2>1, <4>2, <4>3, <4>5
      <4> QED
        BY <4>1, <4>6, <4>7
    <3> QED
      BY <3>2, <3>3
  <2>6. ASSUME u.nodes[j].next = kInvalid PROVE LevelOf(u, j).total = EndAt(u, s, j)
    <3>1. CASE j = o.previous
      <4>1. o.next = kInvalid
        BY <2>6, <3>1, BypassedNode
      <4>2. LevelOf(k, i).total = EndAt(k, ahead, i) /\ ahead[i] = EndAt(k, ahead, j)
        BY <1>1, <1>2, <3>1, <4>1 DEF PlaceOK
      <4> HIDE DEF s, q
      <4> QED
        BY <1>1, <1>2, <1>3, <2>1, <2>2, <4>2
    <3>2. CASE j # o.previous
      <4>1. k.nodes[j].next = kInvalid
        BY <2>6, <3>2, BypassedNode
      <4>2. LevelOf(k, i).total = EndAt(k, ahead, j)
        BY <1>2, <2>2, <4>1 DEF PlaceOK
      <4> HIDE DEF s, q
      <4> QED
        BY <1>1, <1>2, <1>3, <2>1, <2>2, <4>2
    <3> QED
      BY <3>1, <3>2
  <2> HIDE DEF s
  <2> QED
    BY <1>2, <1>4, <1>5, <2>3, <2>4, <2>5, <2>6 DEF PlaceOK, s
<1>7. CASE ~SameQueue(k, i, j)
  <2>1. LevelOf(u, j) = LevelOf(k, j) /\ s[j] = ahead[j]
    BY <1>1, <1>7, BypassedNode, ShiftedPlace
  <2>2. j # o.next /\ j # o.previous
    BY <1>1, <1>2, <1>7 DEF LinkOK
  <2>3. u.nodes[j].previous = k.nodes[j].previous /\ u.nodes[j].next = k.nodes[j].next
    BY <2>2, BypassedNode
  <2>4. EndAt(u, s, j) = EndAt(k, ahead, j)
    BY <1>2, <1>3, <2>1
  <2>5. ASSUME u.nodes[j].previous # kInvalid PROVE s[j] = EndAt(u, s, u.nodes[j].previous)
    <3>1. PICK p : p = k.nodes[j].previous /\ p = u.nodes[j].previous
      BY <2>3
    <3>2. p \in R /\ SameQueue(k, j, p) /\ ahead[j] = EndAt(k, ahead, p)
      BY <1>2, <2>5, <3>1 DEF LinkOK, PlaceOK
    <3>3. p \in S /\ ~SameQueue(k, i, p)
      BY <1>7, <3>2 DEF SameQueue
    <3>4. s[p] = ahead[p]
      BY <1>1, <3>3, ShiftedPlace
    <3>5. EndAt(u, s, p) = EndAt(k, ahead, p)
      BY <1>3, <3>3, <3>4 DEF EndAt
    <3> QED
      BY <2>1, <3>1, <3>2, <3>5
  <2> HIDE DEF s
  <2>6. u.nodes[j].previous = kInvalid => s[j] = 0
    BY <1>2, <2>1, <2>3 DEF PlaceOK
  <2>7. /\ u.nodes[j].next = kInvalid => LevelOf(u, j).total = EndAt(u, s, j)
        /\ EndAt(u, s, j) <= LevelOf(u, j).total
    BY <1>2, <2>1, <2>3, <2>4 DEF PlaceOK
  <2> QED
    BY <1>2, <1>4, <1>5, <2>5, <2>6, <2>7 DEF PlaceOK, s
<1> QED
  BY <1>6, <1>7

LEMMA BypassResting ==
    ASSUME NEW k, NEW R, NEW ahead, Resting(k, R, ahead), IsBook(k), NEW i \in R,
           NEW u, Bypassed(k, u, i), Bits(u)
    PROVE  Resting(u, R \ {i}, Shifted(k, ahead, i, k.nodes[i].remaining))
<1> DEFINE o == k.nodes[i]
           s == Shifted(k, ahead, i, o.remaining)
           S == R \ {i}
<1>1. Links(u, S)
  BY BypassLinks
<1>2. \A j \in S : PlaceOK(u, S, s, j)
  BY BypassPlace
<1>3. \A j \in S : u.nodes[j].remaining # 0
  BY BypassedNode DEF Resting
<1>4. ASSUME NEW r \in Sides, NEW l \in LevelIndices, u.levels[r][l].head = kInvalid
      PROVE  u.levels[r][l].total = 0
  <2>1. CASE r = o.side /\ l = o.level
    <3>1. LevelOf(k, i).head # kInvalid
      BY Zenon, OrdersOccupy
    <3>2. o.previous = kInvalid /\ o.next = kInvalid
      BY Zenon, <1>4, <2>1, <3>1 DEF Bypassed, LevelOf
    <3>3. LevelOf(k, i).total = EndAt(k, ahead, i) /\ ahead[i] = 0
      BY Zenon, <3>2 DEF Resting, Places, PlaceOK
    <3>4. u.levels[r][l].total = LevelOf(k, i).total - o.remaining
      BY Zenon, <2>1 DEF Bypassed, LevelOf
    <3>5. o.remaining \in Nat /\ EndAt(k, ahead, i) = ahead[i] + o.remaining
      BY PlaceFields
    <3> QED
      BY <3>3, <3>4, <3>5
  <2>2. CASE r # o.side \/ l # o.level
    <3>1. u.levels[r][l] = k.levels[r][l]
      BY <2>2 DEF Bypassed
    <3> QED
      BY Zenon, <1>4, <3>1 DEF Resting, Places
  <2> QED
    BY <2>1, <2>2
<1>5. S \subseteq Pool
  BY DEF Resting
<1> HIDE DEF s, S
<1>6. Places(u, S, s)
  BY <1>2, <1>4 DEF Places
<1>7. Resting(u, S, s)
  BY <1>1, <1>3, <1>5, <1>6 DEF Resting
<1> QED
  BY <1>7 DEF s, S

\* unlink takes an order at rest out.
LEMMA UnlinkResting ==
    ASSUME NEW k, NEW R, NEW ahead, Resting(k, R, ahead), IsBook(k), NEW i \in R,
           NEW u, u = Unlink(k, i)
    PROVE  /\ IsBook(u) /\ SameRest(k, u) /\ Bypassed(k, u, i)
           /\ Resting(u, R \ {i}, Shifted(k, ahead, i, k.nodes[i].remaining))
<1>1. Apart(k.nodes[i], i) /\ i \in Pool /\ Bits(k)
  BY OrdersApart DEF Resting
<1>2. k.nodes[i].level \in LevelIndices /\ k.levels[k.nodes[i].side][k.nodes[i].level].head # kInvalid
  BY Zenon, OrdersOccupy DEF LevelOf
<1>3. IsBook(u) /\ Bits(u) /\ Bypassed(k, u, i) /\ SameRest(k, u)
  BY Zenon, <1>1, <1>2, UnlinkBypasses
<1> QED
  BY Zenon, <1>3, BypassResting

-----------------------------------------------------------------------------
(***************************************************************************)
(* Putting an order at the end of a queue.                                 *)
(***************************************************************************)
Placed(ahead, i, x) == [j \in Pool |-> IF j = i THEN x ELSE ahead[j]]

\* The end of a level's queue.
LEMMA LevelEnd ==
    ASSUME NEW k, NEW R, NEW ahead, Resting(k, R, ahead), IsBook(k),
           NEW s \in Sides, NEW l \in LevelIndices
    PROVE  LET v == k.levels[s][l]
           IN  /\ v.total \in Nat
               /\ v.tail = kInvalid <=> v.head = kInvalid
               /\ v.tail = kInvalid => v.total = 0
               /\ v.tail # kInvalid =>
                    /\ v.tail \in R /\ k.nodes[v.tail].next = kInvalid
                    /\ k.nodes[v.tail].side = s /\ k.nodes[v.tail].level = l
                    /\ v.total = EndAt(k, ahead, v.tail)
<1> DEFINE v == k.levels[s][l]
<1>1. EndsOK(k, R, s, l)
  BY DEF Resting, Links
<1>2. v.tail = kInvalid <=> v.head = kInvalid
  BY <1>1 DEF EndsOK
<1>3. v.tail = kInvalid => v.total = 0
  BY <1>2 DEF Resting, Places
<1>4. ASSUME v.tail # kInvalid
      PROVE  /\ v.tail \in R /\ k.nodes[v.tail].next = kInvalid
             /\ k.nodes[v.tail].side = s /\ k.nodes[v.tail].level = l
             /\ v.total = EndAt(k, ahead, v.tail)
             /\ v.total \in Nat
  <2>1. /\ v.tail \in R /\ k.nodes[v.tail].next = kInvalid
        /\ k.nodes[v.tail].side = s /\ k.nodes[v.tail].level = l
    BY <1>1, <1>4 DEF EndsOK
  <2>2. LevelOf(k, v.tail) = v
    BY <2>1 DEF LevelOf
  <2>3. PlaceOK(k, R, ahead, v.tail)
    BY <2>1 DEF Resting, Places
  <2>4. v.total = EndAt(k, ahead, v.tail)
    BY <2>1, <2>2, <2>3 DEF PlaceOK
  <2>5. EndAt(k, ahead, v.tail) \in Nat
    BY <2>1, PlaceFields
  <2> QED
    BY <2>1, <2>4, <2>5
<1> QED
  BY <1>2, <1>3, <1>4

LEMMA AppendedQueue ==
    ASSUME NEW k, NEW u, NEW i, NEW level, Appended(k, u, i, level), NEW j \in Pool, NEW r \in Pool
    PROVE  SameQueue(u, j, r) <=> SameQueue(k, j, r)
<1>1. SameOrder(k.nodes[j], u.nodes[j]) /\ SameOrder(k.nodes[r], u.nodes[r])
  BY DEF Appended
<1> QED
  BY Zenon, <1>1 DEF SameOrder, SameQueue

LEMMA AppendedNodes ==
    ASSUME NEW k, NEW R, NEW ahead, Resting(k, R, ahead), IsBook(k), NEW i \in Pool \ R,
           k.nodes[i].level \in LevelIndices,
           NEW u, Appended(k, u, i, k.nodes[i].level), NEW j \in R
    PROVE  /\ j \in Pool /\ j # i /\ SameOrder(k.nodes[j], u.nodes[j])
           /\ u.nodes[j].previous = k.nodes[j].previous
           /\ j = LevelOf(k, i).tail => u.nodes[j].next = i
           /\ j # LevelOf(k, i).tail => u.nodes[j].next = k.nodes[j].next
           /\ SameQueue(k, i, j) => LevelOf(u, j) = LevelOf(u, i) /\ LevelOf(k, j) = LevelOf(k, i)
           /\ ~SameQueue(k, i, j) => LevelOf(u, j) = LevelOf(k, j)
<1>1. j \in Pool /\ j # i /\ LinkOK(k, R, j)
  BY Zenon DEF Resting, Links
<1>2. SameOrder(k.nodes[j], u.nodes[j]) /\ SameOrder(k.nodes[i], u.nodes[i])
  BY Zenon, <1>1 DEF Appended
<1>3. /\ u.nodes[j].previous = k.nodes[j].previous
      /\ u.nodes[j].next = IF j = LevelOf(k, i).tail THEN i ELSE k.nodes[j].next
  BY Zenon, <1>1 DEF Appended, LevelOf
<1>4. SameQueue(k, i, j) => LevelOf(u, j) = LevelOf(u, i) /\ LevelOf(k, j) = LevelOf(k, i)
  BY <1>2 DEF SameQueue, LevelOf, SameOrder
<1>5. ~SameQueue(k, i, j) => LevelOf(u, j) = LevelOf(k, j)
  <2>1. k.nodes[j].side \in Sides /\ k.nodes[j].level \in LevelIndices
    BY Zenon, <1>1, NodeFields DEF LinkOK
  <2>2. \A s \in Sides : \A l \in LevelIndices :
           (s # k.nodes[i].side \/ l # k.nodes[i].level) => u.levels[s][l] = k.levels[s][l]
    BY Zenon DEF Appended
  <2>3. u.nodes[j].side = k.nodes[j].side /\ u.nodes[j].level = k.nodes[j].level
    BY <1>2 DEF SameOrder
  <2> QED
    BY <2>1, <2>2, <2>3 DEF LevelOf, SameQueue
<1> QED
  BY <1>1, <1>2, <1>3, <1>4, <1>5

LEMMA AppendedOrder ==
    ASSUME NEW k, NEW R, NEW ahead, Resting(k, R, ahead), IsBook(k), NEW i \in Pool \ R,
           k.nodes[i].level \in LevelIndices, k.nodes[i].next = kInvalid,
           NEW u, Appended(k, u, i, k.nodes[i].level)
    PROVE  LET v == LevelOf(k, i)
               w == LevelOf(u, i)
           IN  /\ SameOrder(k.nodes[i], u.nodes[i]) /\ i # kInvalid
               /\ u.nodes[i].previous = v.tail /\ u.nodes[i].next = kInvalid
               /\ w.head = (IF v.tail = kInvalid THEN i ELSE v.head)
               /\ w.tail = i
               /\ w.total = v.total + k.nodes[i].remaining
               /\ v.total \in Nat
               /\ v.tail = kInvalid <=> v.head = kInvalid
               /\ v.tail = kInvalid => v.total = 0
               /\ v.tail # kInvalid =>
                    /\ v.tail \in R /\ v.tail # i /\ k.nodes[v.tail].next = kInvalid
                    /\ SameQueue(k, i, v.tail) /\ v.total = EndAt(k, ahead, v.tail)
<1> DEFINE v == LevelOf(k, i)
           w == LevelOf(u, i)
<1>1. SameOrder(k.nodes[i], u.nodes[i]) /\ i # kInvalid /\ k.nodes[i].side \in Sides
  BY Zenon, NodeFields, Invalid DEF Appended
<1>2. w = u.levels[k.nodes[i].side][k.nodes[i].level]
  BY <1>1 DEF LevelOf, SameOrder
<1>3. /\ u.nodes[i].previous = v.tail /\ u.nodes[i].next = kInvalid
      /\ w.head = (IF v.tail = kInvalid THEN i ELSE v.head)
      /\ w.tail = i
      /\ w.total = v.total + k.nodes[i].remaining
  BY Zenon, <1>2 DEF Appended, LevelOf
<1>4. /\ v.total \in Nat
      /\ v.tail = kInvalid <=> v.head = kInvalid
      /\ v.tail = kInvalid => v.total = 0
      /\ v.tail # kInvalid =>
            /\ v.tail \in R /\ k.nodes[v.tail].next = kInvalid
            /\ k.nodes[v.tail].side = k.nodes[i].side /\ k.nodes[v.tail].level = k.nodes[i].level
            /\ v.total = EndAt(k, ahead, v.tail)
  <2>1. PICK s \in Sides, l \in LevelIndices : s = k.nodes[i].side /\ l = k.nodes[i].level
    BY <1>1
  <2>2. v = k.levels[s][l]
    BY <2>1 DEF LevelOf
  <2> DEFINE x == k.levels[s][l]
  <2>3. /\ x.total \in Nat
        /\ x.tail = kInvalid <=> x.head = kInvalid
        /\ x.tail = kInvalid => x.total = 0
        /\ x.tail # kInvalid =>
            /\ x.tail \in R /\ k.nodes[x.tail].next = kInvalid
            /\ k.nodes[x.tail].side = s /\ k.nodes[x.tail].level = l
            /\ x.total = EndAt(k, ahead, x.tail)
    BY LevelEnd
  <2> HIDE DEF v
  <2> QED
    BY Zenon, <2>1, <2>2, <2>3
<1>5. v.tail # kInvalid => v.tail # i /\ SameQueue(k, i, v.tail)
  BY <1>4 DEF SameQueue
<1> QED
  BY Zenon, <1>1, <1>3, <1>4, <1>5

LEMMA AppendLinks ==
    ASSUME NEW k, NEW R, NEW ahead, Resting(k, R, ahead), IsBook(k), NEW i \in Pool \ R,
           k.nodes[i].level \in LevelIndices, k.nodes[i].next = kInvalid,
           NEW u, Appended(k, u, i, k.nodes[i].level)
    PROVE  Links(u, R \cup {i})
<1> DEFINE v == LevelOf(k, i)
           w == LevelOf(u, i)
           S == R \cup {i}
<1>1. /\ SameOrder(k.nodes[i], u.nodes[i]) /\ i # kInvalid
      /\ u.nodes[i].previous = v.tail /\ u.nodes[i].next = kInvalid
      /\ w.head = (IF v.tail = kInvalid THEN i ELSE v.head)
      /\ w.tail = i
      /\ v.tail = kInvalid <=> v.head = kInvalid
      /\ v.tail # kInvalid =>
            /\ v.tail \in R /\ v.tail # i /\ k.nodes[v.tail].next = kInvalid
            /\ SameQueue(k, i, v.tail)
  BY AppendedOrder
<1>2. /\ R \subseteq Pool /\ kInvalid \notin R /\ i \in Pool /\ i \notin R
      /\ \A j \in R : LinkOK(k, R, j)
  BY Invalid DEF Resting, Links
<1> HIDE DEF v, w
<1>3. ASSUME NEW j \in R PROVE LinkOK(u, S, j)
  <2>1. /\ LinkOK(k, R, j) /\ SameOrder(k.nodes[j], u.nodes[j]) /\ j \in Pool /\ j # i
        /\ u.nodes[j].previous = k.nodes[j].previous
    BY <1>2, AppendedNodes
  <2>2. u.nodes[j].level \in LevelIndices
    BY <2>1 DEF LinkOK, SameOrder
  <2>3. ASSUME u.nodes[j].previous = kInvalid PROVE LevelOf(u, j).head = j
    <3>1. LevelOf(k, j).head = j
      BY <2>1, <2>3 DEF LinkOK
    <3>2. CASE SameQueue(k, i, j)
      <4>1. LevelOf(u, j) = w /\ LevelOf(k, j) = v
        BY <3>2, AppendedNodes DEF v, w
      <4>2. v.head = j /\ j # kInvalid
        BY <1>2, <3>1, <4>1
      <4> QED
        BY <1>1, <4>1, <4>2
    <3>3. CASE ~SameQueue(k, i, j)
      BY <3>1, <3>3, AppendedNodes
    <3> QED
      BY <3>2, <3>3
  <2>4. ASSUME u.nodes[j].previous # kInvalid
        PROVE  LET r == u.nodes[j].previous
               IN  r \in S /\ SameQueue(u, j, r) /\ u.nodes[r].next = j
    <3>1. PICK r : r = u.nodes[j].previous
      OBVIOUS
    <3>2. r \in R /\ SameQueue(k, j, r) /\ k.nodes[r].next = j
      BY <2>1, <2>4, <3>1 DEF LinkOK
    <3>3. r # v.tail
      BY <1>1, <1>2, <3>2
    <3>4. u.nodes[r].next = j
      BY <3>2, <3>3, AppendedNodes DEF v
    <3>5. SameQueue(u, j, r)
      BY <1>2, <3>2, AppendedQueue
    <3> QED
      BY <3>1, <3>2, <3>4, <3>5
  <2>5. CASE j = v.tail
    <3>1. u.nodes[j].next = i /\ u.nodes[i].previous = j
      BY <1>1, <2>5, AppendedNodes DEF v
    <3>2. SameQueue(k, j, i)
      BY <1>1, <1>2, <2>5 DEF SameQueue
    <3>3. SameQueue(u, j, i)
      BY <1>2, <2>1, <3>2, AppendedQueue
    <3> QED
      BY <1>1, <2>2, <2>3, <2>4, <3>1, <3>3 DEF LinkOK
  <2>6. CASE j # v.tail
    <3>1. u.nodes[j].next = k.nodes[j].next
      BY <2>6, AppendedNodes DEF v
    <3>2. ASSUME u.nodes[j].next = kInvalid PROVE LevelOf(u, j).tail = j
      <4>1. LevelOf(k, j).tail = j
        BY <2>1, <3>1, <3>2 DEF LinkOK
      <4>2. ~SameQueue(k, i, j)
        BY <2>6, <4>1, AppendedNodes DEF v
      <4> QED
        BY <4>1, <4>2, AppendedNodes
    <3>3. ASSUME u.nodes[j].next # kInvalid
          PROVE  LET r == u.nodes[j].next
                 IN  r \in S /\ SameQueue(u, j, r) /\ u.nodes[r].previous = j
      <4>1. PICK r : r = u.nodes[j].next
        OBVIOUS
      <4>2. r \in R /\ SameQueue(k, j, r) /\ k.nodes[r].previous = j
        BY <2>1, <3>1, <3>3, <4>1 DEF LinkOK
      <4>3. u.nodes[r].previous = j
        BY <4>2, AppendedNodes
      <4>4. SameQueue(u, j, r)
        BY <1>2, <4>2, AppendedQueue
      <4> QED
        BY <4>1, <4>2, <4>3, <4>4
    <3> QED
      BY <2>2, <2>3, <2>4, <3>2, <3>3 DEF LinkOK
  <2> QED
    BY <2>5, <2>6
<1>4. LinkOK(u, S, i)
  <2>1. u.nodes[i].level \in LevelIndices
    BY <1>1 DEF SameOrder
  <2>2. v.tail = kInvalid => LevelOf(u, i).head = i
    BY <1>1 DEF w
  <2>3. LevelOf(u, i).tail = i
    BY <1>1 DEF w
  <2>4. ASSUME v.tail # kInvalid
        PROVE  v.tail \in S /\ SameQueue(u, i, v.tail) /\ u.nodes[v.tail].next = i
    <3>1. v.tail \in R /\ SameQueue(k, i, v.tail)
      BY <1>1, <2>4
    <3>2. u.nodes[v.tail].next = i
      BY <3>1, AppendedNodes DEF v
    <3>3. SameQueue(u, i, v.tail)
      BY <1>2, <3>1, AppendedQueue
    <3> QED
      BY <3>1, <3>2, <3>3
  <2> QED
    BY <1>1, <2>1, <2>2, <2>3, <2>4 DEF LinkOK
<1>5. ASSUME NEW s \in Sides, NEW l \in LevelIndices PROVE EndsOK(u, S, s, l)
  <2>1. EndsOK(k, R, s, l)
    BY Zenon DEF Resting, Links
  <2>2. CASE s = k.nodes[i].side /\ l = k.nodes[i].level
    <3>1. v = k.levels[s][l] /\ w = u.levels[s][l]
      BY Zenon, <1>1, <2>2 DEF v, w, LevelOf, SameOrder
    <3>2. /\ u.nodes[i].side = s /\ u.nodes[i].level = l
      BY <1>1, <2>2 DEF SameOrder
    <3>3. w.head # kInvalid
      BY <1>1
    <3>4. /\ w.head \in S /\ u.nodes[w.head].previous = kInvalid
          /\ u.nodes[w.head].side = s /\ u.nodes[w.head].level = l
      <4>1. CASE v.tail = kInvalid
        BY <1>1, <3>2, <4>1
      <4>2. CASE v.tail # kInvalid
        <5>1. /\ w.head = v.head /\ v.head \in R /\ k.nodes[v.head].previous = kInvalid
              /\ k.nodes[v.head].side = s /\ k.nodes[v.head].level = l
          BY <1>1, <2>1, <3>1, <4>2 DEF EndsOK
        <5>2. /\ SameOrder(k.nodes[v.head], u.nodes[v.head])
              /\ u.nodes[v.head].previous = k.nodes[v.head].previous
          BY <5>1, AppendedNodes
        <5> QED
          BY Zenon, <5>1, <5>2 DEF SameOrder
      <4> QED
        BY <4>1, <4>2
    <3> QED
      BY Zenon, <1>1, <3>1, <3>2, <3>3, <3>4 DEF EndsOK
  <2>3. CASE s # k.nodes[i].side \/ l # k.nodes[i].level
    <3>1. u.levels[s][l] = k.levels[s][l]
      BY Zenon, <2>3 DEF Appended
    <3>2. ASSUME NEW h \in R, k.nodes[h].side = s, k.nodes[h].level = l
          PROVE  /\ u.nodes[h].side = s /\ u.nodes[h].level = l
                 /\ u.nodes[h].previous = k.nodes[h].previous
                 /\ u.nodes[h].next = k.nodes[h].next
      <4>1. h # v.tail
        BY <1>1, <1>2, <2>3, <3>2 DEF SameQueue
      <4>2. /\ SameOrder(k.nodes[h], u.nodes[h]) /\ u.nodes[h].previous = k.nodes[h].previous
            /\ u.nodes[h].next = k.nodes[h].next
        BY <4>1, AppendedNodes DEF v
      <4> QED
        BY <3>2, <4>2 DEF SameOrder
    <3> QED
      BY Zenon, <2>1, <3>1, <3>2 DEF EndsOK
  <2> QED
    BY <2>2, <2>3
<1> QED
  BY <1>3, <1>4, <1>5 DEF Links

LEMMA AppendPlaces ==
    ASSUME NEW k, NEW R, NEW ahead, Resting(k, R, ahead), IsBook(k), NEW i \in Pool \ R,
           k.nodes[i].level \in LevelIndices, k.nodes[i].next = kInvalid,
           k.nodes[i].remaining \in Nat \ {0},
           NEW u, Appended(k, u, i, k.nodes[i].level)
    PROVE  Places(u, R \cup {i}, Placed(ahead, i, LevelOf(k, i).total))
<1> DEFINE v == LevelOf(k, i)
           w == LevelOf(u, i)
           S == R \cup {i}
           a == Placed(ahead, i, v.total)
<1>1. /\ SameOrder(k.nodes[i], u.nodes[i]) /\ i # kInvalid
      /\ u.nodes[i].previous = v.tail /\ u.nodes[i].next = kInvalid
      /\ w.head = (IF v.tail = kInvalid THEN i ELSE v.head)
      /\ w.total = v.total + k.nodes[i].remaining
      /\ v.total \in Nat
      /\ v.tail = kInvalid <=> v.head = kInvalid
      /\ v.tail = kInvalid => v.total = 0
      /\ v.tail # kInvalid => /\ v.tail \in R /\ v.tail # i /\ v.total = EndAt(k, ahead, v.tail)
  BY AppendedOrder
<1>2. R \subseteq Pool /\ i \in Pool /\ i \notin R
  BY DEF Resting
<1>3. a[i] = v.total /\ \A j \in R : a[j] = ahead[j]
  BY <1>2 DEF Placed
<1> HIDE DEF v, w, a
<1>4. EndAt(u, a, i) = v.total + k.nodes[i].remaining
  BY <1>1, <1>3 DEF EndAt, SameOrder
<1>5. ASSUME NEW j \in R
      PROVE  /\ EndAt(u, a, j) = EndAt(k, ahead, j) /\ EndAt(k, ahead, j) \in Nat
             /\ ahead[j] \in Nat /\ u.nodes[j].remaining \in Nat
             /\ u.nodes[j].previous = k.nodes[j].previous
             /\ PlaceOK(k, R, ahead, j) /\ LinkOK(k, R, j) /\ j \in Pool
  <2>1. SameOrder(k.nodes[j], u.nodes[j]) /\ u.nodes[j].previous = k.nodes[j].previous
    BY AppendedNodes
  <2>2. k.nodes[j].remaining \in Nat /\ EndAt(k, ahead, j) \in Nat /\ ahead[j] \in Nat
    BY PlaceFields
  <2>3. PlaceOK(k, R, ahead, j) /\ LinkOK(k, R, j)
    BY DEF Resting, Places, Links
  <2> QED
    BY <1>2, <1>3, <2>1, <2>2, <2>3 DEF EndAt, SameOrder
<1>6. ASSUME NEW j \in R, SameQueue(k, i, j) PROVE EndAt(u, a, j) <= v.total
  <2>1. LevelOf(k, j) = v
    BY <1>6, AppendedNodes DEF v
  <2> QED
    BY <1>5, <2>1 DEF PlaceOK
<1>7. ASSUME NEW j \in R PROVE PlaceOK(u, S, a, j)
  <2>1. a[j] \in Nat /\ u.nodes[j].remaining \in Nat
    BY <1>3, <1>5
  <2>2. u.nodes[j].previous = kInvalid => a[j] = 0
    BY <1>3, <1>5 DEF PlaceOK
  <2>3. ASSUME u.nodes[j].previous # kInvalid PROVE a[j] = EndAt(u, a, u.nodes[j].previous)
    <3>1. PICK p : p = u.nodes[j].previous
      OBVIOUS
    <3>2. p \in R /\ ahead[j] = EndAt(k, ahead, p)
      BY <1>5, <2>3, <3>1 DEF LinkOK, PlaceOK
    <3> QED
      BY <1>3, <1>5, <3>1, <3>2
  <2>4. u.nodes[j].next = kInvalid => LevelOf(u, j).total = EndAt(u, a, j)
    <3> SUFFICES ASSUME u.nodes[j].next = kInvalid PROVE LevelOf(u, j).total = EndAt(u, a, j)
      OBVIOUS
    <3>1. j # v.tail
      BY <1>1, AppendedNodes DEF v
    <3>2. k.nodes[j].next = kInvalid
      BY <3>1, AppendedNodes DEF v
    <3>3. LevelOf(k, j).tail = j
      BY <1>5, <3>2 DEF LinkOK
    <3>4. ~SameQueue(k, i, j)
      BY <3>1, <3>3, AppendedNodes DEF v
    <3>5. LevelOf(u, j) = LevelOf(k, j)
      BY <3>4, AppendedNodes
    <3> QED
      BY <1>5, <3>2, <3>5 DEF PlaceOK
  <2>5. EndAt(u, a, j) <= LevelOf(u, j).total
    <3>1. CASE SameQueue(k, i, j)
      <4>1. LevelOf(u, j) = w
        BY <3>1, AppendedNodes DEF w
      <4> QED
        BY <1>1, <1>5, <1>6, <3>1, <4>1
    <3>2. CASE ~SameQueue(k, i, j)
      <4>1. LevelOf(u, j) = LevelOf(k, j)
        BY <3>2, AppendedNodes
      <4> QED
        BY <1>5, <4>1 DEF PlaceOK
    <3> QED
      BY <3>1, <3>2
  <2>6. ASSUME NEW m \in S, m # j, SameQueue(u, j, m)
        PROVE  EndAt(u, a, j) <= a[m] \/ EndAt(u, a, m) <= a[j]
    <3>1. SameQueue(k, j, m)
      BY <1>2, <2>6, AppendedQueue
    <3>2. CASE m = i
      <4>1. SameQueue(k, i, j)
        BY <3>1, <3>2 DEF SameQueue
      <4> QED
        BY <1>3, <1>6, <3>2, <4>1
    <3>3. CASE m # i
      <4>1. m \in R
        BY <2>6, <3>3
      <4>2. EndAt(k, ahead, j) <= ahead[m] \/ EndAt(k, ahead, m) <= ahead[j]
        BY <1>5, <2>6, <3>1, <4>1 DEF PlaceOK
      <4> QED
        BY <1>3, <1>5, <4>1, <4>2
    <3> QED
      BY <3>2, <3>3
  <2> QED
    BY <2>1, <2>2, <2>3, <2>4, <2>5, <2>6 DEF PlaceOK
<1>8. PlaceOK(u, S, a, i)
  <2>1. a[i] \in Nat /\ u.nodes[i].remaining \in Nat
    BY <1>1, <1>3 DEF SameOrder
  <2>2. u.nodes[i].previous = kInvalid => a[i] = 0
    BY <1>1, <1>3
  <2>3. u.nodes[i].previous # kInvalid => a[i] = EndAt(u, a, u.nodes[i].previous)
    BY <1>1, <1>3, <1>5
  <2>4. LevelOf(u, i).total = EndAt(u, a, i) /\ EndAt(u, a, i) \in Nat
    BY <1>1, <1>4 DEF w
  <2>5. ASSUME NEW m \in S, m # i, SameQueue(u, i, m)
        PROVE  EndAt(u, a, i) <= a[m] \/ EndAt(u, a, m) <= a[i]
    <3>1. m \in R /\ SameQueue(k, i, m)
      BY <1>2, <2>5, AppendedQueue
    <3> QED
      BY <1>3, <1>6, <3>1
  <2> QED
    BY <2>1, <2>2, <2>3, <2>4, <2>5 DEF PlaceOK
<1>9. ASSUME NEW s \in Sides, NEW l \in LevelIndices, u.levels[s][l].head = kInvalid
      PROVE  u.levels[s][l].total = 0
  <2>1. s # k.nodes[i].side \/ l # k.nodes[i].level
    BY Zenon, <1>1, <1>9 DEF w, LevelOf, SameOrder
  <2>2. u.levels[s][l] = k.levels[s][l]
    BY Zenon, <2>1 DEF Appended
  <2> QED
    BY <1>9, <2>2 DEF Resting, Places
<1>10. Places(u, S, a)
  BY <1>7, <1>8, <1>9 DEF Places
<1> QED
  BY <1>10 DEF a, v

\* append puts an order to rest.
LEMMA AppendResting ==
    ASSUME NEW k, NEW R, NEW ahead, Resting(k, R, ahead), IsBook(k), NEW i \in Pool \ R,
           NEW level \in LevelIndices, k.nodes[i].level = level, k.nodes[i].next = kInvalid,
           k.nodes[i].remaining \in Nat \ {0},
           NEW u, u = AppendTo(k, i, level)
    PROVE  /\ IsBook(u) /\ SameRest(k, u) /\ Appended(k, u, i, level)
           /\ \A n \in Pool : SameOrder(k.nodes[n], u.nodes[n])
           /\ Resting(u, R \cup {i}, Placed(ahead, i, LevelOf(k, i).total))
<1> DEFINE a == Placed(ahead, i, LevelOf(k, i).total)
<1>1. R \subseteq Pool /\ Bits(k) /\ k.nodes[i].side \in Sides
  BY NodeFields DEF Resting
<1>2. /\ k.levels[k.nodes[i].side][level].tail # i
      /\ k.levels[k.nodes[i].side][level].tail # kInvalid =>
            k.levels[k.nodes[i].side][level].head # kInvalid
  <2>1. PICK s \in Sides : s = k.nodes[i].side
    BY <1>1
  <2>2. /\ k.levels[s][level].tail # i
        /\ k.levels[s][level].tail # kInvalid => k.levels[s][level].head # kInvalid
    BY SMTT(20), LevelEnd, Invalid
  <2> QED
    BY <2>1, <2>2
<1>3. IsBook(u) /\ Bits(u) /\ Appended(k, u, i, level) /\ SameRest(k, u)
  BY <1>1, <1>2, AppendAppends
<1>4. Links(u, R \cup {i}) /\ Places(u, R \cup {i}, a)
  BY <1>3, AppendLinks, AppendPlaces
<1>5. \A n \in Pool : SameOrder(k.nodes[n], u.nodes[n])
  BY <1>3 DEF Appended
<1>6. \A j \in R \cup {i} : u.nodes[j].remaining # 0
  BY <1>1, <1>5 DEF Resting, SameOrder
<1> HIDE DEF a
<1>7. Resting(u, R \cup {i}, a)
  BY <1>1, <1>3, <1>4, <1>6 DEF Resting
<1> QED
  BY <1>3, <1>5, <1>7 DEF a

-----------------------------------------------------------------------------
(***************************************************************************)
(* The other writes: what each operation makes of the fields.              *)
(***************************************************************************)
IndexWith(index, id, i) == [x \in DOMAIN index \cup {id} |-> IF x = id THEN i ELSE index[x]]
IndexWithout(index, id) == [x \in DOMAIN index \ {id} |-> index[x]]
NodesWith(nodes, i, o) == [nodes EXCEPT ![i] = o]
FreeNode(next) == [Node EXCEPT !.free_next = next]

LEMMA InsertIs ==
    ASSUME NEW k, IsBook(k), NEW id, NEW i
    PROVE  Insert(k, id, i) = Book(k.nodes, k.levels, k.bitmap, k.best,
                                   IndexWith(k.index, id, i), k.free, k.active)
<1>1. Insert(k, id, i) = [k EXCEPT !.index = IndexWith(k.index, id, i)]
  BY DEF Insert, IndexWith
<1> QED
  BY <1>1, WriteField

LEMMA EraseIs ==
    ASSUME NEW k, IsBook(k), NEW id
    PROVE  Erase(k, id) = Book(k.nodes, k.levels, k.bitmap, k.best,
                               IndexWithout(k.index, id), k.free, k.active)
<1>1. Erase(k, id) = [k EXCEPT !.index = IndexWithout(k.index, id)]
  BY DEF Erase, IndexWithout
<1> QED
  BY <1>1, WriteField

\* One node of a book written.
NodeWith(k, i, o) == [k EXCEPT !.nodes[i] = o]

LEMMA NodeWithIs ==
    ASSUME NEW nodes, NEW levels, NEW bitmap, NEW best, NEW index, NEW free, NEW active,
           NEW i, NEW o
    PROVE  NodeWith(Book(nodes, levels, bitmap, best, index, free, active), i, o) =
             Book(NodesWith(nodes, i, o), levels, bitmap, best, index, free, active)
<1> DEFINE k == Book(nodes, levels, bitmap, best, index, free, active)
<1>1. k.nodes = nodes
  BY BookFields
<1>2. NodeWith(k, i, o) = [k EXCEPT !.nodes = NodesWith(k.nodes, i, o)]
  BY DEF NodeWith, NodesWith
<1> HIDE DEF k
<1>3. NodeWith(k, i, o) = [k EXCEPT !.nodes = NodesWith(nodes, i, o)]
  BY <1>1, <1>2
<1> QED
  BY <1>3, SetNodes DEF k

LEMMA AllocateIs ==
    ASSUME NEW k, IsBook(k)
    PROVE  Allocate(k) = Book(NodesWith(k.nodes, k.free, Node), k.levels, k.bitmap, k.best,
                              k.index, k.nodes[k.free].free_next, k.active + 1)
<1>1. PICK f, x, y : f = k.free /\ x = k.nodes[k.free].free_next /\ y = k.active + 1
  OBVIOUS
<1> DEFINE j == [k EXCEPT !.free = x]
           m == NodeWith(j, f, Node)
<1>2. j = Book(k.nodes, k.levels, k.bitmap, k.best, k.index, x, k.active)
  BY WriteField
<1>3. Allocate(k) = [m EXCEPT !.active = @ + 1]
  BY <1>1 DEF Allocate, NodeWith
<1> HIDE DEF j
<1>4. m = Book(NodesWith(k.nodes, f, Node), k.levels, k.bitmap, k.best, k.index, x, k.active)
  BY <1>2, NodeWithIs
<1> HIDE DEF m
<1>5. m.active = k.active
  BY <1>4, BookFields
<1>6. Allocate(k) = [m EXCEPT !.active = y]
  BY <1>1, <1>3, <1>5
<1>7. Allocate(k) = Book(NodesWith(k.nodes, f, Node), k.levels, k.bitmap, k.best, k.index, x, y)
  BY <1>4, <1>6, SetActive
<1> QED
  BY <1>1, <1>7

LEMMA ReleaseIs ==
    ASSUME NEW k, IsBook(k), NEW i
    PROVE  Release(k, i) =
             Book(NodesWith(k.nodes, i, FreeNode(k.free)), k.levels, k.bitmap, k.best,
                  IndexWithout(k.index, k.nodes[i].id), i, k.active - 1)
<1>1. PICK x, y, z : x = FreeNode(k.free) /\ y = IndexWithout(k.index, k.nodes[i].id) /\ z = k.active - 1
  OBVIOUS
<1> DEFINE j == Erase(k, k.nodes[i].id)
           m == NodeWith(j, i, x)
           n == [m EXCEPT !.free = i]
<1>2. j = Book(k.nodes, k.levels, k.bitmap, k.best, y, k.free, k.active)
  BY <1>1, EraseIs
<1>3. Release(k, i) = [n EXCEPT !.active = @ - 1]
  BY <1>1 DEF Release, NodeWith, FreeNode
<1> HIDE DEF j
<1>4. m = Book(NodesWith(k.nodes, i, x), k.levels, k.bitmap, k.best, y, k.free, k.active)
  BY <1>2, NodeWithIs
<1> HIDE DEF m
<1>5. n = Book(NodesWith(k.nodes, i, x), k.levels, k.bitmap, k.best, y, i, k.active)
  BY <1>4, SetFree
<1> HIDE DEF n
<1>6. n.active = k.active
  BY <1>5, BookFields
<1>7. Release(k, i) = [n EXCEPT !.active = z]
  BY <1>1, <1>3, <1>6
<1>8. Release(k, i) = Book(NodesWith(k.nodes, i, x), k.levels, k.bitmap, k.best, y, i, z)
  BY <1>5, <1>7, SetActive
<1> QED
  BY <1>1, <1>8

\* What a replaced or modified order becomes.
RenewedNode(o, id, price, quantity) ==
    [[[[o EXCEPT !.id = id] EXCEPT !.price = price] EXCEPT !.remaining = quantity]
        EXCEPT !.level = price_index(price)]

LEMMA RenewedIs ==
    ASSUME NEW k, IsBook(k), NEW i \in Pool, NEW id, NEW price, NEW quantity
    PROVE  Renewed(k, i, id, price, quantity) =
             Book(NodesWith(k.nodes, i, RenewedNode(k.nodes[i], id, price, quantity)),
                  k.levels, k.bitmap, k.best, k.index, k.free, k.active)
<1> DEFINE nodes == [[[[k.nodes EXCEPT ![i].id = id] EXCEPT ![i].price = price]
                        EXCEPT ![i].remaining = quantity] EXCEPT ![i].level = price_index(price)]
<1>1. Renewed(k, i, id, price, quantity) = [k EXCEPT !.nodes = nodes]
  BY DEF Renewed, IsBook, Book
<1>2. nodes = NodesWith(k.nodes, i, RenewedNode(k.nodes[i], id, price, quantity))
  BY DEF NodesWith, RenewedNode, IsBook
<1> HIDE DEF nodes
<1> QED
  BY <1>1, <1>2, WriteField

-----------------------------------------------------------------------------
(***************************************************************************)
(* The pool.  U is the set of the nodes in use, and depth[i] the length of *)
(* the free list from a free node i on.                                    *)
(***************************************************************************)
FreeList(k, F, depth) ==
    /\ \A i \in F :
          /\ depth[i] \in Nat /\ 1 <= depth[i] /\ depth[i] <= OrderCapacity - k.active
          /\ k.nodes[i].free_next = kInvalid => depth[i] = 1
          /\ k.nodes[i].free_next # kInvalid =>
                k.nodes[i].free_next \in F /\ depth[i] = depth[k.nodes[i].free_next] + 1
    /\ \A i, j \in F : depth[i] = depth[j] => i = j
    /\ k.free = kInvalid => k.active = OrderCapacity
    /\ k.free # kInvalid => k.free \in F /\ depth[k.free] = OrderCapacity - k.active

Indexed(k, U) ==
    /\ \A id \in DOMAIN k.index : k.index[id] \in U /\ k.nodes[k.index[id]].id = id
    /\ \A i \in U : k.nodes[i].id \in DOMAIN k.index /\ k.index[k.nodes[i].id] = i
    /\ IsFiniteSet(DOMAIN k.index) /\ k.active = Cardinality(DOMAIN k.index)

Pooled(k, U, depth) == U \subseteq Pool /\ FreeList(k, Pool \ U, depth) /\ Indexed(k, U)

\* Nothing of what the pool is about changes.
LEMMA PoolFrame ==
    ASSUME NEW k, NEW U, NEW depth, Pooled(k, U, depth), NEW u,
           u.index = k.index, u.free = k.free, u.active = k.active,
           \A i \in U : u.nodes[i].id = k.nodes[i].id,
           \A i \in Pool \ U : u.nodes[i].free_next = k.nodes[i].free_next
    PROVE  Pooled(u, U, depth)
<1>1. FreeList(u, Pool \ U, depth)
  BY DEF Pooled, FreeList
<1>2. Indexed(u, U)
  BY DEF Pooled, Indexed
<1> QED
  BY <1>1, <1>2 DEF Pooled

LEMMA RestingFrame ==
    ASSUME NEW k, NEW R, NEW ahead, Resting(k, R, ahead), NEW u,
           u.levels = k.levels, u.bitmap = k.bitmap, u.best = k.best,
           \A j \in R : u.nodes[j] = k.nodes[j]
    PROVE  Resting(u, R, ahead)
<1>1. ASSUME NEW j \in R PROVE LinkOK(u, R, j)
  <2>1. LinkOK(k, R, j)
    BY DEF Resting, Links
  <2> QED
    BY <2>1 DEF LinkOK, LevelOf, SameQueue
<1>2. ASSUME NEW s \in Sides, NEW l \in LevelIndices PROVE EndsOK(u, R, s, l)
  <2>1. EndsOK(k, R, s, l)
    BY DEF Resting, Links
  <2> QED
    BY <2>1 DEF EndsOK
<1>3. ASSUME NEW j \in R PROVE PlaceOK(u, R, ahead, j)
  <2>1. PlaceOK(k, R, ahead, j) /\ LinkOK(k, R, j)
    BY DEF Resting, Places, Links
  <2>2. \A m \in R : EndAt(u, ahead, m) = EndAt(k, ahead, m)
    BY DEF EndAt
  <2>3. LevelOf(u, j) = LevelOf(k, j) /\ u.nodes[j] = k.nodes[j]
    BY DEF LevelOf
  <2>4. \A m \in R : SameQueue(u, j, m) <=> SameQueue(k, j, m)
    BY DEF SameQueue
  <2>5. k.nodes[j].previous # kInvalid => k.nodes[j].previous \in R
    BY <2>1 DEF LinkOK
  <2> QED
    BY <2>1, <2>2, <2>3, <2>4, <2>5 DEF PlaceOK
<1>4. Links(u, R)
  BY <1>1, <1>2 DEF Links
<1>5. Places(u, R, ahead)
  BY <1>3 DEF Places, Resting
<1>6. Bits(u)
  BY DEF Bits, Resting
<1> QED
  BY <1>4, <1>5, <1>6 DEF Resting

LEMMA NodesWritten ==
    ASSUME NEW k, IsBook(k), NEW i \in Pool, NEW o \in NodeType
    PROVE  LET nodes == NodesWith(k.nodes, i, o)
           IN  /\ nodes \in [Pool -> NodeType] /\ nodes[i] = o
               /\ \A j \in Pool : j # i => nodes[j] = k.nodes[j]
BY DEF IsBook, NodesWith

\* An assembled book.
LEMMA Assembled ==
    ASSUME NEW k, IsBook(k), NEW nodes \in [Pool -> NodeType], NEW index,
           IsIndex(index), NEW free \in Link, NEW active \in Int,
           NEW u, u = Book(nodes, k.levels, k.bitmap, k.best, index, free, active)
    PROVE  /\ IsBook(u) /\ u.nodes = nodes /\ u.levels = k.levels /\ u.bitmap = k.bitmap
           /\ u.best = k.best /\ u.index = index /\ u.free = free /\ u.active = active
<1>1. /\ u.nodes = nodes /\ u.levels = k.levels /\ u.bitmap = k.bitmap
      /\ u.best = k.best /\ u.index = index /\ u.free = free /\ u.active = active
  BY BookFields
<1>2. u = Book(u.nodes, u.levels, u.bitmap, u.best, u.index, u.free, u.active)
  BY <1>1
<1>3. IsBook(u)
  BY <1>1, <1>2 DEF IsBook
<1> QED
  BY <1>1, <1>3

IsWith(index, new, id, i) ==
    /\ DOMAIN new = DOMAIN index \cup {id} /\ new[id] = i
    /\ \A x \in DOMAIN index : x # id => new[x] = index[x]
IsWithout(index, new, id) ==
    /\ DOMAIN new = DOMAIN index \ {id}
    /\ \A x \in DOMAIN index : x # id => new[x] = index[x]

LEMMA IndexWithIs ==
    ASSUME NEW index, NEW id, NEW i
    PROVE  /\ IsIndex(IndexWith(index, id, i))
           /\ IsWith(index, IndexWith(index, id, i), id, i)
BY DEF IndexWith, IsIndex, IsWith

LEMMA IndexWithoutIs ==
    ASSUME NEW index, NEW id
    PROVE  /\ IsIndex(IndexWithout(index, id))
           /\ IsWithout(index, IndexWithout(index, id), id)
BY DEF IndexWithout, IsIndex, IsWithout

LEMMA NodeIsNode ==
    /\ Node \in NodeType /\ Node.next = kInvalid
    /\ \A x \in Link : FreeNode(x) \in NodeType /\ FreeNode(x).free_next = x
BY SMTT(20) DEF Node, NodeType, Link, Sides, FreeNode

\* allocate, with what the caller makes of the node.
Took(k, u, U, o, depth) ==
    /\ IsBook(u) /\ u.levels = k.levels /\ u.bitmap = k.bitmap /\ u.best = k.best
    /\ k.free \in Pool \ U /\ u.nodes[k.free] = o
    /\ \A j \in U : u.nodes[j] = k.nodes[j]
    /\ Pooled(u, U \cup {k.free}, depth)

LEMMA TakeNode ==
    ASSUME NEW k, IsBook(k), NEW U, NEW depth, Pooled(k, U, depth), k.free # kInvalid,
           NEW id, id \notin DOMAIN k.index, NEW o \in NodeType, o.id = id,
           NEW u, u = Book(NodesWith(k.nodes, k.free, o), k.levels, k.bitmap, k.best,
                           IndexWith(k.index, id, k.free), k.nodes[k.free].free_next, k.active + 1)
    PROVE  Took(k, u, U, o, depth)
<1>1. PICK f : f = k.free
  OBVIOUS
<1>2. f \in Pool \ U /\ f \in Pool /\ U \subseteq Pool /\ f \notin U
  BY <1>1 DEF Pooled, FreeList
<1>3. k.nodes[f].free_next \in Link /\ k.active \in Int
  BY <1>2, NodeFields DEF IsBook
<1>4. PICK nodes : nodes = NodesWith(k.nodes, f, o)
  OBVIOUS
<1>5. nodes \in [Pool -> NodeType] /\ nodes[f] = o /\ \A j \in Pool : j # f => nodes[j] = k.nodes[j]
  BY <1>2, <1>4, NodesWritten
<1>6. PICK index : index = IndexWith(k.index, id, f)
  OBVIOUS
<1>7. /\ IsIndex(index) /\ DOMAIN index = DOMAIN k.index \cup {id}
      /\ index[id] = f /\ \A x \in DOMAIN k.index : x # id => index[x] = k.index[x]
  <2>1. IsIndex(index) /\ IsWith(k.index, index, id, f)
    BY <1>6, IndexWithIs
  <2> QED
    BY <2>1 DEF IsWith
<1>8. k.active + 1 \in Int
  BY <1>3
<1>9. u = Book(nodes, k.levels, k.bitmap, k.best, index, k.nodes[f].free_next, k.active + 1)
  BY <1>1, <1>4, <1>6
<1>10. /\ IsBook(u) /\ u.nodes = nodes /\ u.levels = k.levels /\ u.bitmap = k.bitmap
       /\ u.best = k.best /\ u.index = index /\ u.free = k.nodes[f].free_next
       /\ u.active = k.active + 1
  BY <1>3, <1>5, <1>7, <1>8, <1>9, Assembled
<1>11. OrderCapacity \in Nat /\ kInvalid \notin Pool
  BY DenseAssumption, Invalid
<1>12. FreeList(u, Pool \ (U \cup {f}), depth)
  <2> DEFINE F == Pool \ U
             D == OrderCapacity - k.active
  <2>1. FreeList(k, F, depth) /\ depth[f] = D /\ D \in Int
    BY <1>1, <1>2, <1>3, <1>11 DEF Pooled, FreeList
  <2>2. ASSUME NEW i \in F, i # f
        PROVE  /\ depth[i] \in Nat /\ 1 <= depth[i] /\ depth[i] <= OrderCapacity - u.active
               /\ u.nodes[i].free_next = kInvalid => depth[i] = 1
               /\ u.nodes[i].free_next # kInvalid =>
                     /\ u.nodes[i].free_next \in F \ {f}
                     /\ depth[i] = depth[u.nodes[i].free_next] + 1
    <3>1. PICK n : n = k.nodes[i].free_next /\ n = u.nodes[i].free_next
      BY Zenon, <1>5, <1>10, <2>2
    <3>2. /\ depth[i] \in Nat /\ 1 <= depth[i] /\ depth[i] <= D
          /\ n = kInvalid => depth[i] = 1
          /\ n # kInvalid => n \in F /\ depth[i] = depth[n] + 1
      BY Zenon, <2>1, <3>1 DEF FreeList
    <3>3. depth[i] # D
      BY <1>2, <2>1, <2>2 DEF FreeList
    <3>4. n # f
      <4> SUFFICES ASSUME n = f PROVE FALSE
        OBVIOUS
      <4>1. depth[i] = D + 1
        BY <1>2, <1>11, <2>1, <3>2
      <4> QED
        BY <2>1, <3>2, <4>1
    <3>5. depth[i] <= OrderCapacity - u.active
      BY <1>3, <1>10, <1>11, <2>1, <3>2, <3>3
    <3> QED
      BY Zenon, <3>1, <3>2, <3>4, <3>5
  <2>3. \A i, j \in F : depth[i] = depth[j] => i = j
    BY <2>1 DEF FreeList
  <2>4. PICK n : n = k.nodes[f].free_next
    OBVIOUS
  <2>5. /\ n = kInvalid => D = 1
        /\ n # kInvalid => n \in F /\ D = depth[n] + 1 /\ depth[n] \in Nat
    BY <1>2, <2>1, <2>4 DEF FreeList
  <2>6. n = kInvalid => u.active = OrderCapacity
    BY <1>3, <1>10, <1>11, <2>5
  <2>7. n # kInvalid => n \in F \ {f} /\ depth[n] = OrderCapacity - u.active
    BY <1>3, <1>10, <1>11, <2>1, <2>5
  <2>8. Pool \ (U \cup {f}) = F \ {f} /\ u.free = n
    BY Zenon, <1>10, <2>4
  <2> HIDE DEF F, D
  <2>9. FreeList(u, F \ {f}, depth)
    BY Zenon, <2>2, <2>3, <2>6, <2>7, <2>8 DEF FreeList
  <2> QED
    BY Zenon, <2>8, <2>9
<1>13. Indexed(u, U \cup {f})
  <2>1. Indexed(k, U)
    BY DEF Pooled
  <2>2. IsFiniteSet(DOMAIN index) /\ Cardinality(DOMAIN index) = Cardinality(DOMAIN k.index) + 1
    <3>1. PICK S : S = DOMAIN k.index /\ IsFiniteSet(S) /\ id \notin S
      BY <2>1 DEF Indexed
    <3>2. IsFiniteSet(S \cup {id}) /\ Cardinality(S \cup {id}) = Cardinality(S) + 1
      BY <3>1, FS_AddElement
    <3> QED
      BY <1>7, <3>1, <3>2
  <2>3. ASSUME NEW x \in DOMAIN index PROVE index[x] \in U \cup {f} /\ nodes[index[x]].id = x
    BY <1>2, <1>5, <1>7, <2>1 DEF Indexed
  <2>4. ASSUME NEW i \in U \cup {f} PROVE nodes[i].id \in DOMAIN index /\ index[nodes[i].id] = i
    BY <1>2, <1>5, <1>7, <2>1 DEF Indexed
  <2>5. u.active = Cardinality(DOMAIN index)
    BY <1>10, <2>1, <2>2 DEF Indexed
  <2> QED
    BY Zenon, <1>10, <2>2, <2>3, <2>4, <2>5 DEF Indexed
<1>14. Pooled(u, U \cup {f}, depth)
  BY <1>2, <1>12, <1>13 DEF Pooled
<1> QED
  BY <1>1, <1>2, <1>5, <1>10, <1>14 DEF Took

\* release gives the node of an order back.
LEMMA ReleaseNode ==
    ASSUME NEW k, IsBook(k), NEW U, NEW depth, Pooled(k, U, depth), NEW i \in U,
           NEW u, u = Release(k, i)
    PROVE  /\ IsBook(u) /\ u.levels = k.levels /\ u.bitmap = k.bitmap /\ u.best = k.best
           /\ \A j \in Pool : j # i => u.nodes[j] = k.nodes[j]
           /\ Pooled(u, U \ {i}, Placed(depth, i, OrderCapacity - k.active + 1))
<1>1. PICK D : D = OrderCapacity - k.active
  OBVIOUS
<1>2. PICK nodes : nodes = NodesWith(k.nodes, i, FreeNode(k.free))
  OBVIOUS
<1>3. PICK id : id = k.nodes[i].id
  OBVIOUS
<1>4. PICK index : index = IndexWithout(k.index, id)
  OBVIOUS
<1>5. PICK new : new = Placed(depth, i, D + 1)
  OBVIOUS
<1>6. /\ i \in Pool /\ U \subseteq Pool /\ OrderCapacity \in Nat /\ kInvalid \notin Pool
      /\ k.free \in Link /\ k.active \in Int /\ D \in Int
  BY <1>1, DenseAssumption, Invalid DEF Pooled, IsBook
<1>7. /\ FreeNode(k.free) \in NodeType /\ FreeNode(k.free).free_next = k.free
  BY <1>6, NodeIsNode
<1>8. /\ nodes \in [Pool -> NodeType] /\ nodes[i].free_next = k.free
      /\ \A j \in Pool : j # i => nodes[j] = k.nodes[j]
  BY <1>2, <1>6, <1>7, NodesWritten
<1>9. /\ IsIndex(index) /\ DOMAIN index = DOMAIN k.index \ {id}
      /\ \A x \in DOMAIN k.index : x # id => index[x] = k.index[x]
  <2>1. IsIndex(index) /\ IsWithout(k.index, index, id)
    BY <1>4, IndexWithoutIs
  <2> QED
    BY <2>1 DEF IsWithout
<1>10. u = Book(nodes, k.levels, k.bitmap, k.best, index, i, k.active - 1)
  BY <1>2, <1>3, <1>4, ReleaseIs
<1>11. i \in Link /\ k.active - 1 \in Int
  BY <1>6 DEF Link
<1>12. /\ IsBook(u) /\ u.nodes = nodes /\ u.levels = k.levels /\ u.bitmap = k.bitmap
       /\ u.best = k.best /\ u.index = index /\ u.free = i /\ u.active = k.active - 1
  BY <1>8, <1>9, <1>10, <1>11, Assembled
<1>13. new[i] = D + 1 /\ \A j \in Pool : j # i => new[j] = depth[j]
  BY <1>5, <1>6 DEF Placed
<1>14. Indexed(k, U) /\ FreeList(k, Pool \ U, depth)
  BY DEF Pooled
<1>15. Indexed(u, U \ {i})
  <2>1. id \in DOMAIN k.index /\ k.index[id] = i
    BY <1>3, <1>14 DEF Indexed
  <2>2. IsFiniteSet(DOMAIN index) /\ Cardinality(DOMAIN index) = Cardinality(DOMAIN k.index) - 1
    BY <1>9, <1>14, <2>1, FS_RemoveElement DEF Indexed
  <2>3. ASSUME NEW x \in DOMAIN index PROVE index[x] \in U \ {i} /\ nodes[index[x]].id = x
    <3>1. x \in DOMAIN k.index /\ x # id /\ index[x] = k.index[x]
      BY <1>9
    <3>2. k.index[x] \in U /\ k.nodes[k.index[x]].id = x
      BY <1>14, <3>1 DEF Indexed
    <3>3. k.index[x] # i
      BY <1>3, <3>1, <3>2
    <3> QED
      BY <1>6, <1>8, <3>1, <3>2, <3>3
  <2>4. ASSUME NEW j \in U \ {i} PROVE nodes[j].id \in DOMAIN index /\ index[nodes[j].id] = j
    <3>1. nodes[j] = k.nodes[j] /\ k.nodes[j].id \in DOMAIN k.index /\ k.index[k.nodes[j].id] = j
      BY <1>6, <1>8, <1>14 DEF Indexed
    <3>2. k.nodes[j].id # id
      BY <2>1, <3>1
    <3> QED
      BY <1>9, <3>1, <3>2
  <2>5. u.active = Cardinality(DOMAIN index)
    BY <1>12, <1>14, <2>2 DEF Indexed
  <2> QED
    BY <1>12, <2>2, <2>3, <2>4, <2>5 DEF Indexed
<1>16. D \in Nat
  <2>1. CASE k.free = kInvalid
    BY <1>1, <1>6, <1>14, <2>1 DEF FreeList
  <2>2. CASE k.free # kInvalid
    BY <1>1, <1>6, <1>14, <2>2 DEF FreeList
  <2> QED
    BY <2>1, <2>2
<1>17. FreeList(u, Pool \ (U \ {i}), new)
  <2> DEFINE F == Pool \ U
  <2>1. Pool \ (U \ {i}) = F \cup {i} /\ i \notin F /\ F \subseteq Pool
    BY <1>6
  <2>2. D + 1 = OrderCapacity - u.active
    BY <1>1, <1>6, <1>12
  <2>3. ASSUME NEW j \in F
        PROVE  /\ new[j] \in Nat /\ 1 <= new[j] /\ new[j] <= D
               /\ u.nodes[j].free_next = kInvalid => new[j] = 1
               /\ u.nodes[j].free_next # kInvalid =>
                     /\ u.nodes[j].free_next \in F
                     /\ new[j] = new[u.nodes[j].free_next] + 1
    BY <1>1, <1>8, <1>12, <1>13, <1>14, <2>1 DEF FreeList
  <2>4. /\ new[i] \in Nat /\ 1 <= new[i] /\ new[i] <= D + 1
        /\ u.nodes[i].free_next = kInvalid => new[i] = 1
        /\ u.nodes[i].free_next # kInvalid =>
              /\ u.nodes[i].free_next \in F
              /\ new[i] = new[u.nodes[i].free_next] + 1
    <3>1. u.nodes[i].free_next = k.free
      BY <1>8, <1>12
    <3>2. k.free = kInvalid => D = 0
      BY <1>1, <1>6, <1>14 DEF FreeList
    <3>3. k.free # kInvalid => k.free \in F /\ depth[k.free] = D
      BY <1>1, <1>14 DEF FreeList
    <3>4. k.free # kInvalid => new[k.free] = D
      BY <1>13, <2>1, <3>3
    <3> QED
      BY <1>13, <1>16, <3>1, <3>2, <3>3, <3>4
  <2>5. \A j, m \in F : depth[j] = depth[m] => j = m
    BY <1>14 DEF FreeList
  <2>6. \A j, m \in F \cup {i} : new[j] = new[m] => j = m
    BY <1>13, <1>16, <2>1, <2>3, <2>5
  <2> HIDE DEF F
  <2>7. FreeList(u, F \cup {i}, new)
    <3>1. ASSUME NEW j \in F \cup {i}
          PROVE  /\ new[j] \in Nat /\ 1 <= new[j] /\ new[j] <= OrderCapacity - u.active
                 /\ u.nodes[j].free_next = kInvalid => new[j] = 1
                 /\ u.nodes[j].free_next # kInvalid =>
                       /\ u.nodes[j].free_next \in F \cup {i}
                       /\ new[j] = new[u.nodes[j].free_next] + 1
      <4>1. CASE j = i
        BY <2>2, <2>4, <4>1
      <4>2. CASE j \in F
        BY <1>16, <2>2, <2>3, <4>2
      <4> QED
        BY <4>1, <4>2
    <3>2. u.free = i /\ i # kInvalid
      BY <1>6, <1>12
    <3> QED
      BY <1>13, <2>2, <2>6, <3>1, <3>2 DEF FreeList
  <2> QED
    BY <2>1, <2>7
<1>18. Pooled(u, U \ {i}, new)
  BY <1>6, <1>15, <1>17 DEF Pooled
<1> QED
  BY <1>1, <1>5, <1>8, <1>12, <1>18

\* feed_replace files an order under another id.
LEMMA RenamePool ==
    ASSUME NEW k, NEW U, NEW depth, Pooled(k, U, depth), NEW i \in U,
           NEW old, old = k.nodes[i].id, NEW id, id \notin DOMAIN k.index,
           NEW u, u.index = IndexWithout(IndexWith(k.index, id, i), old),
           u.free = k.free, u.active = k.active, u.nodes[i].id = id,
           \A j \in U : j # i => u.nodes[j].id = k.nodes[j].id,
           \A j \in Pool \ U : u.nodes[j].free_next = k.nodes[j].free_next
    PROVE  Pooled(u, U, depth)
<1>1. Indexed(k, U) /\ FreeList(k, Pool \ U, depth) /\ U \subseteq Pool
  BY DEF Pooled
<1>2. old \in DOMAIN k.index /\ k.index[old] = i /\ old # id
  BY <1>1 DEF Indexed
<1>3. PICK mid : mid = IndexWith(k.index, id, i)
  OBVIOUS
<1>4. PICK index : index = IndexWithout(mid, old) /\ index = u.index
  BY <1>3
<1>5. /\ DOMAIN mid = DOMAIN k.index \cup {id}
      /\ mid[id] = i /\ \A x \in DOMAIN k.index : x # id => mid[x] = k.index[x]
  <2>1. IsWith(k.index, mid, id, i)
    BY <1>3, IndexWithIs
  <2> QED
    BY <2>1 DEF IsWith
<1>6. /\ DOMAIN index = DOMAIN mid \ {old}
      /\ \A x \in DOMAIN mid : x # old => index[x] = mid[x]
  <2>1. IsWithout(mid, index, old)
    BY <1>4, IndexWithoutIs
  <2> QED
    BY <2>1 DEF IsWithout
<1>7. /\ IsFiniteSet(DOMAIN mid) /\ Cardinality(DOMAIN mid) = Cardinality(DOMAIN k.index) + 1
  <2>1. PICK S : S = DOMAIN k.index /\ IsFiniteSet(S) /\ id \notin S
    BY <1>1 DEF Indexed
  <2>2. IsFiniteSet(S \cup {id}) /\ Cardinality(S \cup {id}) = Cardinality(S) + 1
    BY <2>1, FS_AddElement
  <2> QED
    BY <1>5, <2>1, <2>2
<1>8. /\ IsFiniteSet(DOMAIN index) /\ Cardinality(DOMAIN index) = Cardinality(DOMAIN mid) - 1
  BY <1>2, <1>5, <1>6, <1>7, FS_RemoveElement
<1>9. Cardinality(DOMAIN k.index) \in Nat
  BY <1>1, FS_CardinalityType DEF Indexed
<1>10. u.active = Cardinality(DOMAIN index)
  BY <1>1, <1>7, <1>8, <1>9 DEF Indexed
<1>11. /\ \A x \in DOMAIN k.index : k.index[x] \in U /\ k.nodes[k.index[x]].id = x
       /\ \A j \in U : k.nodes[j].id \in DOMAIN k.index /\ k.index[k.nodes[j].id] = j
  BY <1>1 DEF Indexed
<1>12. ASSUME NEW x \in DOMAIN index PROVE index[x] \in U /\ u.nodes[index[x]].id = x
  <2>1. CASE x = id
    BY <1>2, <1>5, <1>6, <2>1
  <2>2. CASE x # id
    <3>1. x \in DOMAIN k.index /\ x # old /\ index[x] = k.index[x]
      BY <1>5, <1>6, <2>2
    <3>2. k.index[x] \in U /\ k.nodes[k.index[x]].id = x /\ k.index[x] # i
      BY <1>11, <3>1
    <3> QED
      BY <3>1, <3>2
  <2> QED
    BY <2>1, <2>2
<1>13. ASSUME NEW j \in U PROVE u.nodes[j].id \in DOMAIN index /\ index[u.nodes[j].id] = j
  <2>1. CASE j = i
    BY <1>2, <1>5, <1>6, <2>1
  <2>2. CASE j # i
    <3>1. PICK x : x = k.nodes[j].id /\ x = u.nodes[j].id
      BY <2>2
    <3>2. x \in DOMAIN k.index /\ k.index[x] = j /\ x # id /\ x # old
      BY <1>2, <1>11, <2>2, <3>1
    <3> QED
      BY <1>5, <1>6, <3>1, <3>2
  <2> QED
    BY <2>1, <2>2
<1>14. Indexed(u, U)
  BY <1>4, <1>8, <1>10, <1>12, <1>13 DEF Indexed
<1>15. FreeList(u, Pool \ U, depth)
  BY <1>1 DEF FreeList
<1> QED
  BY <1>1, <1>14, <1>15 DEF Pooled

-----------------------------------------------------------------------------
(***************************************************************************)
(* Reducing an order at rest.                                              *)
(***************************************************************************)
Reduce(k, i, x, y) ==
    [k EXCEPT !.nodes[i].remaining = x,
              !.levels[k.nodes[i].side][k.nodes[i].level].total = y]

\* The links of the nodes and the ends of the levels.
SameWires(k, u) ==
    /\ \A j \in Pool : /\ u.nodes[j].previous = k.nodes[j].previous
                       /\ u.nodes[j].next = k.nodes[j].next
                       /\ u.nodes[j].side = k.nodes[j].side /\ u.nodes[j].level = k.nodes[j].level
    /\ \A s \in Sides : \A l \in LevelIndices :
          u.levels[s][l].head = k.levels[s][l].head /\ u.levels[s][l].tail = k.levels[s][l].tail

Reduced(k, u, i, q) ==
    LET o == k.nodes[i]
    IN  /\ SameWires(k, u) /\ u.bitmap = k.bitmap /\ u.best = k.best /\ SameRest(k, u)
        /\ u.nodes[i].remaining = o.remaining - q
        /\ \A j \in Pool : u.nodes[j].id = k.nodes[j].id
        /\ \A j \in Pool : j # i => u.nodes[j] = k.nodes[j]
        /\ u.levels[o.side][o.level].total = k.levels[o.side][o.level].total - q
        /\ \A s \in Sides : \A l \in LevelIndices :
              (s # o.side \/ l # o.level) => u.levels[s][l] = k.levels[s][l]

WithTotal(v, y) == [v EXCEPT !.total = y]
WithRemaining(o, x) == [o EXCEPT !.remaining = x]

LEMMA ReduceIs ==
    ASSUME NEW k, IsBook(k), NEW i \in Pool, k.nodes[i].level \in LevelIndices, NEW q \in Int,
           NEW u, u = Reduce(k, i, k.nodes[i].remaining - q, LevelOf(k, i).total - q)
    PROVE  IsBook(u) /\ Reduced(k, u, i, q)
<1> DEFINE o == k.nodes[i]
           v == k.levels[o.side][o.level]
<1>1. /\ o \in NodeType /\ o.side \in Sides /\ o.remaining \in Int /\ v \in LevelType
      /\ v.total \in Int /\ v = LevelOf(k, i)
  BY Zenon, NodeFields, LevelFields DEF LevelOf
<1>2. PICK x, y : x = o.remaining - q /\ y = v.total - q
  OBVIOUS
<1>3. x \in Int /\ y \in Int
  BY <1>1, <1>2
<1>4. PICK p : p = WithRemaining(o, x)
  OBVIOUS
<1>5. PICK w : w = WithTotal(v, y)
  OBVIOUS
<1>6. PICK N : N = NodesWith(k.nodes, i, p)
  OBVIOUS
<1>7. PICK L : L = LevelsWith(k.levels, o.side, o.level, w)
  BY Zenon
<1>8. u = Relink(k, N, L)
  <2>1. u = [k EXCEPT !.nodes[i].remaining = x, !.levels[o.side][o.level].total = y]
    BY Zenon, <1>1, <1>2 DEF Reduce
  <2>2. N = [k.nodes EXCEPT ![i].remaining = x] /\ L = [k.levels EXCEPT ![o.side][o.level].total = y]
    BY Zenon, <1>4, <1>5, <1>6, <1>7 DEF NodesWith, LevelsWith, WithRemaining, WithTotal
  <2> QED
    BY Zenon, <2>1, <2>2 DEF Relink
<1>9. /\ p \in NodeType /\ p.remaining = x
      /\ p.id = o.id /\ p.side = o.side
      /\ p.previous = o.previous /\ p.next = o.next /\ p.level = o.level
  BY <1>1, <1>3, <1>4, NodeRemaining DEF WithRemaining
<1>10. w \in LevelType /\ w.total = y /\ w.head = v.head /\ w.tail = v.tail
  BY <1>1, <1>3, <1>5 DEF LevelType, WithTotal
<1>11. N \in [Pool -> NodeType] /\ N[i] = p /\ \A j \in Pool : j # i => N[j] = k.nodes[j]
  BY <1>6, <1>9, NodesWritten
<1>12. Rewrites(k.levels, L, o.side, o.level, w)
  <2>1. k.levels \in [Sides -> [LevelIndices -> LevelType]]
    BY DEF IsBook
  <2> QED
    BY <1>1, <1>7, <1>10, <2>1, LevelWritten
<1>13. /\ IsBook(u) /\ u.nodes = N /\ u.levels = L /\ u.bitmap = k.bitmap
       /\ u.best = k.best /\ SameRest(k, u)
  BY <1>8, <1>11, <1>12, RelinkBook DEF Rewrites
<1>14. \A s \in Sides : \A l \in LevelIndices :
          /\ (s # o.side \/ l # o.level) => L[s][l] = k.levels[s][l]
          /\ L[s][l].head = k.levels[s][l].head /\ L[s][l].tail = k.levels[s][l].tail
  BY Zenon, <1>10, <1>12 DEF Rewrites
<1>15. L[o.side][o.level].total = v.total - q
  BY <1>2, <1>10, <1>12 DEF Rewrites
<1>16. \A j \in Pool : /\ N[j].previous = k.nodes[j].previous /\ N[j].next = k.nodes[j].next
                       /\ N[j].side = k.nodes[j].side /\ N[j].level = k.nodes[j].level
                       /\ N[j].id = k.nodes[j].id
  BY Zenon, <1>9, <1>11
<1>17. SameWires(k, u)
  BY <1>13, <1>14, <1>16 DEF SameWires
<1>18. N[i].remaining = o.remaining - q
  BY Zenon, <1>2, <1>9, <1>11
<1>19. Reduced(k, u, i, q)
  BY Zenon, <1>11, <1>13, <1>14, <1>15, <1>16, <1>17, <1>18 DEF Reduced
<1> QED
  BY Zenon, <1>13, <1>19

LEMMA WiresLinks ==
    ASSUME NEW k, NEW R \in SUBSET Pool, Links(k, R), IsBook(k), NEW u, SameWires(k, u)
    PROVE  Links(u, R)
<1>1. ASSUME NEW j \in R PROVE LinkOK(u, R, j)
  <2>1. LinkOK(k, R, j) /\ j \in Pool
    BY DEF Links
  <2>2. /\ u.nodes[j].previous = k.nodes[j].previous /\ u.nodes[j].next = k.nodes[j].next
        /\ u.nodes[j].side = k.nodes[j].side /\ u.nodes[j].level = k.nodes[j].level
    BY <2>1 DEF SameWires
  <2>3. k.nodes[j].side \in Sides /\ k.nodes[j].level \in LevelIndices
    BY <2>1, NodeFields DEF LinkOK
  <2>4. LevelOf(u, j).head = LevelOf(k, j).head /\ LevelOf(u, j).tail = LevelOf(k, j).tail
    BY Zenon, <2>2, <2>3 DEF SameWires, LevelOf
  <2>5. \A m \in R : /\ SameQueue(k, j, m) => SameQueue(u, j, m)
                     /\ u.nodes[m].next = k.nodes[m].next
                     /\ u.nodes[m].previous = k.nodes[m].previous
    BY <2>1 DEF SameWires, SameQueue
  <2> QED
    BY <2>1, <2>2, <2>4, <2>5 DEF LinkOK
<1>2. ASSUME NEW s \in Sides, NEW l \in LevelIndices PROVE EndsOK(u, R, s, l)
  <2>1. EndsOK(k, R, s, l)
    BY DEF Links
  <2>2. /\ u.levels[s][l].head = k.levels[s][l].head
        /\ u.levels[s][l].tail = k.levels[s][l].tail
    BY DEF SameWires
  <2>3. \A m \in R : /\ u.nodes[m].previous = k.nodes[m].previous
                     /\ u.nodes[m].next = k.nodes[m].next
                     /\ u.nodes[m].side = k.nodes[m].side /\ u.nodes[m].level = k.nodes[m].level
    BY DEF SameWires
  <2> QED
    BY <2>1, <2>2, <2>3 DEF EndsOK
<1> QED
  BY <1>1, <1>2 DEF Links

LEMMA WiresBits ==
    ASSUME NEW k, Bits(k), NEW u, SameWires(k, u), u.bitmap = k.bitmap, u.best = k.best
    PROVE  Bits(u)
BY DEF Bits, SameWires

\* All of an order goes: it is unlinked as if nothing had been taken before.
LEMMA FillResting ==
    ASSUME NEW k, NEW R, NEW ahead, Resting(k, R, ahead), IsBook(k), NEW i \in R,
           NEW m, IsBook(m), Reduced(k, m, i, k.nodes[i].remaining),
           NEW u, u = Unlink(m, i)
    PROVE  /\ IsBook(u) /\ SameRest(k, u) /\ Bypassed(k, u, i)
           /\ Resting(u, R \ {i}, Shifted(k, ahead, i, k.nodes[i].remaining))
<1> DEFINE o == k.nodes[i]
<1>1. Apart(o, i) /\ i \in Pool /\ Bits(k) /\ o.side \in Sides /\ o.remaining \in Int
  BY OrdersApart, NodeFields DEF Resting
<1>2. o.level \in LevelIndices /\ k.levels[o.side][o.level].head # kInvalid
  BY OrdersOccupy DEF LevelOf
<1>3. /\ SameWires(k, m) /\ m.bitmap = k.bitmap /\ m.best = k.best /\ SameRest(k, m)
      /\ m.nodes[i].remaining = o.remaining - o.remaining
      /\ \A j \in Pool : j # i => m.nodes[j] = k.nodes[j]
      /\ m.nodes[i].id = o.id
      /\ m.levels[o.side][o.level].total = k.levels[o.side][o.level].total - o.remaining
      /\ \A s \in Sides : \A l \in LevelIndices :
            (s # o.side \/ l # o.level) => m.levels[s][l] = k.levels[s][l]
  BY <1>1 DEF Reduced
<1>4. Bits(m)
  BY Zenon, <1>1, <1>3, WiresBits
<1>5. /\ m.nodes[i].previous = o.previous /\ m.nodes[i].next = o.next
      /\ m.nodes[i].side = o.side /\ m.nodes[i].level = o.level
      /\ m.levels[o.side][o.level].head = k.levels[o.side][o.level].head
      /\ m.levels[o.side][o.level].tail = k.levels[o.side][o.level].tail
  BY Zenon, <1>1, <1>2, <1>3 DEF SameWires
<1>6. Apart(m.nodes[i], i) /\ m.levels[m.nodes[i].side][m.nodes[i].level].head # kInvalid
  BY Zenon, <1>1, <1>2, <1>5 DEF Apart
<1>7. IsBook(u) /\ Bits(u) /\ Bypassed(m, u, i) /\ SameRest(m, u)
  BY Zenon, <1>1, <1>2, <1>4, <1>5, <1>6, UnlinkBypasses
<1>8. Bypassed(k, u, i)
  <2>1. /\ u.nodes[i].next = kInvalid /\ u.nodes[i].id = o.id /\ u.nodes[i].side = o.side
    BY Zenon, <1>3, <1>5, <1>7 DEF Bypassed
  <2>2. \A n \in Pool \ {i} :
              /\ SameOrder(k.nodes[n], u.nodes[n])
              /\ u.nodes[n].next = IF n = o.previous THEN o.next ELSE k.nodes[n].next
              /\ u.nodes[n].previous =
                    IF n = o.next THEN o.previous ELSE k.nodes[n].previous
    <3> SUFFICES ASSUME NEW n \in Pool \ {i}
                 PROVE  /\ SameOrder(k.nodes[n], u.nodes[n])
                        /\ u.nodes[n].next = IF n = o.previous THEN o.next ELSE k.nodes[n].next
                        /\ u.nodes[n].previous =
                              IF n = o.next THEN o.previous ELSE k.nodes[n].previous
      OBVIOUS
    <3>1. m.nodes[n] = k.nodes[n]
      BY Zenon, <1>3
    <3>2. /\ SameOrder(m.nodes[n], u.nodes[n])
          /\ u.nodes[n].next = IF n = m.nodes[i].previous THEN m.nodes[i].next ELSE m.nodes[n].next
          /\ u.nodes[n].previous =
                IF n = m.nodes[i].next THEN m.nodes[i].previous ELSE m.nodes[n].previous
      BY Zenon, <1>7 DEF Bypassed
    <3> QED
      BY <1>5, <3>1, <3>2
  <2> DEFINE v == k.levels[o.side][o.level]
             z == m.levels[o.side][o.level]
             w == u.levels[o.side][o.level]
  <2>3. /\ w.head = IF o.previous = kInvalid THEN o.next ELSE z.head
        /\ w.tail = IF o.next = kInvalid THEN o.previous ELSE z.tail
        /\ w.total = z.total - m.nodes[i].remaining
        /\ \A s \in Sides : \A l \in LevelIndices :
              (s # o.side \/ l # o.level) => u.levels[s][l] = m.levels[s][l]
    BY Zenon, <1>5, <1>7 DEF Bypassed
  <2>4. v.total \in Int
    BY <1>1, <1>2, LevelFields
  <2>5. w.total = v.total - o.remaining
    <3>1. z.total = v.total - o.remaining /\ m.nodes[i].remaining = 0
      BY <1>1, <1>3
    <3>2. w.total = z.total - 0
      BY Zenon, <2>3, <3>1
    <3> HIDE DEF v, w, z
    <3> QED
      BY <1>1, <2>4, <3>1, <3>2
  <2>6. /\ w.head = IF o.previous = kInvalid THEN o.next ELSE v.head
        /\ w.tail = IF o.next = kInvalid THEN o.previous ELSE v.tail
    BY Zenon, <1>5, <2>3
  <2>7. \A s \in Sides : \A l \in LevelIndices :
              (s # o.side \/ l # o.level) => u.levels[s][l] = k.levels[s][l]
    BY Zenon, <1>3, <2>3
  <2> QED
    BY Zenon, <2>1, <2>2, <2>5, <2>6, <2>7 DEF Bypassed
<1>9. SameRest(k, u)
  BY <1>3, <1>7 DEF SameRest
<1> QED
  BY <1>7, <1>8, <1>9, BypassResting

\* Less than all of it goes: the order keeps its place.
LEMMA ReducePlace ==
    ASSUME NEW k, NEW R, NEW ahead, Resting(k, R, ahead), IsBook(k), NEW i \in R,
           NEW q \in Nat, q < k.nodes[i].remaining, NEW u, Reduced(k, u, i, q), NEW j \in R
    PROVE  PlaceOK(u, R, Shifted(k, ahead, i, q), j)
<1> DEFINE o == k.nodes[i]
           s == Shifted(k, ahead, i, q)
<1>1. /\ i \in Pool /\ ahead[i] \in Nat /\ o.remaining \in Nat \ {0}
      /\ EndAt(k, ahead, i) = ahead[i] + o.remaining
      /\ LevelOf(k, i).total \in Int /\ EndAt(k, ahead, i) <= LevelOf(k, i).total
      /\ i # kInvalid /\ kInvalid \notin R /\ PlaceOK(k, R, ahead, i) /\ LinkOK(k, R, i)
      /\ R \subseteq Pool
  BY Zenon, PlaceFields, Invalid DEF Resting, Places, Links
<1>2. /\ j \in Pool /\ ahead[j] \in Nat /\ k.nodes[j].remaining \in Nat \ {0}
      /\ EndAt(k, ahead, j) = ahead[j] + k.nodes[j].remaining
      /\ LevelOf(k, j).total \in Int /\ EndAt(k, ahead, j) <= LevelOf(k, j).total
      /\ PlaceOK(k, R, ahead, j) /\ LinkOK(k, R, j)
  BY Zenon, PlaceFields DEF Resting, Places, Links
<1>3. /\ u.nodes[j].previous = k.nodes[j].previous /\ u.nodes[j].next = k.nodes[j].next
      /\ u.nodes[j].side = k.nodes[j].side /\ u.nodes[j].level = k.nodes[j].level
      /\ \A m \in R : SameQueue(u, j, m) <=> SameQueue(k, j, m)
  BY Zenon, <1>1, <1>2 DEF Reduced, SameWires, SameQueue
<1>4. s[i] = ahead[i]
  BY <1>1, ShiftedSelf
<1>5. EndAt(u, s, i) = ahead[i] + (o.remaining - q)
  BY <1>4 DEF EndAt, Reduced
<1>6. \A m \in R : m # i => EndAt(u, s, m) = s[m] + k.nodes[m].remaining
  BY Zenon, <1>1 DEF EndAt, Reduced
<1>7. SameQueue(k, i, j) => /\ LevelOf(k, j) = LevelOf(k, i)
                            /\ LevelOf(u, j).total = LevelOf(k, i).total - q
  BY <1>3 DEF SameQueue, LevelOf, Reduced
<1>8. ~SameQueue(k, i, j) => LevelOf(u, j) = LevelOf(k, j)
  <2>1. k.nodes[j].side \in Sides /\ k.nodes[j].level \in LevelIndices
    BY <1>2, NodeFields DEF LinkOK
  <2>2. \A r \in Sides : \A l \in LevelIndices :
           (r # o.side \/ l # o.level) => u.levels[r][l] = k.levels[r][l]
    BY DEF Reduced
  <2> QED
    BY <1>3, <2>1, <2>2 DEF LevelOf, SameQueue
<1>9. q <= o.remaining
  BY <1>1
<1>10. \A m \in R : m # i =>
         /\ s[m] \in Nat
         /\ ~SameQueue(k, i, m) => s[m] = ahead[m]
         /\ SameQueue(k, i, m) => \/ EndAt(k, ahead, i) <= ahead[m] /\ s[m] = ahead[m] - q
                                  \/ EndAt(k, ahead, m) <= ahead[i] /\ s[m] = ahead[m]
  BY <1>9, ShiftedPlace
<1>11. \A m \in R : /\ ahead[m] \in Nat /\ k.nodes[m].remaining \in Nat \ {0}
                    /\ EndAt(k, ahead, m) = ahead[m] + k.nodes[m].remaining
  BY PlaceFields
<1>12. ASSUME NEW m \in R, NEW n \in R, m # n, SameQueue(k, m, n)
       PROVE  EndAt(u, s, m) <= s[n] \/ EndAt(u, s, n) <= s[m]
  <2>1. CASE m # i /\ n # i
    <3>1. s[m] + k.nodes[m].remaining <= s[n] \/ s[n] + k.nodes[n].remaining <= s[m]
      BY <1>9, <1>12, <2>1, ShiftedApart
    <3> QED
      BY <1>6, <2>1, <3>1
  <2>2. ASSUME NEW x \in R, x # i, SameQueue(k, i, x)
        PROVE  EndAt(u, s, i) <= s[x] \/ EndAt(u, s, x) <= s[i]
    <3>1. \/ EndAt(k, ahead, i) <= ahead[x] /\ s[x] = ahead[x] - q
          \/ EndAt(k, ahead, x) <= ahead[i] /\ s[x] = ahead[x]
      BY <1>10, <2>2
    <3>2. EndAt(u, s, x) = s[x] + k.nodes[x].remaining
      BY <1>6, <2>2
    <3>3. /\ ahead[x] \in Nat /\ k.nodes[x].remaining \in Nat \ {0}
          /\ EndAt(k, ahead, x) = ahead[x] + k.nodes[x].remaining
      BY <1>11
    <3> HIDE DEF s
    <3> QED
      BY <1>1, <1>4, <1>5, <3>1, <3>2, <3>3
  <2>3. SameQueue(k, n, m)
    BY <1>12 DEF SameQueue
  <2> QED
    BY <1>12, <2>1, <2>2, <2>3
<1>13. u.nodes[j].remaining \in Nat /\ s[j] \in Nat
  <2>1. CASE j = i
    BY <1>1, <1>4, <2>1 DEF Reduced
  <2>2. CASE j # i
    BY <1>2, <1>10, <2>2 DEF Reduced
  <2> QED
    BY <2>1, <2>2
<1>14. \A m \in R : m # j /\ SameQueue(u, j, m) => EndAt(u, s, j) <= s[m] \/ EndAt(u, s, m) <= s[j]
  BY <1>3, <1>12
<1>15. CASE j = i
  <2>1. u.nodes[j].previous = kInvalid => s[j] = 0
    BY <1>1, <1>3, <1>4, <1>15 DEF PlaceOK
  <2>2. ASSUME u.nodes[j].previous # kInvalid PROVE s[j] = EndAt(u, s, u.nodes[j].previous)
    <3>1. PICK p : p = o.previous /\ p = u.nodes[j].previous
      BY <1>3, <1>15
    <3>2. p \in R /\ SameQueue(k, i, p) /\ ahead[i] = EndAt(k, ahead, p) /\ p # i
      <4>1. Apart(o, i)
        BY OrdersApart
      <4> QED
        BY <1>1, <2>2, <3>1, <4>1 DEF LinkOK, PlaceOK, Apart
    <3>3. \/ EndAt(k, ahead, i) <= ahead[p] /\ s[p] = ahead[p] - q
          \/ EndAt(k, ahead, p) <= ahead[i] /\ s[p] = ahead[p]
      BY <1>10, <3>2
    <3>4. EndAt(u, s, p) = s[p] + k.nodes[p].remaining
      BY <1>6, <3>2
    <3>5. /\ ahead[p] \in Nat /\ k.nodes[p].remaining \in Nat \ {0}
          /\ EndAt(k, ahead, p) = ahead[p] + k.nodes[p].remaining
      BY <1>11, <3>2
    <3> HIDE DEF s
    <3>6. s[i] = EndAt(u, s, p)
      BY <1>1, <1>4, <3>2, <3>3, <3>4, <3>5
    <3> QED
      BY <1>15, <3>1, <3>6
  <2>3. LevelOf(u, j).total = LevelOf(k, i).total - q
    BY <1>7, <1>15 DEF SameQueue
  <2> HIDE DEF s
  <2>4. EndAt(u, s, j) <= LevelOf(u, j).total
    BY <1>1, <1>5, <1>15, <2>3
  <2>5. u.nodes[j].next = kInvalid => LevelOf(u, j).total = EndAt(u, s, j)
    <3> SUFFICES ASSUME u.nodes[j].next = kInvalid PROVE LevelOf(u, j).total = EndAt(u, s, j)
      OBVIOUS
    <3>1. LevelOf(k, i).total = EndAt(k, ahead, i)
      BY <1>1, <1>3, <1>15 DEF PlaceOK
    <3> QED
      BY <1>1, <1>5, <1>15, <2>3, <3>1
  <2> QED
    BY <1>13, <1>14, <2>1, <2>2, <2>4, <2>5 DEF PlaceOK, s
<1>16. CASE j # i /\ SameQueue(k, i, j)
  <2>1. \/ EndAt(k, ahead, i) <= ahead[j] /\ s[j] = ahead[j] - q
        \/ EndAt(k, ahead, j) <= ahead[i] /\ s[j] = ahead[j]
    BY <1>10, <1>16
  <2>2. EndAt(u, s, j) = s[j] + k.nodes[j].remaining
    BY <1>6, <1>16
  <2>3. LevelOf(u, j).total = LevelOf(k, i).total - q /\ LevelOf(k, j) = LevelOf(k, i)
    BY <1>7, <1>16
  <2>4. u.nodes[j].previous = kInvalid => s[j] = 0
    <3> SUFFICES ASSUME u.nodes[j].previous = kInvalid PROVE s[j] = 0
      OBVIOUS
    <3>1. ahead[j] = 0
      BY <1>2, <1>3 DEF PlaceOK
    <3> HIDE DEF s
    <3> QED
      BY <1>1, <2>1, <3>1
  <2>5. ASSUME u.nodes[j].previous # kInvalid PROVE s[j] = EndAt(u, s, u.nodes[j].previous)
    <3>1. PICK p : p = k.nodes[j].previous /\ p = u.nodes[j].previous
      BY <1>3
    <3>2. p \in R /\ SameQueue(k, j, p) /\ ahead[j] = EndAt(k, ahead, p)
      BY <1>2, <2>5, <3>1 DEF LinkOK, PlaceOK
    <3>3. CASE p = i
      <4> HIDE DEF s
      <4>1. s[j] = ahead[i] + (o.remaining - q)
        BY <1>1, <1>2, <2>1, <3>2, <3>3
      <4> QED
        BY <1>5, <3>1, <3>3, <4>1
    <3>4. CASE p # i
      <4>1. SameQueue(k, i, p)
        BY <1>16, <3>2 DEF SameQueue
      <4>2. \/ EndAt(k, ahead, i) <= ahead[p] /\ s[p] = ahead[p] - q
            \/ EndAt(k, ahead, p) <= ahead[i] /\ s[p] = ahead[p]
        BY <1>10, <3>2, <3>4, <4>1
      <4>3. EndAt(u, s, p) = s[p] + k.nodes[p].remaining
        BY <1>6, <3>2, <3>4
      <4>4. /\ ahead[p] \in Nat /\ k.nodes[p].remaining \in Nat \ {0}
            /\ EndAt(k, ahead, p) = ahead[p] + k.nodes[p].remaining
        BY <1>11, <3>2
      <4> HIDE DEF s
      <4>5. s[j] = s[p] + k.nodes[p].remaining
        BY <1>1, <1>2, <2>1, <3>2, <4>2, <4>4
      <4> QED
        BY <3>1, <4>3, <4>5
    <3> QED
      BY <3>3, <3>4
  <2> HIDE DEF s
  <2>6. EndAt(u, s, j) <= LevelOf(u, j).total
    BY <1>1, <1>2, <2>1, <2>2, <2>3
  <2>7. u.nodes[j].next = kInvalid => LevelOf(u, j).total = EndAt(u, s, j)
    <3> SUFFICES ASSUME u.nodes[j].next = kInvalid PROVE LevelOf(u, j).total = EndAt(u, s, j)
      OBVIOUS
    <3>1. LevelOf(k, i).total = EndAt(k, ahead, j)
      BY <1>2, <1>3, <2>3 DEF PlaceOK
    <3> QED
      BY <1>1, <1>2, <2>1, <2>2, <2>3, <3>1
  <2> QED
    BY <1>13, <1>14, <2>4, <2>5, <2>6, <2>7 DEF PlaceOK, s
<1>17. CASE j # i /\ ~SameQueue(k, i, j)
  <2>1. LevelOf(u, j) = LevelOf(k, j) /\ s[j] = ahead[j] /\ EndAt(u, s, j) = EndAt(k, ahead, j)
    BY <1>2, <1>6, <1>8, <1>10, <1>17
  <2>2. ASSUME u.nodes[j].previous # kInvalid PROVE s[j] = EndAt(u, s, u.nodes[j].previous)
    <3>1. PICK p : p = k.nodes[j].previous /\ p = u.nodes[j].previous
      BY <1>3
    <3>2. p \in R /\ SameQueue(k, j, p) /\ ahead[j] = EndAt(k, ahead, p)
      BY <1>2, <2>2, <3>1 DEF LinkOK, PlaceOK
    <3>3. p # i /\ ~SameQueue(k, i, p)
      BY <1>17, <3>2 DEF SameQueue
    <3>4. EndAt(u, s, p) = EndAt(k, ahead, p)
      BY <1>6, <1>10, <1>11, <3>2, <3>3
    <3> QED
      BY <2>1, <3>1, <3>2, <3>4
  <2> HIDE DEF s
  <2>3. u.nodes[j].previous = kInvalid => s[j] = 0
    BY <1>2, <1>3, <2>1 DEF PlaceOK
  <2>4. /\ u.nodes[j].next = kInvalid => LevelOf(u, j).total = EndAt(u, s, j)
        /\ EndAt(u, s, j) <= LevelOf(u, j).total
    BY <1>2, <1>3, <2>1 DEF PlaceOK
  <2> QED
    BY <1>13, <1>14, <2>2, <2>3, <2>4 DEF PlaceOK, s
<1> QED
  BY <1>15, <1>16, <1>17

LEMMA ReduceResting ==
    ASSUME NEW k, NEW R, NEW ahead, Resting(k, R, ahead), IsBook(k), NEW i \in R,
           NEW q \in Nat, q < k.nodes[i].remaining, NEW u, Reduced(k, u, i, q)
    PROVE  Resting(u, R, Shifted(k, ahead, i, q))
<1> DEFINE s == Shifted(k, ahead, i, q)
<1>1. R \subseteq Pool /\ Links(k, R) /\ Bits(k) /\ i \in Pool /\ k.nodes[i].remaining \in Nat
  BY PlaceFields DEF Resting
<1>2. SameWires(k, u) /\ u.bitmap = k.bitmap /\ u.best = k.best
  BY DEF Reduced
<1>3. Links(u, R) /\ Bits(u)
  BY <1>1, <1>2, WiresLinks, WiresBits
<1>4. \A j \in R : PlaceOK(u, R, s, j)
  BY ReducePlace
<1>5. \A j \in R : u.nodes[j].remaining # 0
  <2>1. u.nodes[i].remaining # 0
    BY <1>1 DEF Reduced
  <2> QED
    BY <1>1, <2>1 DEF Reduced, Resting
<1>6. ASSUME NEW r \in Sides, NEW l \in LevelIndices, u.levels[r][l].head = kInvalid
      PROVE  u.levels[r][l].total = 0
  <2>1. k.levels[r][l].head = kInvalid
    BY <1>2, <1>6 DEF SameWires
  <2>2. r # k.nodes[i].side \/ l # k.nodes[i].level
    BY <2>1, OrdersOccupy DEF LevelOf
  <2>3. u.levels[r][l] = k.levels[r][l]
    BY <2>2 DEF Reduced
  <2> QED
    BY <2>1, <2>3 DEF Resting, Places
<1> HIDE DEF s
<1>7. Places(u, R, s)
  BY <1>4, <1>6 DEF Places
<1>8. Resting(u, R, s)
  BY <1>1, <1>3, <1>5, <1>7 DEF Resting
<1> QED
  BY <1>8 DEF s

-----------------------------------------------------------------------------
(***************************************************************************)
(* The invariant: U is the set of the nodes in use, all of them at rest    *)
(* but the taker's.                                                        *)
(***************************************************************************)
BookOK(k, U, R, ahead, depth) ==
    IsBook(k) /\ Resting(k, R, ahead) /\ Pooled(k, U, depth)

InvOf(k, how, req, t) ==
    /\ \E U, ahead, depth : /\ BookOK(k, U, U \ {t}, ahead, depth)
                            /\ t # kInvalid => t \in U
    /\ t # kInvalid => /\ k.nodes[t].next = kInvalid /\ k.nodes[t].remaining \in Nat
                       /\ req.type = "Limit" => k.nodes[t].level \in LevelIndices
    /\ how = "feed" => t = kInvalid

DenseInv == InvOf(b, use, request, taking)

LEMMA GridLevel ==
    ASSUME NEW price \in Int, OnGrid(price)
    PROVE  price_index(price) \in LevelIndices
<1>1. PICK x : x = price - MinimumPrice
  OBVIOUS
<1>2. x \in Nat /\ TickSize \in Nat \ {0} /\ LevelCount \in Nat
  BY <1>1, DenseAssumption DEF OnGrid
<1>3. x \div TickSize \in Nat
  BY <1>2
<1>4. x \div TickSize < LevelCount
  BY <1>1 DEF OnGrid
<1>5. x \div TickSize \in 0 .. LevelCount - 1
  BY <1>2, <1>3, <1>4
<1> QED
  BY <1>1, <1>5 DEF price_index, LevelIndices

LEMMA FreshIs ==
    ASSUME NEW id \in OrderIds, NEW side \in Sides, NEW price \in Int, NEW quantity \in Int,
           NEW level \in LevelIndices \cup {kInvalid}
    PROVE  LET o == Fresh(id, side, price, quantity, level)
           IN  /\ o \in NodeType /\ o.id = id /\ o.remaining = quantity /\ o.level = level
               /\ o.next = kInvalid
BY DEF Fresh, Node, NodeType, Link

LEMMA RenewedNodeIs ==
    ASSUME NEW o \in NodeType, NEW id \in OrderIds, NEW price \in Int, NEW quantity \in Int,
           price_index(price) \in LevelIndices
    PROVE  LET p == RenewedNode(o, id, price, quantity)
           IN  /\ p \in NodeType /\ p.id = id /\ p.remaining = quantity
               /\ p.level = price_index(price) /\ p.next = o.next /\ p.side = o.side
               /\ p.price = price
<1>1. PICK l : l = price_index(price) /\ l \in LevelIndices
  OBVIOUS
<1>2. PICK o1 : o1 = [o EXCEPT !.id = id]
  OBVIOUS
<1>3. PICK o2 : o2 = [o1 EXCEPT !.price = price]
  OBVIOUS
<1>4. PICK o3 : o3 = [o2 EXCEPT !.remaining = quantity]
  OBVIOUS
<1>5. PICK o4 : o4 = [o3 EXCEPT !.level = l]
  OBVIOUS
<1>6. o1 \in NodeType /\ o1.id = id /\ o1.next = o.next /\ o1.side = o.side
  BY <1>2 DEF NodeType
<1>7. o2 \in NodeType /\ o2.id = id /\ o2.next = o.next /\ o2.side = o.side /\ o2.price = price
  BY <1>3, <1>6 DEF NodeType
<1>8. /\ o3 \in NodeType /\ o3.id = id /\ o3.next = o.next /\ o3.remaining = quantity
      /\ o3.side = o.side /\ o3.price = price
  BY <1>4, <1>7 DEF NodeType
<1>9. /\ o4 \in NodeType /\ o4.id = id /\ o4.next = o.next /\ o4.remaining = quantity
      /\ o4.level = l /\ o4.side = o.side /\ o4.price = price
  BY <1>1, <1>5, <1>8 DEF NodeType
<1>10. o4 = RenewedNode(o, id, price, quantity)
  BY <1>1, <1>2, <1>3, <1>4, <1>5 DEF RenewedNode
<1> QED
  BY <1>1, <1>9, <1>10

-----------------------------------------------------------------------------
(***************************************************************************)
(* The steps that operations share.                                        *)
(***************************************************************************)
\* allocate and insert, and what the caller makes of the node.
Taken(k, id, o) == [Insert(Allocate(k), id, k.free) EXCEPT !.nodes[k.free] = o]

LEMMA TakenIs ==
    ASSUME NEW k, IsBook(k), k.free \in Pool, NEW id, NEW o
    PROVE  Taken(k, id, o) =
             Book(NodesWith(k.nodes, k.free, o), k.levels, k.bitmap, k.best,
                  IndexWith(k.index, id, k.free), k.nodes[k.free].free_next, k.active + 1)
<1>1. PICK f, x, y : f = k.free /\ x = k.nodes[k.free].free_next /\ y = k.active + 1
  OBVIOUS
<1>2. x \in Link /\ y \in Int
  BY <1>1, NodeFields DEF IsBook
<1>3. PICK N : N = NodesWith(k.nodes, f, Node)
  OBVIOUS
<1>4. PICK j : j = Allocate(k)
  OBVIOUS
<1>5. j = Book(N, k.levels, k.bitmap, k.best, k.index, x, y)
  BY <1>1, <1>3, <1>4, AllocateIs
<1>6. N \in [Pool -> NodeType]
  BY <1>1, <1>3, NodesWritten, NodeIsNode
<1>7. IsIndex(k.index)
  BY DEF IsBook
<1>8. /\ IsBook(j) /\ j.nodes = N /\ j.levels = k.levels /\ j.bitmap = k.bitmap
      /\ j.best = k.best /\ j.index = k.index /\ j.free = x /\ j.active = y
  BY <1>2, <1>5, <1>6, <1>7, Assembled
<1>9. Insert(j, id, f) = Book(N, k.levels, k.bitmap, k.best, IndexWith(k.index, id, f), x, y)
  BY <1>8, InsertIs
<1>10. Taken(k, id, o) = NodeWith(Insert(j, id, f), f, o)
  BY <1>1, <1>4 DEF Taken, NodeWith
<1>11. Taken(k, id, o) = Book(NodesWith(N, f, o), k.levels, k.bitmap, k.best,
                              IndexWith(k.index, id, f), x, y)
  BY <1>9, <1>10, NodeWithIs
<1>12. NodesWith(N, f, o) = NodesWith(k.nodes, f, o)
  BY <1>3 DEF NodesWith, IsBook
<1> QED
  BY <1>1, <1>11, <1>12

CanTake(k, U, R, ahead, depth, id, o) ==
    /\ R \subseteq U /\ BookOK(k, U, R, ahead, depth)
    /\ k.free # kInvalid /\ id \notin DOMAIN k.index /\ o \in NodeType /\ o.id = id
IsTaken(k, u, U, R, ahead, depth, o) ==
    /\ BookOK(u, U \cup {k.free}, R, ahead, depth)
    /\ k.free \in Pool \ U /\ u.nodes[k.free] = o

LEMMA TakeOK ==
    ASSUME NEW k, NEW U, NEW R, NEW ahead, NEW depth, NEW id, NEW o,
           CanTake(k, U, R, ahead, depth, id, o)
    PROVE  IsTaken(k, Taken(k, id, o), U, R, ahead, depth, o)
<1>1. /\ IsBook(k) /\ Resting(k, R, ahead) /\ Pooled(k, U, depth) /\ k.free \in Pool
      /\ k.free # kInvalid /\ id \notin DOMAIN k.index /\ o \in NodeType /\ o.id = id
      /\ R \subseteq U
  BY DEF CanTake, BookOK, Pooled, FreeList
<1>2. PICK u : u = Taken(k, id, o)
  OBVIOUS
<1>3. u = Book(NodesWith(k.nodes, k.free, o), k.levels, k.bitmap, k.best,
               IndexWith(k.index, id, k.free), k.nodes[k.free].free_next, k.active + 1)
  BY <1>1, <1>2, TakenIs
<1>4. Took(k, u, U, o, depth)
  BY <1>1, <1>3, TakeNode
<1>5. Resting(u, R, ahead)
  BY <1>1, <1>4, RestingFrame DEF Took
<1> QED
  BY <1>2, <1>4, <1>5 DEF BookOK, Took, IsTaken

LEMMA ReleaseOK ==
    ASSUME NEW k, NEW U, NEW R, NEW ahead, NEW depth, BookOK(k, U, R, ahead, depth),
           NEW i \in U, i \notin R, NEW u, u = Release(k, i)
    PROVE  BookOK(u, U \ {i}, R, ahead, Placed(depth, i, OrderCapacity - k.active + 1))
<1>1. IsBook(k) /\ Resting(k, R, ahead) /\ Pooled(k, U, depth) /\ R \subseteq Pool
  BY DEF BookOK, Resting
<1>2. /\ IsBook(u) /\ u.levels = k.levels /\ u.bitmap = k.bitmap /\ u.best = k.best
      /\ \A j \in Pool : j # i => u.nodes[j] = k.nodes[j]
      /\ Pooled(u, U \ {i}, Placed(depth, i, OrderCapacity - k.active + 1))
  <2>1. IsBook(k) /\ Pooled(k, U, depth)
    BY <1>1
  <2> QED
    BY <2>1, ReleaseNode
<1>3. Resting(u, R, ahead)
  BY <1>1, <1>2, RestingFrame
<1> QED
  BY <1>2, <1>3 DEF BookOK

\* What unlink leaves of the pool.
LEMMA BypassPool ==
    ASSUME NEW k, NEW U, NEW depth, Pooled(k, U, depth), NEW i \in U,
           NEW u, SameRest(k, u), Bypassed(k, u, i)
    PROVE  Pooled(u, U, depth)
<1>1. \A j \in Pool : j # i => SameOrder(k.nodes[j], u.nodes[j])
  BY Zenon DEF Bypassed
<1>2. U \subseteq Pool
  BY Zenon DEF Pooled
<1>3. u.nodes[i].id = k.nodes[i].id
  BY Zenon DEF Bypassed
<1>4. \A j \in U : u.nodes[j].id = k.nodes[j].id
  BY <1>1, <1>2, <1>3 DEF SameOrder
<1>5. \A j \in Pool \ U : u.nodes[j].free_next = k.nodes[j].free_next
  BY <1>1 DEF SameOrder
<1> QED
  BY <1>4, <1>5, PoolFrame DEF SameRest

LEMMA UnlinkOK ==
    ASSUME NEW k, NEW U, NEW R \in SUBSET U, NEW ahead, NEW depth, BookOK(k, U, R, ahead, depth),
           NEW i \in R, NEW u, u = Unlink(k, i)
    PROVE  /\ BookOK(u, U, R \ {i}, Shifted(k, ahead, i, k.nodes[i].remaining), depth)
           /\ Bypassed(k, u, i) /\ SameRest(k, u)
<1>1. IsBook(k) /\ Resting(k, R, ahead) /\ Pooled(k, U, depth)
  BY DEF BookOK
<1>2. /\ IsBook(u) /\ SameRest(k, u) /\ Bypassed(k, u, i)
      /\ Resting(u, R \ {i}, Shifted(k, ahead, i, k.nodes[i].remaining))
  BY <1>1, UnlinkResting
<1>3. Pooled(u, U, depth)
  BY <1>1, <1>2, BypassPool
<1> QED
  BY <1>2, <1>3 DEF BookOK

LEMMA AppendOK ==
    ASSUME NEW k, NEW U, NEW R \in SUBSET U, NEW ahead, NEW depth, BookOK(k, U, R, ahead, depth),
           NEW i \in U, i \notin R,
           NEW level \in LevelIndices, k.nodes[i].level = level, k.nodes[i].next = kInvalid,
           k.nodes[i].remaining \in Nat \ {0}, NEW u, u = AppendTo(k, i, level)
    PROVE  BookOK(u, U, R \cup {i}, Placed(ahead, i, LevelOf(k, i).total), depth)
<1>1. IsBook(k) /\ Resting(k, R, ahead) /\ Pooled(k, U, depth) /\ U \subseteq Pool
  BY DEF BookOK, Pooled
<1>2. /\ IsBook(u) /\ SameRest(k, u)
      /\ \A n \in Pool : SameOrder(k.nodes[n], u.nodes[n])
      /\ Resting(u, R \cup {i}, Placed(ahead, i, LevelOf(k, i).total))
  BY <1>1, AppendResting
<1>3. Pooled(u, U, depth)
  BY <1>1, <1>2, PoolFrame DEF SameRest, SameOrder
<1> QED
  BY <1>2, <1>3 DEF BookOK

-----------------------------------------------------------------------------
(***************************************************************************)
(* The actions.                                                            *)
(***************************************************************************)
\* Between two calls every order in use is at rest.
LEMMA AtRest ==
    ASSUME NEW k, NEW how, NEW req, InvOf(k, how, req, kInvalid)
    PROVE  \E U, ahead, depth : BookOK(k, U, U, ahead, depth)
<1>1. PICK U, ahead, depth : BookOK(k, U, U \ {kInvalid}, ahead, depth)
  BY DEF InvOf
<1>2. U \subseteq Pool /\ kInvalid \notin Pool
  BY <1>1, Invalid DEF BookOK, Pooled
<1>3. U \ {kInvalid} = U
  BY <1>2
<1> QED
  BY <1>1, <1>3

LEMMA StaysAtRest ==
    ASSUME NEW k, NEW how, NEW req, NEW U, NEW ahead, NEW depth, BookOK(k, U, U, ahead, depth)
    PROVE  InvOf(k, how, req, kInvalid)
<1>1. U \subseteq Pool /\ kInvalid \notin Pool
  BY Invalid DEF BookOK, Pooled
<1>2. U \ {kInvalid} = U
  BY <1>1
<1> QED
  BY <1>2 DEF InvOf

\* The node of a known id.
LEMMA KnownNode ==
    ASSUME NEW k, NEW U, NEW R, NEW ahead, NEW depth, BookOK(k, U, R, ahead, depth),
           NEW id \in DOMAIN k.index
    PROVE  k.index[id] \in U /\ k.nodes[k.index[id]].id = id
BY DEF BookOK, Pooled, Indexed

LEMMA FeedAddInv ==
    ASSUME DenseInv, NEW id \in OrderIds, NEW side \in Sides, NEW price \in FeedPrices,
           NEW quantity \in Quantities, feed_add(id, side, price, quantity)
    PROVE  DenseInv'
<1>1. /\ use = "feed" /\ use' = use /\ taking' = taking /\ request' = request
      /\ taking = kInvalid
  BY DEF feed_add, Feeding, DenseInv, InvOf
<1>2. PICK U, ahead, depth : BookOK(b, U, U, ahead, depth)
  BY <1>1, AtRest DEF DenseInv
<1>3. PICK l, o : l = price_index(price) /\ o = Fresh(id, side, price, quantity, l)
  OBVIOUS
<1>4. /\ quantity # 0 /\ id \notin DOMAIN b.index /\ OnGrid(price) /\ b.free # kInvalid
      /\ b' = AppendTo(Taken(b, id, o), b.free, l)
  BY <1>3 DEF feed_add, Known, Taken
<1>5. quantity \in Nat /\ price \in Int
  BY DenseAssumption
<1>6. l \in LevelIndices
  BY <1>3, <1>4, <1>5, GridLevel
<1>7. o \in NodeType /\ o.id = id /\ o.remaining = quantity /\ o.level = l /\ o.next = kInvalid
  BY <1>3, <1>5, <1>6, FreshIs
<1>8. PICK k : k = Taken(b, id, o)
  OBVIOUS
<1>9. PICK f : f = b.free
  OBVIOUS
<1>10. BookOK(k, U \cup {f}, U, ahead, depth) /\ f \in Pool \ U /\ k.nodes[f] = o
  <2>1. CanTake(b, U, U, ahead, depth, id, o)
    BY <1>2, <1>4, <1>7 DEF CanTake
  <2>2. IsTaken(b, k, U, U, ahead, depth, o)
    BY <1>8, <2>1, TakeOK
  <2> QED
    BY <1>9, <2>2 DEF IsTaken
<1>11. k.nodes[f].level = l /\ k.nodes[f].next = kInvalid /\ k.nodes[f].remaining \in Nat \ {0}
  BY <1>4, <1>5, <1>7, <1>10
<1>12. b' = AppendTo(k, f, l)
  BY <1>4, <1>8, <1>9
<1>13. BookOK(b', U \cup {f}, U \cup {f}, Placed(ahead, f, LevelOf(k, f).total), depth)
  <2>1. PICK V : V = U \cup {f}
    OBVIOUS
  <2>2. U \in SUBSET V /\ f \in V /\ f \notin U /\ BookOK(k, V, U, ahead, depth)
    BY <1>10, <2>1
  <2>3. BookOK(b', V, U \cup {f}, Placed(ahead, f, LevelOf(k, f).total), depth)
    BY <1>6, <1>11, <1>12, <2>2, AppendOK
  <2> QED
    BY <2>1, <2>3
<1>14. InvOf(b', use', request', kInvalid)
  BY <1>13, StaysAtRest
<1> QED
  BY <1>1, <1>14 DEF DenseInv

\* An order at rest leaves the book.
LEMMA RemoveOK ==
    ASSUME NEW k, NEW U, NEW ahead, NEW depth, BookOK(k, U, U, ahead, depth), NEW i \in U
    PROVE  \A how, req : InvOf(Release(Unlink(k, i), i), how, req, kInvalid)
<1>1. PICK u : u = Unlink(k, i)
  OBVIOUS
<1>2. BookOK(u, U, U \ {i}, Shifted(k, ahead, i, k.nodes[i].remaining), depth)
  BY <1>1, UnlinkOK
<1>3. PICK w : w = Release(u, i)
  OBVIOUS
<1>4. PICK S, a : S = U \ {i} /\ a = Shifted(k, ahead, i, k.nodes[i].remaining)
  OBVIOUS
<1>5. BookOK(w, U \ {i}, S, a, Placed(depth, i, OrderCapacity - u.active + 1))
  BY <1>2, <1>3, <1>4, ReleaseOK
<1>6. \A how, req : InvOf(w, how, req, kInvalid)
  BY <1>4, <1>5, StaysAtRest
<1> QED
  BY <1>1, <1>3, <1>6

LEMMA FeedDeleteInv ==
    ASSUME DenseInv, NEW id \in OrderIds, feed_delete(id)
    PROVE  DenseInv'
<1>1. /\ use = "feed" /\ use' = use /\ taking' = taking /\ request' = request
      /\ taking = kInvalid
  BY DEF feed_delete, Feeding, DenseInv, InvOf
<1>2. PICK U, ahead, depth : BookOK(b, U, U, ahead, depth)
  BY <1>1, AtRest DEF DenseInv
<1>3. PICK i : i = b.index[id]
  OBVIOUS
<1>4. id \in DOMAIN b.index /\ b' = Release(Unlink(b, i), i)
  BY <1>3 DEF feed_delete, Known
<1>5. i \in U
  BY <1>2, <1>3, <1>4, KnownNode
<1>6. InvOf(b', use', request', kInvalid)
  BY <1>2, <1>4, <1>5, RemoveOK
<1> QED
  BY <1>1, <1>6 DEF DenseInv

LEMMA CancelInv ==
    ASSUME DenseInv, NEW id \in OrderIds, cancel(id)
    PROVE  DenseInv'
<1>1. use' = use /\ taking' = taking /\ request' = request /\ taking = kInvalid
  BY DEF cancel, Idle
<1>2. PICK U, ahead, depth : BookOK(b, U, U, ahead, depth)
  BY <1>1, AtRest DEF DenseInv
<1>3. PICK i : i = b.index[id]
  OBVIOUS
<1>4. id \in DOMAIN b.index /\ b' = Release(Unlink(b, i), i)
  BY <1>3 DEF cancel, Known
<1>5. i \in U
  BY <1>2, <1>3, <1>4, KnownNode
<1>6. InvOf(b', use', request', kInvalid)
  BY <1>2, <1>4, <1>5, RemoveOK
<1> QED
  BY <1>1, <1>6 DEF DenseInv

\* An order at rest is reduced, and leaves the book when nothing is left.
LEMMA ReduceOK ==
    ASSUME NEW k, NEW U, NEW R \in SUBSET U, NEW ahead, NEW depth, BookOK(k, U, R, ahead, depth),
           NEW i \in R, NEW q \in Nat, q < k.nodes[i].remaining,
           NEW u, IsBook(u), Reduced(k, u, i, q)
    PROVE  BookOK(u, U, R, Shifted(k, ahead, i, q), depth)
<1>1. IsBook(k) /\ Resting(k, R, ahead) /\ Pooled(k, U, depth) /\ U \subseteq Pool
  BY DEF BookOK, Pooled
<1>2. Resting(u, R, Shifted(k, ahead, i, q))
  BY Zenon, <1>1, ReduceResting
<1>3. /\ u.index = k.index /\ u.free = k.free /\ u.active = k.active
      /\ \A j \in U : u.nodes[j].id = k.nodes[j].id
      /\ \A j \in Pool \ U : u.nodes[j].free_next = k.nodes[j].free_next
  BY <1>1 DEF Reduced, SameRest
<1>4. Pooled(u, U, depth)
  BY <1>1, <1>3, PoolFrame
<1> QED
  BY <1>2, <1>4 DEF BookOK

LEMMA FillOK ==
    ASSUME NEW k, NEW U, NEW R \in SUBSET U, NEW ahead, NEW depth, BookOK(k, U, R, ahead, depth),
           NEW i \in R, NEW m, IsBook(m), Reduced(k, m, i, k.nodes[i].remaining),
           NEW u, u = Release(Unlink(m, i), i)
    PROVE  \E a, d : BookOK(u, U \ {i}, R \ {i}, a, d)
<1>1. IsBook(k) /\ Resting(k, R, ahead) /\ Pooled(k, U, depth)
  BY DEF BookOK
<1>2. PICK w : w = Unlink(m, i)
  OBVIOUS
<1>3. PICK a : a = Shifted(k, ahead, i, k.nodes[i].remaining)
  OBVIOUS
<1>4. IsBook(w) /\ SameRest(k, w) /\ Bypassed(k, w, i) /\ Resting(w, R \ {i}, a)
  BY <1>1, <1>2, <1>3, FillResting
<1>5. Pooled(w, U, depth)
  BY <1>1, <1>4, BypassPool
<1>6. BookOK(w, U, R \ {i}, a, depth)
  BY <1>4, <1>5 DEF BookOK
<1>7. PICK S : S = R \ {i}
  OBVIOUS
<1>8. i \in U /\ i \notin S /\ u = Release(w, i) /\ BookOK(w, U, S, a, depth)
  BY <1>2, <1>6, <1>7
<1>9. BookOK(u, U \ {i}, S, a, Placed(depth, i, OrderCapacity - w.active + 1))
  BY Zenon, <1>8, ReleaseOK
<1> QED
  BY <1>7, <1>9

LEMMA FeedReduceInv ==
    ASSUME DenseInv, NEW id \in OrderIds, NEW quantity \in Quantities, feed_reduce(id, quantity)
    PROVE  DenseInv'
<1>1. /\ use = "feed" /\ use' = use /\ taking' = taking /\ request' = request
      /\ taking = kInvalid
  BY Zenon DEF feed_reduce, Feeding, DenseInv, InvOf
<1>2. PICK U, ahead, depth : BookOK(b, U, U, ahead, depth)
  BY <1>1, AtRest DEF DenseInv
<1> DEFINE i == b.index[id]
           k == Reduce(b, i, b.nodes[i].remaining - quantity, LevelOf(b, i).total - quantity)
<1>5. /\ id \in DOMAIN b.index /\ quantity <= b.nodes[i].remaining
      /\ b' = IF quantity = b.nodes[i].remaining THEN Release(Unlink(k, i), i) ELSE k
  BY Zenon DEF feed_reduce, Known, Reduce, LevelOf, i, k
<1> HIDE DEF i, k
<1>6. i \in U
  BY <1>2, <1>5, KnownNode DEF i
<1>7. IsBook(b) /\ Resting(b, U, ahead) /\ i \in Pool /\ quantity \in Nat
  BY <1>2, <1>6, DenseAssumption DEF BookOK, Resting
<1>8. b.nodes[i].level \in LevelIndices /\ b.nodes[i].remaining \in Nat
  BY <1>6, <1>7, OrdersOccupy, PlaceFields
<1>9. IsBook(k) /\ Reduced(b, k, i, quantity)
  BY <1>7, <1>8, ReduceIs DEF k
<1>10. CASE quantity = b.nodes[i].remaining
  <2>1. b' = Release(Unlink(k, i), i)
    BY <1>5, <1>10
  <2>2. PICK a, d : BookOK(b', U \ {i}, U \ {i}, a, d)
    <3>1. Reduced(b, k, i, b.nodes[i].remaining)
      BY <1>9, <1>10
    <3> QED
      BY <1>2, <1>6, <1>9, <2>1, <3>1, FillOK
  <2>3. InvOf(b', use', request', kInvalid)
    BY <2>2, StaysAtRest
  <2> QED
    BY <1>1, <2>3 DEF DenseInv
<1>11. CASE quantity # b.nodes[i].remaining
  <2>1. b' = k /\ quantity < b.nodes[i].remaining
    BY <1>5, <1>7, <1>8, <1>11
  <2>2. BookOK(k, U, U, Shifted(b, ahead, i, quantity), depth)
    BY <1>2, <1>6, <1>7, <1>9, <2>1, ReduceOK
  <2>3. InvOf(b', use', request', kInvalid)
    BY <2>1, <2>2, StaysAtRest
  <2> QED
    BY <1>1, <2>3 DEF DenseInv
<1> QED
  BY <1>10, <1>11

\* submit takes a node for the order, which then is the taker.
LEMMA SubmitInv ==
    ASSUME DenseInv, NEW r \in Requests, submit(r)
    PROVE  DenseInv'
<1>1. taking = kInvalid /\ use' = use /\ use = "matching"
  BY DEF submit, Idle
<1>2. CASE Rejects(r)
  <2>1. UNCHANGED <<b, use, request, taking>>
    BY <1>1, <1>2 DEF submit
  <2> QED
    BY <2>1 DEF DenseInv
<1>3. CASE ~Rejects(r)
  <2>1. PICK U, ahead, depth : BookOK(b, U, U, ahead, depth)
    BY <1>1, AtRest DEF DenseInv
  <2>2. PICK l : l = IF r.type = "Limit" THEN price_index(r.price) ELSE kInvalid
    OBVIOUS
  <2>3. PICK o : o = Fresh(r.id, r.side, r.price, r.quantity, l)
    OBVIOUS
  <2>4. b' = Taken(b, r.id, o) /\ request' = r /\ taking' = b.free
    BY <1>3, <2>2, <2>3 DEF submit, Taken
  <2>5. /\ r.id \notin DOMAIN b.index /\ b.free # kInvalid
        /\ r.type = "Limit" => OnGrid(r.price)
    BY <1>3 DEF Rejects, Known
  <2>6. r.id \in OrderIds /\ r.side \in Sides /\ r.price \in Int /\ r.quantity \in Nat
    BY DenseAssumption DEF OrderIds, Sides
  <2>7. l \in LevelIndices \cup {kInvalid} /\ (r.type = "Limit" => l \in LevelIndices)
    BY <2>2, <2>5, <2>6, GridLevel
  <2>8. /\ o \in NodeType /\ o.id = r.id /\ o.remaining = r.quantity /\ o.level = l
        /\ o.next = kInvalid
    BY <2>3, <2>6, <2>7, FreshIs
  <2>9. CanTake(b, U, U, ahead, depth, r.id, o)
    BY <2>1, <2>5, <2>8 DEF CanTake
  <2>10. IsTaken(b, b', U, U, ahead, depth, o)
    BY <2>4, <2>9, TakeOK
  <2>11. PICK f : f = b.free /\ f = taking'
    BY <2>4
  <2>12. BookOK(b', U \cup {f}, U, ahead, depth) /\ f \in Pool /\ f \notin U /\ b'.nodes[f] = o
    BY <2>10, <2>11 DEF IsTaken
  <2>13. PICK V : V = U \cup {f}
    OBVIOUS
  <2>14. BookOK(b', V, V \ {f}, ahead, depth) /\ f \in V
    <3>1. V \ {f} = U
      BY <2>12, <2>13
    <3> QED
      BY <2>12, <2>13, <3>1
  <2>15. /\ b'.nodes[f].next = kInvalid /\ b'.nodes[f].remaining \in Nat
         /\ r.type = "Limit" => b'.nodes[f].level \in LevelIndices
    BY <2>6, <2>7, <2>8, <2>12
  <2>16. use' # "feed"
    BY <1>1
  <2>17. InvOf(b', use', request', f)
    BY <2>4, <2>14, <2>15, <2>16 DEF InvOf
  <2> QED
    BY <2>11, <2>17 DEF DenseInv
<1> QED
  BY <1>2, <1>3

\* What becomes of the node of an order that is being replaced or modified.
LEMMA RenewOK ==
    ASSUME NEW k, IsBook(k), NEW R, NEW ahead, Resting(k, R, ahead), NEW i \in Pool, i \notin R,
           NEW id \in OrderIds, NEW price \in Int, NEW quantity \in Int,
           price_index(price) \in LevelIndices,
           NEW u, u = Renewed(k, i, id, price, quantity)
    PROVE  /\ IsBook(u) /\ Resting(u, R, ahead) /\ SameRest(k, u)
           /\ u.nodes[i].id = id /\ u.nodes[i].remaining = quantity
           /\ u.nodes[i].level = price_index(price) /\ u.nodes[i].next = k.nodes[i].next
           /\ u.nodes[i].side = k.nodes[i].side /\ u.nodes[i].price = price
           /\ u.levels = k.levels /\ \A j \in Pool : j # i => u.nodes[j] = k.nodes[j]
<1>1. PICK o : o = RenewedNode(k.nodes[i], id, price, quantity)
  OBVIOUS
<1>2. PICK N : N = NodesWith(k.nodes, i, o)
  OBVIOUS
<1>3. k.nodes[i] \in NodeType
  BY NodeFields
<1>4. /\ o \in NodeType /\ o.id = id /\ o.remaining = quantity
      /\ o.level = price_index(price) /\ o.next = k.nodes[i].next
      /\ o.side = k.nodes[i].side /\ o.price = price
  BY <1>1, <1>3, RenewedNodeIs
<1>5. N \in [Pool -> NodeType] /\ N[i] = o /\ \A j \in Pool : j # i => N[j] = k.nodes[j]
  BY <1>2, <1>4, NodesWritten
<1>6. u = Book(N, k.levels, k.bitmap, k.best, k.index, k.free, k.active)
  BY <1>1, <1>2, RenewedIs
<1>7. IsIndex(k.index) /\ k.free \in Link /\ k.active \in Int
  BY DEF IsBook
<1>8. /\ IsBook(u) /\ u.nodes = N /\ u.levels = k.levels /\ u.bitmap = k.bitmap
      /\ u.best = k.best /\ u.index = k.index /\ u.free = k.free /\ u.active = k.active
  BY <1>5, <1>6, <1>7, Assembled
<1>9. \A j \in R : u.nodes[j] = k.nodes[j]
  BY <1>5, <1>8 DEF Resting
<1>10. Resting(u, R, ahead)
  BY <1>8, <1>9, RestingFrame
<1> QED
  BY <1>4, <1>5, <1>8, <1>10 DEF SameRest

\* modify takes the order out of its queue, and it is the taker.
LEMMA ModifyInv ==
    ASSUME DenseInv, NEW id \in OrderIds, NEW price \in FeedPrices, NEW quantity \in Quantities,
           modify(id, price, quantity)
    PROVE  DenseInv'
<1>1. taking = kInvalid /\ use' = use /\ use = "matching"
  BY DEF modify, Idle
<1>2. PICK U, ahead, depth : BookOK(b, U, U, ahead, depth)
  BY <1>1, AtRest DEF DenseInv
<1>3. PICK i : i = b.index[id]
  OBVIOUS
<1>4. /\ id \in DOMAIN b.index /\ OnGrid(price) /\ taking' = i
      /\ b' = Renewed(Unlink(b, i), i, id, price, quantity)
  BY <1>3 DEF modify, Known
<1>5. i \in U /\ b.nodes[i].id = id
  BY <1>2, <1>3, <1>4, KnownNode
<1>6. price \in Int /\ quantity \in Nat /\ price_index(price) \in LevelIndices
  BY <1>4, DenseAssumption, GridLevel
<1>7. PICK k : k = Unlink(b, i)
  OBVIOUS
<1>8. PICK S, a : S = U \ {i} /\ a = Shifted(b, ahead, i, b.nodes[i].remaining)
  OBVIOUS
<1>9. BookOK(k, U, S, a, depth) /\ Bypassed(b, k, i)
  BY <1>2, <1>5, <1>7, <1>8, UnlinkOK
<1>10. IsBook(k) /\ Resting(k, S, a) /\ Pooled(k, U, depth) /\ U \subseteq Pool /\ i \notin S
  BY Zenon, <1>8, <1>9 DEF BookOK, Pooled
<1>11. k.nodes[i].next = kInvalid /\ k.nodes[i].id = id
  BY Zenon, <1>5, <1>9 DEF Bypassed
<1>12. b' = Renewed(k, i, id, price, quantity) /\ i \in Pool /\ quantity \in Int
  BY <1>4, <1>5, <1>6, <1>7, <1>10
<1>13. /\ IsBook(b') /\ Resting(b', S, a) /\ SameRest(k, b')
       /\ b'.nodes[i].id = id /\ b'.nodes[i].remaining = quantity
       /\ b'.nodes[i].level = price_index(price) /\ b'.nodes[i].next = k.nodes[i].next
       /\ \A j \in Pool : j # i => b'.nodes[j] = k.nodes[j]
  BY <1>6, <1>10, <1>12, RenewOK
<1>14. Pooled(b', U, depth)
  <2>1. \A j \in U : b'.nodes[j].id = k.nodes[j].id
    BY <1>10, <1>11, <1>13
  <2>2. \A j \in Pool \ U : b'.nodes[j].free_next = k.nodes[j].free_next
    BY <1>5, <1>13
  <2> QED
    BY <1>10, <1>13, <2>1, <2>2, PoolFrame DEF SameRest
<1>15. BookOK(b', U, U \ {i}, a, depth)
  BY <1>8, <1>13, <1>14 DEF BookOK
<1>16. /\ b'.nodes[i].next = kInvalid /\ b'.nodes[i].remaining \in Nat
       /\ b'.nodes[i].level \in LevelIndices
  BY <1>6, <1>11, <1>13
<1>17. use' # "feed"
  BY <1>1
<1>18. InvOf(b', use', request', i)
  BY <1>5, <1>15, <1>16, <1>17 DEF InvOf
<1> QED
  BY <1>4, <1>18 DEF DenseInv

LEMMA FeedReplaceInv ==
    ASSUME DenseInv, NEW id \in OrderIds, NEW new_id \in OrderIds, NEW price \in FeedPrices,
           NEW quantity \in Quantities, feed_replace(id, new_id, price, quantity)
    PROVE  DenseInv'
<1>1. /\ use = "feed" /\ use' = use /\ taking' = taking /\ request' = request
      /\ taking = kInvalid
  BY DEF feed_replace, Feeding, DenseInv, InvOf
<1>2. PICK U, ahead, depth : BookOK(b, U, U, ahead, depth)
  BY <1>1, AtRest DEF DenseInv
<1>3. PICK i : i = b.index[id]
  OBVIOUS
<1>4. PICK l : l = price_index(price)
  OBVIOUS
<1>5. PICK k : k = Insert(b, new_id, i)
  OBVIOUS
<1>6. PICK m : m = Unlink(k, i)
  OBVIOUS
<1>7. PICK n : n = Erase(m, id)
  OBVIOUS
<1>8. PICK u : u = Renewed(n, i, new_id, price, quantity)
  OBVIOUS
<1>9. /\ id \in DOMAIN b.index /\ quantity # 0 /\ new_id \notin DOMAIN b.index /\ OnGrid(price)
      /\ b' = AppendTo(u, i, l)
  BY <1>3, <1>4, <1>5, <1>6, <1>7, <1>8 DEF feed_replace, Known
<1>10. i \in U /\ b.nodes[i].id = id
  BY <1>2, <1>3, <1>9, KnownNode
<1>11. price \in Int /\ quantity \in Nat \ {0} /\ price_index(price) \in LevelIndices
  BY <1>9, DenseAssumption, GridLevel
<1>12. /\ IsBook(b) /\ Resting(b, U, ahead) /\ Pooled(b, U, depth) /\ U \subseteq Pool
       /\ b.free \in Link /\ b.active \in Int /\ b.nodes \in [Pool -> NodeType]
  BY <1>2 DEF BookOK, Pooled, IsBook
<1>13. PICK x : x = IndexWith(b.index, new_id, i)
  OBVIOUS
<1>14. /\ IsBook(k) /\ k.nodes = b.nodes /\ k.levels = b.levels /\ k.bitmap = b.bitmap
       /\ k.best = b.best /\ k.index = x /\ k.free = b.free /\ k.active = b.active
  <2>1. k = Book(b.nodes, b.levels, b.bitmap, b.best, x, b.free, b.active)
    BY <1>5, <1>12, <1>13, InsertIs
  <2>2. IsIndex(x)
    BY <1>13, IndexWithIs
  <2> QED
    BY <1>12, <2>1, <2>2, Assembled
<1>15. Resting(k, U, ahead)
  BY <1>12, <1>14, RestingFrame
<1>16. PICK S, a : S = U \ {i} /\ a = Shifted(k, ahead, i, k.nodes[i].remaining)
  OBVIOUS
<1>17. IsBook(m) /\ SameRest(k, m) /\ Bypassed(k, m, i) /\ Resting(m, S, a)
  BY <1>6, <1>10, <1>14, <1>15, <1>16, UnlinkResting
<1>18. PICK y : y = IndexWithout(x, id)
  OBVIOUS
<1>19. /\ IsBook(n) /\ n.nodes = m.nodes /\ n.levels = m.levels /\ n.bitmap = m.bitmap
       /\ n.best = m.best /\ n.index = y /\ n.free = b.free /\ n.active = b.active
  <2>1. m.index = x /\ m.free = b.free /\ m.active = b.active /\ m.nodes \in [Pool -> NodeType]
    BY <1>14, <1>17 DEF SameRest, IsBook
  <2>2. n = Book(m.nodes, m.levels, m.bitmap, m.best, y, b.free, b.active)
    BY <1>7, <1>17, <1>18, <2>1, EraseIs
  <2>3. IsIndex(y)
    BY <1>18, IndexWithoutIs
  <2> QED
    BY <1>12, <1>17, <2>1, <2>2, <2>3, Assembled
<1>20. Resting(n, S, a)
  BY <1>17, <1>19, RestingFrame
<1>21. i \in Pool /\ i \notin S /\ quantity \in Int
  BY <1>10, <1>11, <1>12, <1>16
<1>22. /\ IsBook(u) /\ Resting(u, S, a) /\ SameRest(n, u)
       /\ u.nodes[i].id = new_id /\ u.nodes[i].remaining = quantity
       /\ u.nodes[i].level = price_index(price) /\ u.nodes[i].next = n.nodes[i].next
       /\ \A j \in Pool : j # i => u.nodes[j] = n.nodes[j]
  BY <1>8, <1>11, <1>19, <1>20, <1>21, RenewOK
<1>23. Pooled(u, U, depth)
  <2>1. \A j \in Pool : j # i => SameOrder(b.nodes[j], u.nodes[j])
    BY Zenon, <1>14, <1>17, <1>19, <1>22 DEF Bypassed
  <2>2. \A j \in U : j # i => u.nodes[j].id = b.nodes[j].id
    BY <1>12, <2>1 DEF SameOrder
  <2>3. \A j \in Pool \ U : u.nodes[j].free_next = b.nodes[j].free_next
    BY <1>10, <2>1 DEF SameOrder
  <2>4. u.index = IndexWithout(IndexWith(b.index, new_id, i), id) /\ u.free = b.free /\ u.active = b.active
    BY <1>13, <1>18, <1>19, <1>22 DEF SameRest
  <2> QED
    BY <1>9, <1>10, <1>12, <1>22, <2>2, <2>3, <2>4, RenamePool
<1>24. BookOK(u, U, S, a, depth)
  BY <1>22, <1>23 DEF BookOK
<1>25. u.nodes[i].next = kInvalid
  BY Zenon, <1>17, <1>19, <1>22 DEF Bypassed
<1>26. BookOK(b', U, S \cup {i}, Placed(a, i, LevelOf(u, i).total), depth)
  <2>1. S \in SUBSET U /\ l \in LevelIndices /\ u.nodes[i].level = l /\ u.nodes[i].remaining \in Nat \ {0}
    BY <1>4, <1>11, <1>16, <1>22
  <2>2. b' = AppendTo(u, i, l)
    BY <1>9
  <2> QED
    BY <1>10, <1>21, <1>24, <1>25, <2>1, <2>2, AppendOK
<1>27. S \cup {i} = U
  BY <1>10, <1>16
<1>28. InvOf(b', use', request', kInvalid)
  BY <1>26, <1>27, StaysAtRest
<1> QED
  BY <1>1, <1>28 DEF DenseInv

\* What a fill leaves of the other orders.
LEMMA FillFrame ==
    ASSUME NEW k, NEW U, NEW R \in SUBSET U, NEW ahead, NEW depth, BookOK(k, U, R, ahead, depth),
           NEW i \in R, k.nodes[i].previous = kInvalid,
           NEW m, IsBook(m), Reduced(k, m, i, k.nodes[i].remaining),
           NEW u, u = Release(Unlink(m, i), i), NEW j \in Pool, j # i
    PROVE  SameOrder(k.nodes[j], u.nodes[j]) /\ u.nodes[j].next = k.nodes[j].next
<1>1. IsBook(k) /\ Resting(k, R, ahead) /\ Pooled(k, U, depth)
  BY DEF BookOK
<1>2. PICK w : w = Unlink(m, i)
  OBVIOUS
<1>3. PICK a : a = Shifted(k, ahead, i, k.nodes[i].remaining)
  OBVIOUS
<1>4. IsBook(w) /\ SameRest(k, w) /\ Bypassed(k, w, i) /\ Resting(w, R \ {i}, a)
  BY <1>1, <1>2, <1>3, FillResting
<1>5. Pooled(w, U, depth)
  BY <1>1, <1>4, BypassPool
<1>6. u = Release(w, i) /\ i \in U
  BY <1>2
<1>7. /\ IsBook(u) /\ u.levels = w.levels /\ u.bitmap = w.bitmap /\ u.best = w.best
      /\ \A n \in Pool : n # i => u.nodes[n] = w.nodes[n]
      /\ Pooled(u, U \ {i}, Placed(depth, i, OrderCapacity - w.active + 1))
  BY Zenon, <1>4, <1>5, <1>6, ReleaseNode
<1>8. j # kInvalid
  BY Invalid
<1>9. SameOrder(k.nodes[j], w.nodes[j]) /\ w.nodes[j].next = k.nodes[j].next
  BY <1>4, <1>8 DEF Bypassed
<1> QED
  BY <1>7, <1>9

\* What is taken from the taker concerns neither the queues nor the pool.
LEMMA ChargeOK ==
    ASSUME NEW k, NEW U, NEW R \in SUBSET U, NEW ahead, NEW depth, BookOK(k, U, R, ahead, depth),
           NEW t \in U, t \notin R, NEW x \in Int,
           NEW c, c = NodeWith(k, t, WithRemaining(k.nodes[t], x))
    PROVE  /\ BookOK(c, U, R, ahead, depth) /\ c.levels = k.levels
           /\ c.nodes = NodesWith(k.nodes, t, WithRemaining(k.nodes[t], x))
           /\ c.nodes[t].remaining = x /\ c.nodes[t].next = k.nodes[t].next
           /\ c.nodes[t].level = k.nodes[t].level
           /\ \A j \in Pool : j # t => c.nodes[j] = k.nodes[j]
<1>1. IsBook(k) /\ Resting(k, R, ahead) /\ Pooled(k, U, depth) /\ U \subseteq Pool
  BY DEF BookOK, Pooled
<1>2. PICK o : o = WithRemaining(k.nodes[t], x)
  OBVIOUS
<1>3. PICK N : N = NodesWith(k.nodes, t, o)
  OBVIOUS
<1>4. /\ o \in NodeType /\ o.remaining = x /\ o.id = k.nodes[t].id
      /\ o.next = k.nodes[t].next /\ o.level = k.nodes[t].level
  <2>1. k.nodes[t] \in NodeType
    BY <1>1, NodeFields
  <2> QED
    BY <1>2, <2>1, NodeRemaining DEF WithRemaining
<1>5. N \in [Pool -> NodeType] /\ N[t] = o /\ \A j \in Pool : j # t => N[j] = k.nodes[j]
  BY <1>1, <1>3, <1>4, NodesWritten
<1>6. c = Book(N, k.levels, k.bitmap, k.best, k.index, k.free, k.active)
  <2>1. k = Book(k.nodes, k.levels, k.bitmap, k.best, k.index, k.free, k.active)
    BY <1>1 DEF IsBook
  <2>2. NodeWith(Book(k.nodes, k.levels, k.bitmap, k.best, k.index, k.free, k.active), t, o) =
          Book(N, k.levels, k.bitmap, k.best, k.index, k.free, k.active)
    BY <1>3, NodeWithIs
  <2> QED
    BY <1>2, <2>1, <2>2
<1>7. IsIndex(k.index) /\ k.free \in Link /\ k.active \in Int
  BY <1>1 DEF IsBook
<1>8. /\ IsBook(c) /\ c.nodes = N /\ c.levels = k.levels /\ c.bitmap = k.bitmap
      /\ c.best = k.best /\ c.index = k.index /\ c.free = k.free /\ c.active = k.active
  BY <1>1, <1>5, <1>6, <1>7, Assembled
<1>9. \A j \in R : c.nodes[j] = k.nodes[j]
  BY <1>1, <1>5, <1>8
<1>10. Resting(c, R, ahead)
  BY <1>1, <1>8, <1>9, RestingFrame
<1>11. Pooled(c, U, depth)
  <2>1. \A j \in U : c.nodes[j].id = k.nodes[j].id
    BY <1>1, <1>4, <1>5, <1>8
  <2>2. \A j \in Pool \ U : c.nodes[j].free_next = k.nodes[j].free_next
    BY <1>5, <1>8
  <2> QED
    BY <1>1, <1>8, <2>1, <2>2, PoolFrame
<1>12. BookOK(c, U, R, ahead, depth)
  BY Zenon, <1>8, <1>10, <1>11 DEF BookOK
<1> QED
  BY <1>2, <1>3, <1>4, <1>5, <1>8, <1>12

\* The order match() trades with is the oldest of the best opposite level.
LEMMA BestHead ==
    ASSUME NEW k, NEW R, NEW ahead, Resting(k, R, ahead), IsBook(k), NEW s \in Sides,
           k.best[s] # kInvalid, NEW i, i = k.levels[s][k.best[s]].head
    PROVE  /\ i \in R /\ k.nodes[i].previous = kInvalid /\ k.best[s] \in LevelIndices
           /\ k.nodes[i].side = s /\ k.nodes[i].level = k.best[s]
<1>1. PICK l : l = k.best[s]
  OBVIOUS
<1>2. k.bitmap[s] \in SUBSET LevelIndices
  BY DEF IsBook
<1>3. l = FindBest(s, k.bitmap[s])
  BY <1>1 DEF Resting, Bits
<1>4. k.bitmap[s] # {}
  BY <1>1, <1>3, NoBest
<1>5. l \in k.bitmap[s] /\ l \in LevelIndices
  BY <1>2, <1>3, <1>4, FindBestLeads DEF Leads
<1>6. k.levels[s][l].head # kInvalid
  BY <1>5 DEF Resting, Bits
<1>7. EndsOK(k, R, s, l)
  BY <1>5 DEF Resting, Links
<1> QED
  BY Zenon, <1>1, <1>5, <1>6, <1>7 DEF EndsOK

\* The books of match(): the taker is charged, and the maker reduced.
Charged(k, t, q) == NodeWith(k, t, WithRemaining(k.nodes[t], k.nodes[t].remaining - q))

Traded(k, t, i, s, l, q, x) ==
    [k EXCEPT !.nodes[t].remaining = @ - q, !.nodes[i].remaining = x,
              !.levels[s][l].total = @ - q]

LEMMA MatchedIs ==
    ASSUME NEW k, NEW U, NEW R \in SUBSET U, NEW ahead, NEW depth, BookOK(k, U, R, ahead, depth),
           NEW t \in U, t \notin R, NEW i \in R, NEW q \in Int, NEW s, NEW l, NEW x,
           s = k.nodes[i].side, l = k.nodes[i].level, x = k.nodes[i].remaining - q,
           NEW c, c = Charged(k, t, q)
    PROVE  Traded(k, t, i, s, l, q, x) =
             Reduce(c, i, c.nodes[i].remaining - q, LevelOf(c, i).total - q)
<1>1. IsBook(k) /\ U \subseteq Pool
  BY DEF BookOK, Pooled
<1>2. k.nodes[t].remaining \in Int /\ i # t /\ i \in Pool /\ t \in Pool
  BY <1>1, NodeFields
<1>3. PICK y : y = k.nodes[t].remaining - q
  OBVIOUS
<1>4. c = NodeWith(k, t, WithRemaining(k.nodes[t], y)) /\ y \in Int
  BY <1>2, <1>3 DEF Charged
<1>5. c.levels = k.levels /\ c.nodes[i] = k.nodes[i]
  BY <1>2, <1>4, ChargeOK
<1>6. c = [k EXCEPT !.nodes[t].remaining = y]
  BY <1>4 DEF NodeWith, WithRemaining
<1>7. PICK z : z = k.levels[s][l].total - q
  OBVIOUS
<1>8. Reduce(c, i, c.nodes[i].remaining - q, LevelOf(c, i).total - q) =
        [c EXCEPT !.nodes[i].remaining = x, !.levels[s][l].total = z]
  BY <1>5, <1>7 DEF Reduce, LevelOf
<1>9. [k EXCEPT !.nodes[t].remaining = @ - q, !.nodes[i].remaining = x,
                !.levels[s][l].total = @ - q] =
        [c EXCEPT !.nodes[i].remaining = x, !.levels[s][l].total = z]
  BY <1>3, <1>6, <1>7
<1> QED
  BY <1>8, <1>9 DEF Traded

\* What match() does to the book: the taker is charged (c), the maker i at the
\* head of the best opposite level reduced (m), and removed if nothing is left.
TakerCharged(k, u, t, q) ==
    /\ u.nodes[t].id = k.nodes[t].id /\ u.nodes[t].side = k.nodes[t].side
    /\ u.nodes[t].price = k.nodes[t].price /\ u.nodes[t].level = k.nodes[t].level
    /\ u.nodes[t].next = k.nodes[t].next /\ u.nodes[t].remaining = k.nodes[t].remaining - q

Meets(k, t, R, s, l, i, q, x) ==
    /\ s \in Sides /\ s = Other(k.nodes[t].side) /\ l \in LevelIndices /\ l = k.best[s]
    /\ i = k.levels[s][l].head /\ i \in R /\ i \in Pool /\ i # t
    /\ k.nodes[i].side = s /\ k.nodes[i].level = l /\ k.nodes[i].previous = kInvalid
    /\ k.nodes[i].remaining \in Nat \ {0} /\ k.nodes[t].remaining \in Nat
    /\ q = IF k.nodes[t].remaining < k.nodes[i].remaining THEN k.nodes[t].remaining
           ELSE k.nodes[i].remaining
    /\ q \in Nat /\ q # 0 /\ q <= k.nodes[i].remaining /\ k.nodes[t].remaining - q \in Nat
    /\ x = k.nodes[i].remaining - q

Charges(k, c, t, R, q) ==
    /\ c.levels = k.levels /\ TakerCharged(k, c, t, q) /\ \A j \in R : c.nodes[j] = k.nodes[j]

LEMMA MatchParts ==
    ASSUME DenseInv, match
    PROVE  \E U, R, ahead, depth, s, l, i, q, x, c, m :
              /\ BookOK(b, U, R, ahead, depth) /\ R = U \ {taking} /\ taking \in U
              /\ Meets(b, taking, R, s, l, i, q, x)
              /\ BookOK(c, U, R, ahead, depth) /\ Charges(b, c, taking, R, q)
              /\ IsBook(m) /\ Reduced(c, m, i, q)
              /\ b' = IF x = 0 THEN Release(Unlink(m, i), i) ELSE m
              /\ TakerCharged(b, b', taking, q)
<1> DEFINE t == b.nodes[taking]
           s == Other(t.side)
           l == b.best[s]
           i == b.levels[s][l].head
           q == IF t.remaining < b.nodes[i].remaining THEN t.remaining ELSE b.nodes[i].remaining
           x == b.nodes[i].remaining - q
           m == Traded(b, taking, i, s, l, q, x)
<1>1. /\ taking # kInvalid /\ Matches
      /\ b' = IF x = 0 THEN Release(UnlinkFilled(m, i, l), i) ELSE m
  BY Zenon DEF match, Traded
<1>3. t.remaining # 0 /\ l # kInvalid
  BY Zenon, <1>1 DEF Matches
<1>4. PICK U, ahead, depth : BookOK(b, U, U \ {taking}, ahead, depth) /\ taking \in U
  BY Zenon, <1>1 DEF DenseInv, InvOf
<1>5. t.remaining \in Nat
  BY Zenon, <1>1 DEF DenseInv, InvOf
<1>6. PICK R : R = U \ {taking}
  OBVIOUS
<1>7. /\ BookOK(b, U, R, ahead, depth) /\ R \in SUBSET U /\ taking \notin R
      /\ IsBook(b) /\ Resting(b, R, ahead) /\ U \subseteq Pool
  BY <1>4, <1>6 DEF BookOK, Pooled
<1>8. s \in Sides
  BY DEF Sides, Other
<1> HIDE DEF s, l, i, t, q, x, m
<1>9. /\ i \in R /\ b.nodes[i].previous = kInvalid /\ l \in LevelIndices
      /\ b.nodes[i].side = s /\ b.nodes[i].level = l
  <2>1. i = b.levels[s][b.best[s]].head /\ b.best[s] # kInvalid
    BY <1>3 DEF i, l
  <2> QED
    BY <1>7, <1>8, <2>1, BestHead DEF l
<1>10. b.nodes[i].remaining \in Nat \ {0} /\ i \in Pool /\ i # taking
  BY <1>7, <1>9, PlaceFields
<1>11. /\ q \in Nat /\ q # 0 /\ q <= b.nodes[i].remaining /\ t.remaining - q \in Nat
       /\ x = b.nodes[i].remaining - q
  BY <1>3, <1>5, <1>10 DEF q, x
<1>12. PICK c : c = Charged(b, taking, q)
  OBVIOUS
<1>13. BookOK(c, U, R, ahead, depth) /\ Charges(b, c, taking, R, q)
  <2>1. PICK y : y = t.remaining - q
    OBVIOUS
  <2>2. y \in Int /\ c = NodeWith(b, taking, WithRemaining(b.nodes[taking], y))
    BY <1>11, <1>12, <2>1 DEF Charged, t
  <2>3. /\ BookOK(c, U, R, ahead, depth) /\ c.levels = b.levels
        /\ c.nodes = NodesWith(b.nodes, taking, WithRemaining(b.nodes[taking], y))
        /\ c.nodes[taking].remaining = y /\ c.nodes[taking].next = b.nodes[taking].next
        /\ c.nodes[taking].level = b.nodes[taking].level
        /\ \A j \in Pool : j # taking => c.nodes[j] = b.nodes[j]
    <3>1. BookOK(b, U, R, ahead, depth) /\ R \in SUBSET U /\ taking \notin R /\ taking \in U
      BY <1>4, <1>7
    <3> QED
      BY <2>2, <3>1, ChargeOK
  <2>4. PICK o : o = WithRemaining(b.nodes[taking], y)
    OBVIOUS
  <2>5. b.nodes[taking] \in NodeType /\ b.nodes \in [Pool -> NodeType] /\ taking \in Pool
    BY <1>4, <1>7, NodeFields DEF IsBook
  <2>6. /\ o \in NodeType /\ o.id = b.nodes[taking].id /\ o.side = b.nodes[taking].side
        /\ o.price = b.nodes[taking].price
    BY <2>2, <2>4, <2>5, NodeRemaining DEF WithRemaining
  <2>7. c.nodes[taking] = o
    BY <1>7, <2>3, <2>4, <2>5, <2>6, NodesWritten
  <2>8. TakerCharged(b, c, taking, q)
    BY <2>1, <2>3, <2>6, <2>7 DEF TakerCharged, t
  <2>9. \A j \in R : c.nodes[j] = b.nodes[j]
    BY <1>7, <2>3
  <2> QED
    BY <2>3, <2>8, <2>9 DEF Charges
<1>14. m = Reduce(c, i, c.nodes[i].remaining - q, LevelOf(c, i).total - q)
  <2>1. q \in Int /\ s = b.nodes[i].side /\ l = b.nodes[i].level /\ x = b.nodes[i].remaining - q
    BY <1>9, <1>11
  <2>2. BookOK(b, U, R, ahead, depth) /\ R \in SUBSET U /\ taking \notin R /\ taking \in U /\ i \in R
    BY <1>4, <1>7, <1>9
  <2>3. Traded(b, taking, i, s, l, q, x) =
          Reduce(c, i, c.nodes[i].remaining - q, LevelOf(c, i).total - q)
    BY <1>12, <2>1, <2>2, MatchedIs
  <2> QED
    BY <2>3 DEF m
<1>15. IsBook(c) /\ Resting(c, R, ahead) /\ c.nodes[i] = b.nodes[i]
  BY <1>9, <1>13 DEF BookOK, Charges
<1>16. IsBook(m) /\ Reduced(c, m, i, q)
  <2>1. q \in Int /\ c.nodes[i].level \in LevelIndices
    BY <1>9, <1>11, <1>15
  <2> QED
    BY <1>10, <1>14, <1>15, <2>1, ReduceIs
<1>17. /\ b' = IF x = 0 THEN Release(Unlink(m, i), i) ELSE m
       /\ b'.nodes[taking].next = c.nodes[taking].next
       /\ SameOrder(c.nodes[taking], b'.nodes[taking])
  <2>1. CASE x = 0
    <3>1. q = c.nodes[i].remaining
      BY <1>10, <1>11, <1>15, <2>1
    <3>2. Reduced(c, m, i, c.nodes[i].remaining)
      BY <1>16, <3>1
    <3>3. UnlinkFilled(m, i, l) = Unlink(m, i)
      <4>1. Apart(c.nodes[i], i)
        BY Zenon, <1>9, <1>15, OrdersApart
      <4>2. /\ m.nodes[i].previous = c.nodes[i].previous /\ m.nodes[i].next = c.nodes[i].next
            /\ m.nodes[i].level = c.nodes[i].level /\ m.nodes[i].remaining = c.nodes[i].remaining - q
        BY <1>10, <1>16 DEF Reduced, SameWires
      <4>3. m.nodes[i].remaining = 0 /\ m.nodes[i].level = l /\ m.nodes[i].previous = kInvalid
        BY <1>9, <1>10, <1>15, <3>1, <4>2
      <4>4. Apart(m.nodes[i], i)
        BY <4>1, <4>2 DEF Apart
      <4> QED
        BY <1>9, <1>10, <1>16, <4>3, <4>4, FilledIsUnlinked
    <3>4. b' = Release(Unlink(m, i), i)
      BY <1>1, <2>1, <3>3
    <3>5. SameOrder(c.nodes[taking], b'.nodes[taking]) /\ b'.nodes[taking].next = c.nodes[taking].next
      <4>1. taking \in Pool /\ taking # i /\ c.nodes[i].previous = kInvalid
        BY <1>4, <1>7, <1>9, <1>10, <1>15
      <4>2. PICK u : u = b'
        OBVIOUS
      <4>3. BookOK(c, U, R, ahead, depth) /\ R \in SUBSET U /\ i \in R /\ IsBook(m)
        BY <1>7, <1>9, <1>13, <1>16
      <4>4. u = Release(Unlink(m, i), i)
        BY <3>4, <4>2
      <4>5. SameOrder(c.nodes[taking], u.nodes[taking]) /\ u.nodes[taking].next = c.nodes[taking].next
        BY <3>2, <4>1, <4>3, <4>4, FillFrame
      <4> QED
        BY <4>2, <4>5
    <3> QED
      BY <2>1, <3>4, <3>5
  <2>2. CASE x # 0
    <3>1. b' = m
      BY <1>1, <2>2
    <3>2. b'.nodes[taking] = c.nodes[taking]
      BY <1>4, <1>7, <1>10, <1>16, <3>1 DEF Reduced
    <3> QED
      BY <2>2, <3>1, <3>2 DEF SameOrder
  <2> QED
    BY <2>1, <2>2
<1>18. TakerCharged(b, b', taking, q)
  BY <1>13, <1>17 DEF Charges, TakerCharged, SameOrder
<1>19. Meets(b, taking, R, s, l, i, q, x)
  <2>1. /\ s = Other(b.nodes[taking].side) /\ l = b.best[s] /\ i = b.levels[s][l].head
        /\ t = b.nodes[taking]
    BY DEF s, l, i, t
  <2>2. q = IF b.nodes[taking].remaining < b.nodes[i].remaining THEN b.nodes[taking].remaining
            ELSE b.nodes[i].remaining
    BY DEF q, t
  <2> QED
    BY <1>5, <1>8, <1>9, <1>10, <1>11, <2>1, <2>2 DEF Meets
<1> QED
  BY Zenon, <1>4, <1>6, <1>7, <1>13, <1>16, <1>17, <1>18, <1>19

LEMMA MatchInv ==
    ASSUME DenseInv, match
    PROVE  DenseInv'
<1>1. taking # kInvalid /\ use' = use /\ request' = request /\ taking' = taking
  BY Zenon DEF match
<1>2. PICK U, R, ahead, depth, s, l, i, q, x, c, m :
              /\ BookOK(b, U, R, ahead, depth) /\ R = U \ {taking} /\ taking \in U
              /\ Meets(b, taking, R, s, l, i, q, x)
              /\ BookOK(c, U, R, ahead, depth) /\ Charges(b, c, taking, R, q)
              /\ IsBook(m) /\ Reduced(c, m, i, q)
              /\ b' = IF x = 0 THEN Release(Unlink(m, i), i) ELSE m
              /\ TakerCharged(b, b', taking, q)
  BY Zenon, MatchParts
<1>3. /\ b.nodes[taking].next = kInvalid /\ use # "feed"
      /\ request.type = "Limit" => b.nodes[taking].level \in LevelIndices
  BY Zenon, <1>1 DEF DenseInv, InvOf
<1>4. /\ b'.nodes[taking].next = kInvalid /\ b'.nodes[taking].remaining \in Nat
      /\ request'.type = "Limit" => b'.nodes[taking].level \in LevelIndices
  BY <1>1, <1>2, <1>3 DEF Meets, TakerCharged
<1>5. /\ i \in R /\ c.nodes[i] = b.nodes[i] /\ R \in SUBSET U /\ i # taking
      /\ q \in Nat /\ q # 0 /\ q <= c.nodes[i].remaining /\ x = c.nodes[i].remaining - q
      /\ c.nodes[i].remaining \in Nat
  BY <1>2 DEF Meets, Charges
<1>6. CASE x = 0
  <2>1. q = c.nodes[i].remaining
    BY <1>5, <1>6
  <2>2. Reduced(c, m, i, c.nodes[i].remaining) /\ b' = Release(Unlink(m, i), i)
    BY <1>2, <1>6, <2>1
  <2>3. PICK a, d : BookOK(b', U \ {i}, R \ {i}, a, d)
    BY <1>2, <1>5, <2>2, FillOK
  <2>4. R \ {i} = (U \ {i}) \ {taking} /\ taking \in U \ {i}
    BY <1>2, <1>5
  <2>5. BookOK(b', U \ {i}, (U \ {i}) \ {taking}, a, d)
    BY <2>3, <2>4
  <2>6. InvOf(b', use', request', taking)
    BY <1>1, <1>3, <1>4, <2>4, <2>5 DEF InvOf
  <2> QED
    BY <1>1, <2>6 DEF DenseInv
<1>7. CASE x # 0
  <2>1. b' = m /\ q < c.nodes[i].remaining
    BY <1>2, <1>5, <1>7
  <2>2. BookOK(b', U, R, Shifted(c, ahead, i, q), depth)
    BY <1>2, <1>5, <2>1, ReduceOK
  <2>3. InvOf(b', use', request', taking)
    BY <1>1, <1>2, <1>3, <1>4, <2>2 DEF InvOf
  <2> QED
    BY <1>1, <2>3 DEF DenseInv
<1> QED
  BY <1>6, <1>7

LEMMA ConcludeInv ==
    ASSUME DenseInv, Conclude
    PROVE  DenseInv'
<1> DEFINE o == b.nodes[taking]
           rests == o.remaining # 0 /\ request.type = "Limit"
<1>1. /\ taking # kInvalid /\ taking' = kInvalid
      /\ b' = IF rests THEN AppendTo(b, taking, o.level) ELSE Release(b, taking)
  BY Zenon DEF Conclude
<1>2. PICK U, ahead, depth : BookOK(b, U, U \ {taking}, ahead, depth) /\ taking \in U
  BY <1>1 DEF DenseInv, InvOf
<1>3. o.next = kInvalid /\ o.remaining \in Nat /\ (request.type = "Limit" => o.level \in LevelIndices)
  BY <1>1 DEF DenseInv, InvOf
<1>4. PICK R : R = U \ {taking}
  OBVIOUS
<1>5. BookOK(b, U, R, ahead, depth) /\ R \in SUBSET U /\ taking \notin R
  BY <1>2, <1>4
<1>6. CASE rests
  <2>1. o.remaining \in Nat \ {0} /\ o.level \in LevelIndices /\ b' = AppendTo(b, taking, o.level)
    BY <1>1, <1>3, <1>6
  <2>2. BookOK(b', U, R \cup {taking}, Placed(ahead, taking, LevelOf(b, taking).total), depth)
    BY <1>2, <1>3, <1>5, <2>1, AppendOK
  <2>3. R \cup {taking} = U
    BY <1>2, <1>4
  <2>4. InvOf(b', use', request', kInvalid)
    BY <2>2, <2>3, StaysAtRest
  <2> QED
    BY <1>1, <2>4 DEF DenseInv
<1>7. CASE ~rests
  <2>1. b' = Release(b, taking)
    BY <1>1, <1>7
  <2>2. BookOK(b', R, R, ahead, Placed(depth, taking, OrderCapacity - b.active + 1))
    BY <1>2, <1>4, <1>5, <2>1, ReleaseOK
  <2>3. InvOf(b', use', request', kInvalid)
    BY <2>2, StaysAtRest
  <2> QED
    BY <1>1, <2>3 DEF DenseInv
<1> QED
  BY <1>6, <1>7

\* The constructor: every node is free, and every level empty.
LEMMA InitInv == DenseInit => DenseInv
<1> SUFFICES ASSUME DenseInit PROVE DenseInv
  OBVIOUS
<1> DEFINE succ(i) == IF i + 1 < OrderCapacity THEN i + 1 ELSE kInvalid
           void == [head |-> kInvalid, tail |-> kInvalid, total |-> 0]
           N == [i \in Pool |-> FreeNode(succ(i))]
           L == [s \in Sides |-> [l \in LevelIndices |-> void]]
           B == [s \in Sides |-> {}]
           T == [s \in Sides |-> kInvalid]
           X == [id \in {} |-> kInvalid]
           first == IF OrderCapacity = 0 THEN kInvalid ELSE 0
           depth == [i \in Pool |-> OrderCapacity - i]
           ahead == [i \in Pool |-> 0]
<1>1. b = Book(N, L, B, T, X, first, 0)
  BY DEF DenseInit, Book, FreeNode
<1>2. taking = kInvalid
  BY DEF DenseInit
<1>3. OrderCapacity \in Nat /\ kInvalid \notin Pool /\ kInvalid \in Link
  BY DenseAssumption, Invalid
<1>4. \A i \in Pool : succ(i) \in Link
  BY <1>3 DEF Pool, Link
<1>5. N \in [Pool -> NodeType] /\ \A i \in Pool : N[i].free_next = succ(i)
  <2> HIDE DEF succ
  <2> QED
    BY <1>4, NodeIsNode
<1>6. L \in [Sides -> [LevelIndices -> LevelType]]
  BY <1>3 DEF LevelType
<1>7. /\ B \in [Sides -> SUBSET LevelIndices] /\ T \in [Sides -> LevelIndices \cup {kInvalid}]
      /\ IsIndex(X) /\ DOMAIN X = {}
  BY DEF IsIndex
<1>8. first \in Link
  BY <1>3 DEF Link, Pool
<1>9. \A s \in Sides : \A l \in LevelIndices :
        L[s][l].head = kInvalid /\ L[s][l].tail = kInvalid /\ L[s][l].total = 0
  OBVIOUS
<1>10. \A s \in Sides : B[s] = {} /\ T[s] = kInvalid
  OBVIOUS
<1>11. PICK d, a : d = depth /\ a = ahead
  OBVIOUS
<1>12. \A i \in Pool : i \in Nat /\ i + 1 <= OrderCapacity /\ d[i] = OrderCapacity - i
  BY <1>3, <1>11 DEF Pool
<1>13. \A i \in Pool : \/ succ(i) = kInvalid /\ OrderCapacity - i = 1
                       \/ succ(i) = i + 1 /\ i + 1 \in Pool
  <2> TAKE i \in Pool
  <2>1. i \in Int /\ 0 <= i /\ i < OrderCapacity
    BY <1>3 DEF Pool
  <2>2. CASE i + 1 < OrderCapacity
    BY <1>3, <2>1, <2>2 DEF Pool
  <2>3. CASE ~(i + 1 < OrderCapacity)
    BY <1>3, <2>1, <2>3
  <2> QED
    BY <2>2, <2>3
<1>14. \/ first = kInvalid /\ OrderCapacity = 0
       \/ first = 0 /\ 0 \in Pool
  BY <1>3 DEF Pool
<1> HIDE DEF N, L, B, T, X, first, depth, ahead, succ
<1>15. /\ b.nodes = N /\ b.levels = L /\ b.bitmap = B /\ b.best = T /\ b.index = X
       /\ b.free = first /\ b.active = 0
  BY <1>1, BookFields
<1>16. IsBook(b)
  BY <1>1, <1>5, <1>6, <1>7, <1>8, <1>15 DEF IsBook
<1>17. Resting(b, {}, a)
  <2>1. Links(b, {})
    BY <1>9, <1>15 DEF Links, EndsOK
  <2>2. Places(b, {}, a)
    BY <1>9, <1>15 DEF Places
  <2>3. Bits(b)
    BY <1>9, <1>10, <1>15, NoBest DEF Bits
  <2> QED
    BY <2>1, <2>2, <2>3 DEF Resting
<1>18. FreeList(b, Pool, d)
  <2>1. ASSUME NEW i \in Pool
        PROVE  /\ d[i] \in Nat /\ 1 <= d[i] /\ d[i] <= OrderCapacity - 0
               /\ succ(i) = kInvalid => d[i] = 1
               /\ succ(i) # kInvalid => succ(i) \in Pool /\ d[i] = d[succ(i)] + 1
    <3>1. CASE succ(i) = kInvalid /\ OrderCapacity - i = 1
      BY <1>3, <1>12, <3>1
    <3>2. CASE succ(i) = i + 1 /\ i + 1 \in Pool
      <4>1. i \in Nat /\ d[i] = OrderCapacity - i /\ d[i + 1] = OrderCapacity - (i + 1)
        BY <1>12, <3>2
      <4>2. succ(i) # kInvalid /\ i + 1 <= OrderCapacity
        BY <1>3, <1>12, <3>2
      <4> QED
        BY <1>3, <3>2, <4>1, <4>2
    <3> QED
      BY <1>13, <3>1, <3>2
  <2>2. \A i, j \in Pool : d[i] = d[j] => i = j
    BY <1>3, <1>12
  <2>3. first = kInvalid => 0 = OrderCapacity
    BY <1>3, <1>14
  <2>4. first # kInvalid => first \in Pool /\ d[first] = OrderCapacity - 0
    BY <1>3, <1>12, <1>14
  <2> QED
    BY <1>5, <1>15, <2>1, <2>2, <2>3, <2>4 DEF FreeList
<1>19. Indexed(b, {})
  BY <1>7, <1>15, FS_EmptySet DEF Indexed
<1>20. Pooled(b, {}, d)
  BY <1>18, <1>19 DEF Pooled
<1>21. BookOK(b, {}, {}, a, d)
  BY <1>16, <1>17, <1>20 DEF BookOK
<1> QED
  BY <1>2, <1>21, StaysAtRest DEF DenseInv

LEMMA NextInv == DenseInv /\ [DenseNext]_dense => DenseInv'
<1> SUFFICES ASSUME DenseInv, [DenseNext]_dense PROVE DenseInv'
  OBVIOUS
<1>1. CASE UNCHANGED dense
  BY <1>1 DEF dense, DenseInv
<1>2. ASSUME NEW id \in OrderIds, NEW side \in Sides, NEW price \in FeedPrices,
             NEW quantity \in Quantities, feed_add(id, side, price, quantity)
      PROVE  DenseInv'
  BY <1>2, FeedAddInv
<1>3. ASSUME NEW id \in OrderIds, NEW quantity \in Quantities, feed_reduce(id, quantity)
      PROVE  DenseInv'
  BY <1>3, FeedReduceInv
<1>4. ASSUME NEW id \in OrderIds, feed_delete(id) PROVE DenseInv'
  BY <1>4, FeedDeleteInv
<1>5. ASSUME NEW id \in OrderIds, NEW new_id \in OrderIds, NEW price \in FeedPrices,
             NEW quantity \in Quantities, feed_replace(id, new_id, price, quantity)
      PROVE  DenseInv'
  BY <1>5, FeedReplaceInv
<1>6. ASSUME NEW r \in Requests, submit(r) PROVE DenseInv'
  BY <1>6, SubmitInv
<1>7. ASSUME NEW id \in OrderIds, cancel(id) PROVE DenseInv'
  BY <1>7, CancelInv
<1>8. ASSUME NEW id \in OrderIds, NEW price \in FeedPrices, NEW quantity \in Quantities,
             modify(id, price, quantity)
      PROVE  DenseInv'
  BY <1>8, ModifyInv
<1>9. CASE match
  BY <1>9, MatchInv
<1>10. CASE Conclude
  BY <1>10, ConcludeInv
<1> QED
  BY <1>1, <1>2, <1>3, <1>4, <1>5, <1>6, <1>7, <1>8, <1>9, <1>10 DEF DenseNext

LEMMA DenseInvariant == DenseSpec => []DenseInv
BY InitInv, NextInv, PTL DEF DenseSpec

-----------------------------------------------------------------------------
(***************************************************************************)
(* Walking along the free list and along a queue.                          *)
(***************************************************************************)
LEMMA UpTo ==
    ASSUME NEW n \in Nat, NEW S, 0 \in S, \A k \in 0 .. n : k < n /\ k \in S => k + 1 \in S
    PROVE  \A k \in 0 .. n : k \in S
<1> DEFINE T == {k \in 0 .. n : k \notin S}
<1> SUFFICES ASSUME T # {} PROVE FALSE
  OBVIOUS
<1>0. T \in SUBSET Nat
  OBVIOUS
<1>1. PICK m \in T : \A k \in T : m <= k
  BY <1>0, LeastNat
<1>2. m \in 0 .. n /\ m \notin S /\ m # 0
  BY <1>1
<1>3. m - 1 \in 0 .. n /\ m - 1 < n /\ (m - 1) + 1 = m
  BY <1>2
<1>4. m - 1 \notin S
  BY <1>2, <1>3
<1> QED
  BY <1>1, <1>3, <1>4

IsWalk(nodes, field, first, n, g) ==
    g = [k \in 0 .. n |-> IF k = 0 THEN first
                          ELSE IF g[k - 1] = kInvalid THEN kInvalid ELSE nodes[g[k - 1]][field]]

Steps(nodes, field, first, n, g) ==
    /\ g[0] = first
    /\ \A k \in 0 .. n : k < n =>
          g[k + 1] = IF g[k] = kInvalid THEN kInvalid ELSE nodes[g[k]][field]

LEMMA WalkSteps ==
    ASSUME NEW nodes, NEW field, NEW first, NEW n \in Nat, NEW g, IsWalk(nodes, field, first, n, g)
    PROVE  Steps(nodes, field, first, n, g)
<1>1. \A k \in 0 .. n : g[k] = IF k = 0 THEN first
                               ELSE IF g[k - 1] = kInvalid THEN kInvalid ELSE nodes[g[k - 1]][field]
  BY Zenon DEF IsWalk
<1>2. g[0] = first
  BY <1>1
<1>3. ASSUME NEW k \in 0 .. n, k < n
      PROVE  g[k + 1] = IF g[k] = kInvalid THEN kInvalid ELSE nodes[g[k]][field]
  <2>1. k + 1 \in 0 .. n /\ k + 1 # 0 /\ (k + 1) - 1 = k
    BY <1>3
  <2> QED
    BY <1>1, <2>1
<1> QED
  BY <1>2, <1>3 DEF Steps

LEMMA WalkExists ==
    ASSUME NEW nodes, NEW field, NEW first, NEW n \in Nat
    PROVE  \E g : IsWalk(nodes, field, first, n, g)
<1> DEFINE S == {k \in 0 .. n : \E g : IsWalk(nodes, field, first, k, g)}
<1>1. 0 \in S
  <2> DEFINE g == [k \in 0 .. 0 |-> first]
  <2>1. g = [k \in 0 .. 0 |-> IF k = 0 THEN first
                          ELSE IF g[k - 1] = kInvalid THEN kInvalid ELSE nodes[g[k - 1]][field]]
    OBVIOUS
  <2>2. IsWalk(nodes, field, first, 0, g)
    BY <2>1 DEF IsWalk
  <2> QED
    BY <2>2
<1>2. ASSUME NEW m \in 0 .. n, m < n, m \in S PROVE m + 1 \in S
  <2>1. PICK g : IsWalk(nodes, field, first, m, g)
    BY <1>2
  <2>2. PICK x : x = IF g[m] = kInvalid THEN kInvalid ELSE nodes[g[m]][field]
    OBVIOUS
  <2>3. Steps(nodes, field, first, m, g) /\ m \in Nat
    BY <2>1, WalkSteps
  <2> DEFINE h == [k \in 0 .. m + 1 |-> IF k = m + 1 THEN x ELSE g[k]]
  <2>4. h[0] = first /\ h[m + 1] = x /\ h[m] = g[m]
    BY <2>3 DEF Steps
  <2>5. ASSUME NEW k \in 0 .. m + 1, k # 0
        PROVE  h[k] = IF h[k - 1] = kInvalid THEN kInvalid ELSE nodes[h[k - 1]][field]
    <3>1. CASE k = m + 1
      <4>1. k - 1 = m
        BY <2>3, <3>1
      <4> HIDE DEF h
      <4> QED
        BY <2>2, <2>4, <3>1, <4>1
    <3>2. CASE k # m + 1
      <4>1. k - 1 \in 0 .. m /\ k - 1 < m /\ (k - 1) + 1 = k /\ k \in 0 .. m
        BY <2>3, <2>5, <3>2
      <4>2. h[k] = g[k] /\ h[k - 1] = g[k - 1]
        BY <2>3, <4>1
      <4>3. g[(k - 1) + 1] = IF g[k - 1] = kInvalid THEN kInvalid ELSE nodes[g[k - 1]][field]
        BY <2>3, <4>1 DEF Steps
      <4> HIDE DEF h
      <4> QED
        BY <4>1, <4>2, <4>3
    <3> QED
      BY <3>1, <3>2
  <2>6. IsWalk(nodes, field, first, m + 1, h)
    <3>1. h = [k \in 0 .. m + 1 |-> h[k]]
      OBVIOUS
    <3> HIDE DEF h
    <3>2. \A k \in 0 .. m + 1 : h[k] = IF k = 0 THEN first
                 ELSE IF h[k - 1] = kInvalid THEN kInvalid ELSE nodes[h[k - 1]][field]
      BY <2>4, <2>5
    <3> QED
      BY <3>1, <3>2 DEF IsWalk
  <2>7. m + 1 \in 0 .. n
    BY <1>2
  <2> QED
    BY <2>6, <2>7
<1> HIDE DEF S
<1>3. n \in S
  BY <1>1, <1>2, UpTo
<1> QED
  BY <1>3 DEF S

\* The nodes of a walk that ends after m of them.
LEMMA WalkLength ==
    ASSUME NEW at, NEW m \in 0 .. OrderCapacity,
           \A k \in 0 .. OrderCapacity : at[k] # kInvalid <=> k < m
    PROVE  Cardinality({k \in 0 .. OrderCapacity : at[k] # kInvalid}) = m
<1>1. OrderCapacity \in Nat
  BY DenseAssumption
<1>2. {k \in 0 .. OrderCapacity : at[k] # kInvalid} = 0 .. m - 1
  BY <1>1
<1>3. Cardinality(0 .. m - 1) = m
  <2>1. m - 1 \in Int
    OBVIOUS
  <2>2. Cardinality(0 .. m - 1) = IF 0 > m - 1 THEN 0 ELSE (m - 1) - 0 + 1
    BY <2>1, FS_Interval
  <2> QED
    BY <2>2
<1> QED
  BY <1>2, <1>3

LEMMA FreeWalk ==
    ASSUME NEW k, IsBook(k), NEW U, NEW depth, Pooled(k, U, depth),
           NEW at, Steps(k.nodes, "free_next", k.free, OrderCapacity, at),
           NEW d, d = OrderCapacity - k.active
    PROVE  /\ d \in 0 .. OrderCapacity
           /\ \A j \in 0 .. OrderCapacity : j < d => at[j] \in Pool \ U /\ depth[at[j]] = d - j
           /\ \A j \in 0 .. OrderCapacity : ~(j < d) => at[j] = kInvalid
<1>1. FreeList(k, Pool \ U, depth) /\ OrderCapacity \in Nat /\ k.active \in Int /\ kInvalid \notin Pool
  BY DenseAssumption, Invalid DEF Pooled, IsBook
<1>2. k.active \in Nat
  BY FS_CardinalityType DEF Pooled, Indexed
<1>3. k.free = kInvalid => d = 0
  BY <1>1 DEF FreeList
<1>4. k.free # kInvalid => k.free \in Pool \ U /\ depth[k.free] = d /\ d >= 1
  BY <1>1 DEF FreeList
<1>5. d \in 0 .. OrderCapacity
  BY <1>1, <1>2, <1>3, <1>4
<1> DEFINE S == {j \in 0 .. OrderCapacity :
                   IF j < d THEN at[j] \in Pool \ U /\ depth[at[j]] = d - j ELSE at[j] = kInvalid}
<1>6. 0 \in S
  BY <1>1, <1>3, <1>4, <1>5 DEF Steps
<1>7. ASSUME NEW j \in 0 .. OrderCapacity, j < OrderCapacity, j \in S PROVE j + 1 \in S
  <2>1. j + 1 \in 0 .. OrderCapacity
    BY <1>1, <1>7
  <2>2. at[j + 1] = IF at[j] = kInvalid THEN kInvalid ELSE k.nodes[at[j]].free_next
    BY <1>7 DEF Steps
  <2>3. CASE j < d
    <3>1. at[j] \in Pool \ U /\ depth[at[j]] = d - j /\ at[j] # kInvalid
      BY <1>1, <1>7, <2>3
    <3>2. PICK n : n = k.nodes[at[j]].free_next
      OBVIOUS
    <3>3. at[j + 1] = n
      BY <2>2, <3>1, <3>2
    <3>4. /\ n = kInvalid => depth[at[j]] = 1
          /\ n # kInvalid => n \in Pool \ U /\ depth[at[j]] = depth[n] + 1 /\ depth[n] \in Nat /\ 1 <= depth[n]
      BY <1>1, <3>1, <3>2 DEF FreeList
    <3>5. CASE n = kInvalid
      <4>1. ~(j + 1 < d)
        BY <1>5, <3>1, <3>4, <3>5
      <4> QED
        BY <2>1, <3>3, <3>5, <4>1
    <3>6. CASE n # kInvalid
      <4>1. j + 1 < d /\ depth[n] = d - (j + 1) /\ n \in Pool \ U
        BY <1>5, <3>1, <3>4, <3>6
      <4> QED
        BY <2>1, <3>3, <4>1
    <3> QED
      BY <3>5, <3>6
  <2>4. CASE ~(j < d)
    <3>1. at[j] = kInvalid /\ ~(j + 1 < d)
      BY <1>5, <1>7, <2>4
    <3> QED
      BY <2>1, <2>2, <3>1
  <2> QED
    BY <2>3, <2>4
<1> HIDE DEF S
<1>8. \A j \in 0 .. OrderCapacity : j \in S
  BY <1>1, <1>6, <1>7, UpTo
<1> QED
  BY <1>5, <1>8 DEF S

Trail(at, m) == [k \in 1 .. m |-> at[k - 1]]

LEMMA PoolExact == DenseInv => PoolIsExact
<1> SUFFICES ASSUME DenseInv PROVE PoolIsExact
  OBVIOUS
<1>1. PICK U, R, ahead, depth : BookOK(b, U, R, ahead, depth)
  BY DEF DenseInv, InvOf
<1>2. IsBook(b) /\ Pooled(b, U, depth) /\ OrderCapacity \in Nat
  BY <1>1, DenseAssumption DEF BookOK
<1> DEFINE at == CHOOSE g : IsWalk(b.nodes, "free_next", b.free, OrderCapacity, g)
           freed == Along(b.free, Freed)
           d == OrderCapacity - b.active
           indexed == {b.index[id] : id \in DOMAIN b.index}
<1>3. freed = Trail(at, Cardinality({j \in 0 .. OrderCapacity : at[j] # kInvalid}))
  BY Zenon DEF Along, Walk, Freed, IsWalk, Trail
<1>4. IsWalk(b.nodes, "free_next", b.free, OrderCapacity, at)
  BY <1>2, WalkExists
<1> HIDE DEF at, freed, d
<1>5. Steps(b.nodes, "free_next", b.free, OrderCapacity, at)
  BY <1>2, <1>4, WalkSteps
<1>6. /\ d \in 0 .. OrderCapacity
      /\ \A j \in 0 .. OrderCapacity : j < d => at[j] \in Pool \ U /\ depth[at[j]] = d - j
      /\ \A j \in 0 .. OrderCapacity : ~(j < d) => at[j] = kInvalid
  BY <1>2, <1>5, FreeWalk DEF d
<1>7. \A j \in 0 .. OrderCapacity : at[j] # kInvalid <=> j < d
  BY <1>6, Invalid
<1>8. freed = Trail(at, d)
  BY <1>3, <1>6, <1>7, WalkLength
<1>9. DOMAIN freed = 1 .. d /\ Len(freed) = d /\ \A k \in 1 .. d : freed[k] = at[k - 1]
  <2>1. d \in Nat
    BY <1>6
  <2> QED
    BY <1>8, <2>1 DEF Trail
<1>10. \A k \in 1 .. d : k - 1 \in 0 .. OrderCapacity /\ k - 1 < d
  BY <1>2, <1>6
<1>11. Members(freed) \subseteq Pool \ U
  BY <1>6, <1>9, <1>10 DEF Members
<1>12. ASSUME NEW i \in Pool \ U PROVE i \in Members(freed)
  <2>1. FreeList(b, Pool \ U, depth)
    BY <1>2 DEF Pooled
  <2>2. depth[i] \in Nat /\ 1 <= depth[i] /\ depth[i] <= d
    BY <2>1 DEF FreeList, d
  <2>3. PICK j : j = d - depth[i]
    OBVIOUS
  <2>4. j \in 0 .. OrderCapacity /\ j < d /\ d - j = depth[i] /\ j + 1 \in 1 .. d /\ (j + 1) - 1 = j
    BY <1>2, <1>6, <2>2, <2>3
  <2>5. at[j] \in Pool \ U /\ depth[at[j]] = depth[i]
    BY <1>6, <2>4
  <2>6. at[j] = i
    BY <2>1, <2>5 DEF FreeList
  <2>7. freed[j + 1] = i
    BY <1>9, <2>4, <2>6
  <2> QED
    BY <1>9, <2>4, <2>7 DEF Members
<1>13. indexed = U
  BY <1>2 DEF Pooled, Indexed
<1>14. Members(freed) = Pool \ indexed
  BY <1>11, <1>12, <1>13
<1>15. Len(freed) = OrderCapacity - b.active
  BY <1>9 DEF d
<1>16. b.active = Cardinality(DOMAIN b.index) /\ \A id \in DOMAIN b.index : b.nodes[b.index[id]].id = id
  BY <1>2 DEF Pooled, Indexed
<1> QED
  BY <1>14, <1>15, <1>16 DEF PoolIsExact, freed

On(k, R, s, l, i) == i \in R /\ k.nodes[i].side = s /\ k.nodes[i].level = l

\* From an order of a queue to the one behind it.
LEMMA QueueStep ==
    ASSUME NEW k, NEW R, NEW ahead, Resting(k, R, ahead), IsBook(k), NEW s, NEW l, NEW i,
           On(k, R, s, l, i), NEW n, n = k.nodes[i].next, n # kInvalid
    PROVE  /\ On(k, R, s, l, n) /\ ahead[n] = EndAt(k, ahead, i)
           /\ ahead[i] \in Nat /\ ahead[n] \in Nat /\ ahead[i] < ahead[n]
<1>1. i \in R /\ LinkOK(k, R, i)
  BY DEF On, Resting, Links
<1>2. n \in R /\ SameQueue(k, i, n) /\ k.nodes[n].previous = i
  BY <1>1 DEF LinkOK
<1>3. On(k, R, s, l, n)
  BY <1>2 DEF On, SameQueue
<1>4. i # kInvalid
  BY <1>1, Invalid DEF Resting
<1>5. ahead[n] = EndAt(k, ahead, i)
  BY <1>2, <1>4 DEF Resting, Places, PlaceOK
<1>6. /\ ahead[i] \in Nat /\ ahead[n] \in Nat /\ k.nodes[i].remaining \in Nat \ {0}
      /\ EndAt(k, ahead, i) = ahead[i] + k.nodes[i].remaining
  BY <1>1, <1>2, PlaceFields
<1> QED
  BY <1>3, <1>5, <1>6

\* The head of a level is the first of its queue, with nothing in front.
LEMMA QueueHead ==
    ASSUME NEW k, NEW R, NEW ahead, Resting(k, R, ahead), NEW s \in Sides, NEW l \in LevelIndices,
           k.levels[s][l].head # kInvalid
    PROVE  On(k, R, s, l, k.levels[s][l].head) /\ ahead[k.levels[s][l].head] = 0
<1>1. PICK i : i = k.levels[s][l].head
  OBVIOUS
<1>2. On(k, R, s, l, i) /\ k.nodes[i].previous = kInvalid
  BY <1>1 DEF Resting, Links, EndsOK, On
<1>3. ahead[i] = 0
  BY <1>2 DEF Resting, Places, PlaceOK, On
<1> QED
  BY <1>1, <1>2, <1>3

\* What a walk from the head meets: the orders of the queue, each where the
\* one in front of it ends, and after at most OrderCapacity of them the end.
IsQueue(k, R, ahead, s, l, at, m) ==
    /\ m \in 0 .. OrderCapacity
    /\ \A j \in 0 .. OrderCapacity : at[j] # kInvalid <=> j < m
    /\ \A j \in 0 .. OrderCapacity : j < m =>
          On(k, R, s, l, at[j]) /\ (j = 0 => ahead[at[j]] = 0)
    /\ \A j \in 0 .. OrderCapacity : j + 1 < m => ahead[at[j + 1]] = EndAt(k, ahead, at[j])
    /\ \A j \in 0 .. OrderCapacity : j + 1 = m => k.nodes[at[j]].next = kInvalid

LEMMA QueueWalk ==
    ASSUME NEW k, NEW R, NEW ahead, Resting(k, R, ahead), IsBook(k),
           NEW s \in Sides, NEW l \in LevelIndices,
           NEW at, Steps(k.nodes, "next", k.levels[s][l].head, OrderCapacity, at)
    PROVE  \E m : IsQueue(k, R, ahead, s, l, at, m)
<1>1. OrderCapacity \in Nat /\ kInvalid \notin Pool /\ R \subseteq Pool
  BY DenseAssumption, Invalid DEF Resting
<1>2. at[0] = k.levels[s][l].head
  BY DEF Steps
<1>3. \A j \in 0 .. OrderCapacity : j < OrderCapacity =>
        /\ at[j] = kInvalid => at[j + 1] = kInvalid
        /\ at[j] # kInvalid => at[j + 1] = k.nodes[at[j]].next
  BY DEF Steps
<1>4. \A j \in 0 .. OrderCapacity : at[j] = kInvalid \/ On(k, R, s, l, at[j])
  <2> DEFINE S == {j \in 0 .. OrderCapacity : at[j] = kInvalid \/ On(k, R, s, l, at[j])}
  <2>1. 0 \in S
    BY <1>1, <1>2, QueueHead
  <2>2. ASSUME NEW j \in 0 .. OrderCapacity, j < OrderCapacity, j \in S PROVE j + 1 \in S
    <3>1. j + 1 \in 0 .. OrderCapacity
      BY <1>1, <2>2
    <3>2. CASE at[j] = kInvalid
      BY <1>3, <2>2, <3>1, <3>2
    <3>3. CASE at[j] # kInvalid
      <4>1. On(k, R, s, l, at[j]) /\ at[j + 1] = k.nodes[at[j]].next
        BY <1>3, <2>2, <3>3
      <4>2. at[j + 1] = kInvalid \/ On(k, R, s, l, at[j + 1])
        BY <4>1, QueueStep
      <4> QED
        BY <3>1, <4>2
    <3> QED
      BY <3>2, <3>3
  <2> HIDE DEF S
  <2>3. \A j \in 0 .. OrderCapacity : j \in S
    BY <1>1, <2>1, <2>2, UpTo
  <2> QED
    BY <2>3 DEF S
<1>5. ASSUME NEW j \in 0 .. OrderCapacity, j < OrderCapacity, at[j] # kInvalid, at[j + 1] # kInvalid
      PROVE  /\ ahead[at[j + 1]] = EndAt(k, ahead, at[j]) /\ ahead[at[j]] \in Nat
             /\ ahead[at[j + 1]] \in Nat /\ ahead[at[j]] < ahead[at[j + 1]]
  <2>1. On(k, R, s, l, at[j]) /\ at[j + 1] = k.nodes[at[j]].next
    BY <1>3, <1>4, <1>5
  <2> QED
    BY <1>5, <2>1, QueueStep
<1>6. \E j \in 0 .. OrderCapacity : at[j] = kInvalid
  <2> SUFFICES ASSUME \A j \in 0 .. OrderCapacity : at[j] # kInvalid PROVE FALSE
    OBVIOUS
  <2>1. \A j \in 0 .. OrderCapacity : at[j] \in Pool /\ ahead[at[j]] \in Nat
    <3> TAKE j \in 0 .. OrderCapacity
    <3>1. at[j] \in R
      BY <1>4 DEF On
    <3> QED
      BY <1>1, <3>1, PlaceFields
  <2> DEFINE S == {j \in 0 .. OrderCapacity :
                     \A i \in 0 .. OrderCapacity : i < j => ahead[at[i]] < ahead[at[j]]}
  <2>2. 0 \in S
    BY <1>1
  <2>3. ASSUME NEW j \in 0 .. OrderCapacity, j < OrderCapacity, j \in S PROVE j + 1 \in S
    <3>1. j + 1 \in 0 .. OrderCapacity
      BY <1>1, <2>3
    <3>2. ahead[at[j]] < ahead[at[j + 1]]
      BY <1>5, <2>3, <3>1
    <3>3. ASSUME NEW i \in 0 .. OrderCapacity, i < j + 1 PROVE ahead[at[i]] < ahead[at[j + 1]]
      <4>1. CASE i = j
        BY <3>2, <4>1
      <4>2. CASE i # j
        <5>1. i < j
          BY <3>3, <4>2
        <5>2. ahead[at[i]] < ahead[at[j]]
          BY <2>3, <5>1
        <5>3. ahead[at[i]] \in Nat /\ ahead[at[j]] \in Nat /\ ahead[at[j + 1]] \in Nat
          BY <2>1, <3>1
        <5> QED
          BY <3>2, <5>2, <5>3
      <4> QED
        BY <4>1, <4>2
    <3> QED
      BY <3>1, <3>3
  <2> HIDE DEF S
  <2>4. \A j \in 0 .. OrderCapacity : j \in S
    BY <1>1, <2>2, <2>3, UpTo
  <2>5. \A i, j \in 0 .. OrderCapacity : i < j => ahead[at[i]] < ahead[at[j]]
    BY <2>4 DEF S
  <2>6. PICK f : f = [j \in 0 .. OrderCapacity |-> at[j]]
    OBVIOUS
  <2>7. f \in [0 .. OrderCapacity -> Pool]
    BY <2>1, <2>6
  <2>8. /\ IsFiniteSet(0 .. OrderCapacity) /\ Cardinality(0 .. OrderCapacity) = OrderCapacity + 1
        /\ IsFiniteSet(Pool) /\ Cardinality(Pool) = OrderCapacity
    <3>1. 0 \in Int /\ OrderCapacity \in Int /\ OrderCapacity - 1 \in Int
      BY <1>1
    <3>2. /\ IsFiniteSet(0 .. OrderCapacity)
          /\ Cardinality(0 .. OrderCapacity) = IF 0 > OrderCapacity THEN 0 ELSE OrderCapacity - 0 + 1
      BY <3>1, FS_Interval
    <3>3. /\ IsFiniteSet(0 .. OrderCapacity - 1)
          /\ Cardinality(0 .. OrderCapacity - 1) =
               IF 0 > OrderCapacity - 1 THEN 0 ELSE (OrderCapacity - 1) - 0 + 1
      BY <3>1, FS_Interval
    <3> QED
      BY <1>1, <3>2, <3>3 DEF Pool
  <2>9. PICK i, j \in 0 .. OrderCapacity : i # j /\ f[i] = f[j]
    <3>1. Cardinality(Pool) < Cardinality(0 .. OrderCapacity)
      BY <1>1, <2>8
    <3>2. PICK X : X = 0 .. OrderCapacity
      OBVIOUS
    <3>3. IsFiniteSet(X) /\ IsFiniteSet(Pool) /\ Cardinality(Pool) < Cardinality(X) /\ f \in [X -> Pool]
      BY <2>7, <2>8, <3>1, <3>2
    <3>4. \E i, j \in X : i # j /\ f[i] = f[j]
      BY <3>3, FS_PigeonHole
    <3> QED
      BY <3>2, <3>4
  <2>10. at[i] = at[j]
    BY <2>6, <2>9
  <2>11. (i < j \/ j < i) /\ ahead[at[i]] \in Nat
    BY <2>1, <2>9
  <2> QED
    BY <2>5, <2>10, <2>11
<1> DEFINE T == {j \in 0 .. OrderCapacity : at[j] = kInvalid}
<1>7. T \in SUBSET Nat /\ T # {}
  BY <1>6
<1>8. PICK m \in T : \A j \in T : m <= j
  BY <1>7, LeastNat
<1>9. m \in 0 .. OrderCapacity /\ at[m] = kInvalid
  BY <1>8
<1>10. \A j \in 0 .. OrderCapacity : at[j] # kInvalid <=> j < m
  <2>1. ASSUME NEW j \in 0 .. OrderCapacity, j < m PROVE at[j] # kInvalid
    BY <1>8, <1>9, <2>1
  <2> DEFINE S == {j \in 0 .. OrderCapacity : ~(j < m) => at[j] = kInvalid}
  <2>2. 0 \in S
    BY <1>1, <1>9
  <2>3. ASSUME NEW j \in 0 .. OrderCapacity, j < OrderCapacity, j \in S PROVE j + 1 \in S
    <3>1. j + 1 \in 0 .. OrderCapacity
      BY <1>1, <2>3
    <3>2. CASE j + 1 = m
      BY <1>9, <3>1, <3>2
    <3>3. CASE j + 1 # m
      <4>1. ~(j + 1 < m) => ~(j < m)
        BY <1>9, <3>3
      <4> QED
        BY <1>3, <2>3, <3>1, <4>1
    <3> QED
      BY <3>2, <3>3
  <2> HIDE DEF S
  <2>4. \A j \in 0 .. OrderCapacity : j \in S
    BY <1>1, <2>2, <2>3, UpTo
  <2> QED
    BY <2>1, <2>4 DEF S
<1>11. ASSUME NEW j \in 0 .. OrderCapacity, j < m
       PROVE  On(k, R, s, l, at[j]) /\ (j = 0 => ahead[at[j]] = 0)
  BY <1>2, <1>4, <1>10, <1>11, QueueHead
<1>12. ASSUME NEW j \in 0 .. OrderCapacity, j + 1 < m
       PROVE  ahead[at[j + 1]] = EndAt(k, ahead, at[j])
  <2>1. j < OrderCapacity /\ j < m /\ j + 1 \in 0 .. OrderCapacity
    BY <1>1, <1>9, <1>12
  <2> QED
    BY <1>5, <1>10, <1>12, <2>1
<1>13. ASSUME NEW j \in 0 .. OrderCapacity, j + 1 = m PROVE k.nodes[at[j]].next = kInvalid
  <2>1. j < OrderCapacity /\ j < m
    BY <1>1, <1>9, <1>13
  <2> QED
    BY <1>3, <1>9, <1>10, <1>13, <2>1
<1> QED
  BY <1>9, <1>10, <1>11, <1>12, <1>13 DEF IsQueue

IsSum(nodes, q, g) ==
    g = [k \in 0 .. Len(q) |-> IF k = 0 THEN 0 ELSE g[k - 1] + nodes[q[k]].remaining]

\* What remains of the first j orders of a queue is what the j-th ends at.
LEMMA QueueSum ==
    ASSUME NEW k, NEW R, NEW ahead, Resting(k, R, ahead), IsBook(k), NEW s, NEW l, NEW at, NEW m,
           IsQueue(k, R, ahead, s, l, at, m),
           NEW q, q = Trail(at, m), NEW sum, sum = CHOOSE g : IsSum(k.nodes, q, g)
    PROVE  sum[Len(q)] = IF m = 0 THEN 0 ELSE EndAt(k, ahead, at[m - 1])
<1>1. m \in 0 .. OrderCapacity /\ OrderCapacity \in Nat /\ m \in Nat
  BY DenseAssumption DEF IsQueue
<1>2. DOMAIN q = 1 .. m /\ Len(q) = m /\ \A j \in 1 .. m : q[j] = at[j - 1]
  BY <1>1 DEF Trail
<1>3. ASSUME NEW j \in 0 .. m, j < m
      PROVE  /\ ahead[at[j]] \in Nat /\ k.nodes[at[j]].remaining \in Nat
             /\ EndAt(k, ahead, at[j]) = ahead[at[j]] + k.nodes[at[j]].remaining
             /\ EndAt(k, ahead, at[j]) \in Nat
             /\ j = 0 => ahead[at[j]] = 0
             /\ j # 0 => ahead[at[j]] = EndAt(k, ahead, at[j - 1])
  <2>1. j \in 0 .. OrderCapacity
    BY <1>1, <1>3
  <2>2. On(k, R, s, l, at[j]) /\ (j = 0 => ahead[at[j]] = 0)
    BY <1>3, <2>1 DEF IsQueue
  <2>3. at[j] \in R
    BY <2>2 DEF On
  <2>4. j # 0 => ahead[at[j]] = EndAt(k, ahead, at[j - 1])
    <3> SUFFICES ASSUME j # 0 PROVE ahead[at[j]] = EndAt(k, ahead, at[j - 1])
      OBVIOUS
    <3>1. j - 1 \in 0 .. OrderCapacity /\ (j - 1) + 1 < m /\ (j - 1) + 1 = j
      BY <1>1, <1>3, <2>1
    <3>2. ahead[at[(j - 1) + 1]] = EndAt(k, ahead, at[j - 1])
      BY <3>1 DEF IsQueue
    <3> QED
      BY <3>1, <3>2
  <2> QED
    BY <2>2, <2>3, <2>4, PlaceFields
<1> DEFINE g == [j \in 0 .. m |-> IF j = 0 THEN 0 ELSE EndAt(k, ahead, at[j - 1])]
<1>4. ASSUME NEW j \in 0 .. m, j # 0
      PROVE  g[j] = g[j - 1] + k.nodes[q[j]].remaining
  <2>1. j - 1 \in 0 .. m /\ j - 1 < m /\ j \in 1 .. m
    BY <1>1, <1>4
  <2>2. g[j] = EndAt(k, ahead, at[j - 1]) /\ q[j] = at[j - 1]
    BY <1>2, <1>4, <2>1
  <2>3. g[j - 1] = ahead[at[j - 1]]
    <3>1. CASE j - 1 = 0
      BY <1>3, <2>1, <3>1
    <3>2. CASE j - 1 # 0
      BY <1>3, <2>1, <3>2
    <3> QED
      BY <3>1, <3>2
  <2> HIDE DEF g
  <2> QED
    BY <1>3, <2>1, <2>2, <2>3
<1>5. IsSum(k.nodes, q, g)
  <2>1. g = [j \in 0 .. m |-> g[j]] /\ g[0] = 0
    BY <1>1
  <2> HIDE DEF g
  <2>2. \A j \in 0 .. m : g[j] = IF j = 0 THEN 0 ELSE g[j - 1] + k.nodes[q[j]].remaining
    BY <1>4, <2>1
  <2> QED
    BY Zenon, <1>2, <2>1, <2>2 DEF IsSum
<1>6. g[m] = IF m = 0 THEN 0 ELSE EndAt(k, ahead, at[m - 1])
  BY <1>1
<1> HIDE DEF g
<1>7. IsSum(k.nodes, q, sum)
  BY <1>5
<1>8. \A j \in 0 .. m : sum[j] = IF j = 0 THEN 0 ELSE sum[j - 1] + k.nodes[q[j]].remaining
  <2>1. sum = [j \in 0 .. m |-> IF j = 0 THEN 0 ELSE sum[j - 1] + k.nodes[q[j]].remaining]
    BY <1>2, <1>7, Zenon DEF IsSum
  <2> QED
    BY <2>1, Zenon
<1> DEFINE S == {j \in 0 .. m : sum[j] = g[j]}
<1>9. 0 \in S
  <2>1. g[0] = 0
    BY <1>1 DEF g
  <2> QED
    BY <1>1, <1>8, <2>1
<1>10. ASSUME NEW j \in 0 .. m, j < m, j \in S PROVE j + 1 \in S
  <2>1. j + 1 \in 0 .. m /\ j + 1 # 0 /\ (j + 1) - 1 = j
    BY <1>1, <1>10
  <2>2. sum[j + 1] = sum[j] + k.nodes[q[j + 1]].remaining
    BY <1>8, <2>1
  <2>3. g[j + 1] = g[j] + k.nodes[q[j + 1]].remaining
    BY <1>4, <2>1
  <2> QED
    BY <1>10, <2>1, <2>2, <2>3
<1> HIDE DEF S
<1>11. m \in S
  BY <1>1, <1>9, <1>10, UpTo
<1> QED
  BY <1>2, <1>6, <1>11 DEF S

\* What one level promises.
LevelIsExact(side, level) ==
    LET q == Queue(side, level)
        sum[k \in 0 .. Len(q)] == IF k = 0 THEN 0 ELSE sum[k - 1] + b.nodes[q[k]].remaining
    IN  /\ b.levels[side][level].total = sum[Len(q)]
        /\ level \in b.bitmap[side] <=> q # <<>>

LEMMA LevelExact ==
    ASSUME NEW U, NEW R, NEW ahead, NEW depth, BookOK(b, U, R, ahead, depth),
           NEW s \in Sides, NEW l \in LevelIndices
    PROVE  LevelIsExact(s, l)
<1>1. IsBook(b) /\ Resting(b, R, ahead) /\ OrderCapacity \in Nat
  BY DenseAssumption DEF BookOK
<1> DEFINE v == b.levels[s][l]
           at == CHOOSE g : IsWalk(b.nodes, "next", v.head, OrderCapacity, g)
           q == Queue(s, l)
           sum == CHOOSE g : IsSum(b.nodes, q, g)
<1>2. q = Trail(at, Cardinality({j \in 0 .. OrderCapacity : at[j] # kInvalid}))
  BY Zenon DEF Queue, Along, Walk, Forward, IsWalk, Trail
<1>3. LevelIsExact(s, l) <=> (v.total = sum[Len(q)] /\ (l \in b.bitmap[s] <=> q # <<>>))
  BY Zenon DEF LevelIsExact, IsSum
<1>4. IsWalk(b.nodes, "next", v.head, OrderCapacity, at)
  BY <1>1, WalkExists
<1> HIDE DEF at, q, sum
<1>5. Steps(b.nodes, "next", v.head, OrderCapacity, at)
  BY <1>1, <1>4, WalkSteps
<1>6. PICK m : IsQueue(b, R, ahead, s, l, at, m)
  BY <1>1, <1>5, QueueWalk
<1>7. m \in 0 .. OrderCapacity /\ \A j \in 0 .. OrderCapacity : at[j] # kInvalid <=> j < m
  BY <1>6 DEF IsQueue
<1>8. q = Trail(at, m)
  BY <1>2, <1>7, WalkLength
<1>9. sum[Len(q)] = IF m = 0 THEN 0 ELSE EndAt(b, ahead, at[m - 1])
  BY <1>1, <1>6, <1>8, QueueSum DEF sum
<1>10. v.head = kInvalid <=> m = 0
  <2>1. at[0] = v.head /\ 0 \in 0 .. OrderCapacity
    BY <1>1, <1>5 DEF Steps
  <2> QED
    BY <1>7, <2>1
<1>11. q = <<>> <=> m = 0
  <2>1. DOMAIN q = 1 .. m /\ m \in Nat
    BY <1>1, <1>7, <1>8 DEF Trail
  <2>2. CASE m = 0
    BY <1>8, <2>2 DEF Trail
  <2>3. CASE m # 0
    <3>1. 1 \in DOMAIN q
      BY <2>1, <2>3
    <3> QED
      BY <2>3, <3>1
  <2> QED
    BY <2>2, <2>3
<1>12. l \in b.bitmap[s] <=> v.head # kInvalid
  BY <1>1 DEF Resting, Bits
<1>13. v.total = sum[Len(q)]
  <2>1. CASE m = 0
    BY <1>1, <1>9, <1>10, <2>1 DEF Resting, Places
  <2>2. CASE m # 0
    <3>1. PICK j : j = m - 1
      OBVIOUS
    <3>2. j \in 0 .. OrderCapacity /\ j < m /\ j + 1 = m
      BY <1>1, <1>7, <2>2, <3>1
    <3>3. On(b, R, s, l, at[j]) /\ b.nodes[at[j]].next = kInvalid
      BY <1>6, <3>2 DEF IsQueue
    <3>4. LevelOf(b, at[j]).total = EndAt(b, ahead, at[j]) /\ LevelOf(b, at[j]) = v
      BY <1>1, <3>3 DEF Resting, Places, PlaceOK, On, LevelOf
    <3> QED
      BY <1>9, <2>2, <3>1, <3>4
  <2> QED
    BY <2>1, <2>2
<1> QED
  BY <1>3, <1>10, <1>11, <1>12, <1>13

LEMMA DepthExact == DenseInv => DepthIsExact
<1> SUFFICES ASSUME DenseInv PROVE DepthIsExact
  OBVIOUS
<1>1. PICK U, R, ahead, depth : BookOK(b, U, R, ahead, depth)
  BY DEF DenseInv, InvOf
<1>2. \A s \in Sides : \A l \in LevelIndices : LevelIsExact(s, l)
  BY <1>1, LevelExact
<1>3. \A s \in Sides : b.best[s] = FindBest(s, b.bitmap[s])
  BY <1>1 DEF BookOK, Resting, Bits
<1> QED
  BY <1>2, <1>3, Zenon DEF DepthIsExact, LevelIsExact

\* The pool never leaks an order, and active_orders() is the number of the
\* orders in the book, whatever the callers ask of it: every node is on the
\* free list once or indexed under its own id.
THEOREM PoolNeverLeaks == DenseSpec => []PoolIsExact
BY DenseInvariant, PoolExact, PTL

\* level_quantity is the sum of what remains of the level's orders, and the
\* bitmap and the best levels are those of the levels with orders, after
\* every append, unlink, unlink_filled, reduction and trade.
THEOREM DepthFollowsQueues == DenseSpec => []DepthIsExact
BY DenseInvariant, DepthExact, PTL

-----------------------------------------------------------------------------
(***************************************************************************)
(* Queues as sequences.  Line(k, s, l) is Queue(s, l) of any book.         *)
(***************************************************************************)
Line(k, s, l) ==
    LET at == CHOOSE g : IsWalk(k.nodes, "next", k.levels[s][l].head, OrderCapacity, g)
    IN  Trail(at, Cardinality({j \in 0 .. OrderCapacity : at[j] # kInvalid}))

\* A sequence of nodes that follows the links from the head to the end.
Chain(k, s, l, q) ==
    LET n == Len(q)
    IN  /\ q \in Seq(Pool)
        /\ n = 0 => k.levels[s][l].head = kInvalid
        /\ n # 0 => q[1] = k.levels[s][l].head /\ k.nodes[q[n]].next = kInvalid
        /\ \A j \in 1 .. n : j < n => k.nodes[q[j]].next = q[j + 1]

LEMMA LineIs ==
    ASSUME NEW k, IsBook(k), NEW R, NEW ahead, Resting(k, R, ahead),
           NEW s \in Sides, NEW l \in LevelIndices, NEW q, q = Line(k, s, l)
    PROVE  /\ Chain(k, s, l, q) /\ Len(q) <= OrderCapacity
           /\ \A j \in 1 .. Len(q) : On(k, R, s, l, q[j])
<1>1. OrderCapacity \in Nat /\ R \subseteq Pool
  BY DenseAssumption DEF Resting
<1> DEFINE v == k.levels[s][l]
           at == CHOOSE g : IsWalk(k.nodes, "next", v.head, OrderCapacity, g)
<1>2. q = Trail(at, Cardinality({j \in 0 .. OrderCapacity : at[j] # kInvalid}))
  BY Zenon DEF Line
<1>3. IsWalk(k.nodes, "next", v.head, OrderCapacity, at)
  BY <1>1, WalkExists
<1> HIDE DEF at
<1>4. Steps(k.nodes, "next", v.head, OrderCapacity, at)
  BY <1>1, <1>3, WalkSteps
<1>5. PICK m : IsQueue(k, R, ahead, s, l, at, m)
  BY <1>1, <1>4, QueueWalk
<1>6. /\ m \in 0 .. OrderCapacity /\ \A j \in 0 .. OrderCapacity : at[j] # kInvalid <=> j < m
      /\ \A j \in 0 .. OrderCapacity : j < m => On(k, R, s, l, at[j])
      /\ \A j \in 0 .. OrderCapacity : j + 1 = m => k.nodes[at[j]].next = kInvalid
  BY <1>5 DEF IsQueue
<1>7. q = Trail(at, m)
  BY <1>2, <1>6, WalkLength
<1>8. /\ m \in Nat /\ DOMAIN q = 1 .. m /\ Len(q) = m /\ \A j \in 1 .. m : q[j] = at[j - 1]
      /\ q = [j \in 1 .. m |-> at[j - 1]]
  BY <1>1, <1>6, <1>7 DEF Trail
<1>9. ASSUME NEW j \in 1 .. m PROVE On(k, R, s, l, q[j]) /\ q[j] \in Pool
  <2>1. j - 1 \in 0 .. OrderCapacity /\ j - 1 < m
    BY <1>1, <1>6
  <2> QED
    BY <1>1, <1>6, <1>8, <2>1 DEF On
<1>10. q \in Seq(Pool)
  BY <1>8, <1>9
<1>11. /\ at[0] = v.head
       /\ \A j \in 0 .. OrderCapacity : j < OrderCapacity /\ at[j] # kInvalid =>
             at[j + 1] = k.nodes[at[j]].next
  BY <1>4 DEF Steps
<1>12. m = 0 => v.head = kInvalid
  BY <1>1, <1>6, <1>11
<1>13. m # 0 => q[1] = v.head /\ k.nodes[q[m]].next = kInvalid
  <2> SUFFICES ASSUME m # 0 PROVE q[1] = v.head /\ k.nodes[q[m]].next = kInvalid
    OBVIOUS
  <2>1. m - 1 \in 0 .. OrderCapacity /\ (m - 1) + 1 = m /\ 1 \in 1 .. m /\ m \in 1 .. m
    BY <1>1, <1>6, <1>8
  <2> QED
    BY <1>6, <1>8, <1>11, <2>1
<1>14. ASSUME NEW j \in 1 .. m, j < m PROVE k.nodes[q[j]].next = q[j + 1]
  <2>1. /\ j - 1 \in 0 .. OrderCapacity /\ j - 1 < OrderCapacity /\ j - 1 < m
        /\ j + 1 \in 1 .. m /\ (j + 1) - 1 = j /\ (j - 1) + 1 = j
    BY <1>1, <1>6, <1>8, <1>14
  <2> QED
    BY <1>6, <1>8, <1>11, <2>1
<1>15. Chain(k, s, l, q)
  BY <1>8, <1>10, <1>12, <1>13, <1>14 DEF Chain
<1> QED
  BY <1>1, <1>6, <1>8, <1>9, <1>15

\* There is one such sequence.
LEMMA ChainUnique ==
    ASSUME NEW k, IsBook(k), NEW s \in Sides, NEW l \in LevelIndices,
           NEW q, Chain(k, s, l, q), NEW r, Chain(k, s, l, r)
    PROVE  q = r
<1> DEFINE n == Len(q)
           m == Len(r)
<1>1. q \in Seq(Pool) /\ r \in Seq(Pool) /\ n \in Nat /\ m \in Nat /\ kInvalid \notin Pool
  BY Invalid DEF Chain
<1>2. \A j \in 1 .. n : q[j] \in Pool
  BY <1>1
<1>3. \A j \in 1 .. m : r[j] \in Pool
  BY <1>1
<1>4. /\ n = 0 => k.levels[s][l].head = kInvalid
      /\ n # 0 => q[1] = k.levels[s][l].head /\ k.nodes[q[n]].next = kInvalid
      /\ \A j \in 1 .. n : j < n => k.nodes[q[j]].next = q[j + 1]
  BY DEF Chain
<1>5. /\ m = 0 => k.levels[s][l].head = kInvalid
      /\ m # 0 => r[1] = k.levels[s][l].head /\ k.nodes[r[m]].next = kInvalid
      /\ \A j \in 1 .. m : j < m => k.nodes[r[j]].next = r[j + 1]
  BY DEF Chain
<1> HIDE DEF n, m
<1> DEFINE P(j) == (j < n <=> j < m) /\ (j < n => q[j + 1] = r[j + 1])
           S == {j \in 0 .. n + m : P(j)}
<1>6. 0 \in S
  <2>1. n # 0 => q[1] \in Pool
    BY <1>1, <1>2
  <2>2. m # 0 => r[1] \in Pool
    BY <1>1, <1>3
  <2>3. n = 0 <=> m = 0
    BY <1>1, <1>4, <1>5, <2>1, <2>2
  <2>4. n # 0 => q[1] = r[1]
    BY <1>4, <1>5, <2>3
  <2>5. 0 \in 0 .. n + m
    BY <1>1
  <2>6. P(0)
    BY <1>1, <2>3, <2>4
  <2> QED
    BY <2>5, <2>6
<1>7. ASSUME NEW j \in 0 .. n + m, j < n + m, j \in S PROVE j + 1 \in S
  <2>1. P(j) /\ j + 1 \in 0 .. n + m
    BY <1>1, <1>7
  <2>2. CASE ~(j < n)
    BY <1>1, <2>1, <2>2
  <2>3. CASE j < n
    <3>1. j < m /\ q[j + 1] = r[j + 1] /\ j + 1 \in 1 .. n /\ j + 1 \in 1 .. m
      BY <1>1, <2>1, <2>3
    <3>2. j + 1 < n => k.nodes[q[j + 1]].next = q[(j + 1) + 1] /\ q[(j + 1) + 1] \in Pool
      BY <1>1, <1>2, <1>4, <3>1
    <3>3. j + 1 < m => k.nodes[r[j + 1]].next = r[(j + 1) + 1] /\ r[(j + 1) + 1] \in Pool
      BY <1>1, <1>3, <1>5, <3>1
    <3>4. ~(j + 1 < n) => n = j + 1 /\ k.nodes[q[j + 1]].next = kInvalid
      BY <1>1, <1>4, <3>1
    <3>5. ~(j + 1 < m) => m = j + 1 /\ k.nodes[r[j + 1]].next = kInvalid
      BY <1>1, <1>5, <3>1
    <3>6. P(j + 1)
      BY <1>1, <3>1, <3>2, <3>3, <3>4, <3>5
    <3> QED
      BY <2>1, <3>6
  <2> QED
    BY <2>2, <2>3
<1> HIDE DEF S
<1>8. \A j \in 0 .. n + m : j \in S
  <2>1. n + m \in Nat
    BY <1>1
  <2> QED
    BY <1>6, <1>7, <2>1, UpTo
<1>9. \A j \in 0 .. n + m : P(j)
  BY <1>8 DEF S
<1>10. n = m
  BY SMTT(20), <1>1, <1>9
<1>11. ASSUME NEW j \in 1 .. n PROVE q[j] = r[j]
  <2>1. j - 1 \in 0 .. n + m /\ j - 1 < n /\ (j - 1) + 1 = j
    BY <1>1
  <2> QED
    BY <1>9, <2>1
<1> QED
  BY <1>1, <1>10, <1>11 DEF n, m

\* A line has every order of its queue, once.
LEMMA LineOnce ==
    ASSUME NEW k, IsBook(k), NEW R, NEW ahead, Resting(k, R, ahead),
           NEW s \in Sides, NEW l \in LevelIndices, NEW q, q = Line(k, s, l),
           NEW i \in 1 .. Len(q), NEW j \in 1 .. Len(q), q[i] = q[j]
    PROVE  i = j
<1> DEFINE n == Len(q)
<1>1. Chain(k, s, l, q) /\ n \in Nat /\ \A m \in 1 .. n : On(k, R, s, l, q[m])
  BY LineIs DEF Chain
<1>2. ASSUME NEW m \in 1 .. n PROVE ahead[q[m]] \in Nat
  BY <1>1, PlaceFields DEF On
<1>3. ASSUME NEW m \in 1 .. n, m < n PROVE ahead[q[m]] < ahead[q[m + 1]]
  <2>1. m + 1 \in 1 .. n
    BY <1>1, <1>3
  <2>2. k.nodes[q[m]].next = q[m + 1]
    BY <1>1, <1>3 DEF Chain
  <2>3. q[m + 1] # kInvalid
    BY <1>1, <2>1, Invalid DEF On, Resting
  <2> QED
    BY <1>1, <2>2, <2>3, QueueStep
<1> HIDE DEF n
<1> DEFINE S == {m \in 0 .. n : \A x \in 1 .. n : x < m => ahead[q[x]] < ahead[q[m]]}
<1>4. 0 \in S
  BY <1>1
<1>5. ASSUME NEW m \in 0 .. n, m < n, m \in S PROVE m + 1 \in S
  <2>1. m + 1 \in 0 .. n /\ m + 1 \in 1 .. n
    BY <1>1, <1>5
  <2>2. ASSUME NEW x \in 1 .. n, x < m + 1 PROVE ahead[q[x]] < ahead[q[m + 1]]
    <3>1. m \in 1 .. n
      BY <1>1, <1>5, <2>2
    <3>2. ahead[q[m]] < ahead[q[m + 1]]
      BY <1>3, <1>5, <3>1
    <3>3. CASE x = m
      BY <3>2, <3>3
    <3>4. CASE x # m
      <4>1. ahead[q[x]] < ahead[q[m]]
        BY <1>1, <1>5, <2>2, <3>4
      <4> QED
        BY <1>2, <2>1, <3>1, <3>2, <4>1
    <3> QED
      BY <3>3, <3>4
  <2> QED
    BY <2>1, <2>2
<1> HIDE DEF S
<1>6. \A m \in 0 .. n : m \in S
  BY <1>1, <1>4, <1>5, UpTo
<1>7. i \in 1 .. n /\ j \in 1 .. n /\ i \in 0 .. n /\ j \in 0 .. n
  BY <1>1 DEF n
<1>8. ~(i < j)
  BY <1>2, <1>6, <1>7 DEF S
<1>9. ~(j < i)
  BY <1>2, <1>6, <1>7 DEF S
<1> QED
  BY <1>1, <1>7, <1>8, <1>9

LEMMA LineCovers ==
    ASSUME NEW k, IsBook(k), NEW R, NEW ahead, Resting(k, R, ahead),
           NEW s \in Sides, NEW l \in LevelIndices, NEW q, q = Line(k, s, l),
           NEW i, On(k, R, s, l, i)
    PROVE  \E j \in 1 .. Len(q) : q[j] = i
<1> DEFINE n == Len(q)
           Missing(x) == On(k, R, s, l, x) /\ \A j \in 1 .. n : q[j] # x
           T == {ahead[x] : x \in {y \in R : Missing(y)}}
<1>1. /\ Chain(k, s, l, q) /\ n \in Nat /\ \A m \in 1 .. n : On(k, R, s, l, q[m])
      /\ R \subseteq Pool /\ kInvalid \notin Pool
  BY LineIs, Invalid DEF Chain, Resting
<1> SUFFICES ASSUME Missing(i) PROVE FALSE
  OBVIOUS
<1>2. i \in R
  BY DEF On
<1>3. T \in SUBSET Nat
  BY PlaceFields
<1>4. T # {}
  BY <1>2
<1>5. PICK a \in T : \A x \in T : a <= x
  BY <1>3, <1>4, LeastNat
<1>6. PICK x \in R : Missing(x) /\ a = ahead[x]
  BY <1>5
<1>7. LinkOK(k, R, x) /\ k.nodes[x].side = s /\ k.nodes[x].level = l /\ On(k, R, s, l, x)
  BY <1>6 DEF Resting, Links, On
<1>8. CASE k.nodes[x].previous = kInvalid
  <2>1. k.levels[s][l].head = x
    BY <1>7, <1>8 DEF LinkOK, LevelOf
  <2>2. n # 0 /\ q[1] = x
    BY <1>1, <1>6, <2>1 DEF Chain
  <2> QED
    BY <1>1, <1>6, <2>2
<1>9. CASE k.nodes[x].previous # kInvalid
  <2>1. PICK y : y = k.nodes[x].previous
    OBVIOUS
  <2>2. y \in R /\ SameQueue(k, x, y) /\ k.nodes[y].next = x
    BY SMTT(20), <1>7, <1>9, <2>1 DEF LinkOK
  <2>3. On(k, R, s, l, y) /\ x # kInvalid
    BY <1>1, <1>7, <2>2 DEF SameQueue, On
  <2>4. ahead[y] < ahead[x] /\ ahead[y] \in Nat /\ ahead[x] \in Nat
    BY <2>2, <2>3, QueueStep
  <2>5. ~Missing(y)
    <3> SUFFICES ASSUME Missing(y) PROVE FALSE
      OBVIOUS
    <3>1. ahead[y] \in T
      BY <2>2
    <3> HIDE DEF T
    <3>2. a <= ahead[y]
      BY <1>5, <3>1
    <3> QED
      BY <1>6, <2>4, <3>2
  <2>6. PICK j \in 1 .. n : q[j] = y
    BY <2>3, <2>5
  <2>7. j < n
    BY <1>1, <2>2, <2>3, <2>6 DEF Chain
  <2>8. q[j + 1] = x /\ j + 1 \in 1 .. n
    BY <1>1, <2>2, <2>6, <2>7 DEF Chain
  <2> QED
    BY <1>6, <2>8
<1> QED
  BY <1>8, <1>9

\* A line is the same where head and links are the same.
LEMMA LineFrame ==
    ASSUME NEW k, IsBook(k), NEW R, NEW ahead, Resting(k, R, ahead),
           NEW u, IsBook(u), NEW Q, NEW then, Resting(u, Q, then),
           NEW s \in Sides, NEW l \in LevelIndices,
           u.levels[s][l].head = k.levels[s][l].head,
           \A i \in R : On(k, R, s, l, i) => u.nodes[i].next = k.nodes[i].next
    PROVE  Line(u, s, l) = Line(k, s, l)
<1>1. PICK q, r : q = Line(k, s, l) /\ r = Line(u, s, l)
  OBVIOUS
<1>2. /\ Chain(k, s, l, q) /\ Chain(u, s, l, r)
      /\ \A j \in 1 .. Len(q) : On(k, R, s, l, q[j])
  BY <1>1, LineIs
<1>3. ASSUME NEW j \in 1 .. Len(q) PROVE u.nodes[q[j]].next = k.nodes[q[j]].next
  BY <1>2 DEF On
<1>4. Chain(u, s, l, q)
  <2>1. Len(q) # 0 => Len(q) \in 1 .. Len(q)
    BY <1>2 DEF Chain
  <2> QED
    BY <1>2, <1>3, <2>1 DEF Chain
<1> QED
  BY <1>1, <1>2, <1>4, ChainUnique

\* append puts the order at the end of its line.
LEMMA AppendLine ==
    ASSUME NEW k, IsBook(k), NEW R, NEW ahead, Resting(k, R, ahead),
           NEW i \in Pool \ R, NEW l \in LevelIndices, k.nodes[i].level = l,
           k.nodes[i].next = kInvalid,
           NEW u, IsBook(u), Appended(k, u, i, l), NEW then, Resting(u, R \cup {i}, then),
           NEW s, s = k.nodes[i].side
    PROVE  /\ Line(u, s, l) = Append(Line(k, s, l), i)
           /\ \A r \in Sides : \A m \in LevelIndices :
                 (r # s \/ m # l) => Line(u, r, m) = Line(k, r, m)
<1>1. s \in Sides
  BY NodeFields
<1>2. PICK q : q = Line(k, s, l)
  OBVIOUS
<1>3. PICK p : p = Append(q, i)
  OBVIOUS
<1>4. PICK n : n = Len(q)
  OBVIOUS
<1>5. /\ Chain(k, s, l, q) /\ \A j \in 1 .. n : On(k, R, s, l, q[j])
      /\ q \in Seq(Pool) /\ n \in Nat
  BY <1>1, <1>2, <1>4, LineIs DEF Chain
<1>6. /\ p \in Seq(Pool) /\ Len(p) = n + 1 /\ p[n + 1] = i
      /\ \A j \in 1 .. n : p[j] = q[j]
  BY <1>3, <1>4, <1>5
<1>7. PICK v : v = k.levels[s][l]
  OBVIOUS
<1>8. /\ v.tail = kInvalid <=> v.head = kInvalid
      /\ v.tail # kInvalid => On(k, R, s, l, v.tail) /\ k.nodes[v.tail].next = kInvalid
  <2>1. /\ v.tail = kInvalid <=> v.head = kInvalid
        /\ v.tail # kInvalid =>
             /\ v.tail \in R /\ k.nodes[v.tail].next = kInvalid
             /\ k.nodes[v.tail].side = s /\ k.nodes[v.tail].level = l
    <3>1. EndsOK(k, R, s, l)
      BY <1>1 DEF Resting, Links
    <3> QED
      BY <1>7, <3>1 DEF EndsOK
  <2> QED
    BY <2>1 DEF On
<1>9. /\ u.nodes[i].next = kInvalid
      /\ u.levels[s][l].head = IF v.tail = kInvalid THEN i ELSE v.head
      /\ \A j \in Pool \ {i} : u.nodes[j].next = IF j = v.tail THEN i ELSE k.nodes[j].next
  BY <1>7 DEF Appended
<1>10. n # 0 => q[n] = v.tail
  <2> SUFFICES ASSUME n # 0 PROVE q[n] = v.tail
    OBVIOUS
  <2>1. n \in 1 .. n /\ On(k, R, s, l, q[n]) /\ k.nodes[q[n]].next = kInvalid
    BY <1>4, <1>5 DEF Chain
  <2>2. LevelOf(k, q[n]).tail = q[n]
    BY <2>1 DEF Resting, Links, LinkOK, On
  <2> QED
    BY <1>7, <2>1, <2>2 DEF LevelOf, On
<1>11. n = 0 <=> v.tail = kInvalid
  <2>1. n = 0 => v.head = kInvalid
    BY <1>4, <1>5, <1>7 DEF Chain
  <2>2. n # 0 => v.head = q[1] /\ 1 \in 1 .. n
    BY <1>4, <1>5, <1>7 DEF Chain
  <2>3. n # 0 => v.head # kInvalid
    BY <1>5, <2>2, Invalid DEF On, Resting
  <2> QED
    BY <1>8, <2>1, <2>3
<1>12. ASSUME NEW j \in 1 .. n PROVE q[j] \in Pool \ {i} /\ (q[j] = v.tail <=> j = n)
  <2>1. On(k, R, s, l, q[j]) /\ n # 0
    BY <1>5, <1>12
  <2>2. q[j] \in Pool \ {i}
    BY <2>1 DEF On, Resting
  <2>3. q[j] = v.tail => j = n
    <3>1. n \in 1 .. n /\ q[n] = v.tail
      BY <1>5, <1>10, <2>1
    <3> QED
      BY <1>1, <1>2, <1>4, <3>1, LineOnce
  <2> QED
    BY <1>10, <2>1, <2>2, <2>3
<1>13. ASSUME NEW j \in 1 .. n PROVE u.nodes[p[j]].next = p[j + 1]
  <2>1. u.nodes[q[j]].next = IF j = n THEN i ELSE k.nodes[q[j]].next
    BY <1>9, <1>12
  <2>2. CASE j = n
    BY <1>6, <2>1, <2>2
  <2>3. CASE j # n
    <3>1. j < n /\ j + 1 \in 1 .. n
      BY <1>5, <2>3
    <3>2. k.nodes[q[j]].next = q[j + 1]
      BY <1>4, <1>5, <3>1 DEF Chain
    <3> QED
      BY <1>6, <2>1, <2>3, <3>1, <3>2
  <2> QED
    BY <2>2, <2>3
<1>14. p[1] = u.levels[s][l].head
  <2>1. CASE n = 0
    BY <1>6, <1>9, <1>11, <2>1
  <2>2. CASE n # 0
    <3>1. 1 \in 1 .. n /\ q[1] = v.head
      BY <1>4, <1>5, <1>7, <2>2 DEF Chain
    <3> QED
      BY <1>6, <1>9, <1>11, <2>2, <3>1
  <2> QED
    BY <2>1, <2>2
<1>15. Chain(u, s, l, p)
  <2>1. \A j \in 1 .. n + 1 : j < n + 1 => j \in 1 .. n
    BY <1>5
  <2>2. n + 1 # 0 /\ u.nodes[p[n + 1]].next = kInvalid
    BY <1>5, <1>6, <1>9
  <2> QED
    BY <1>6, <1>13, <1>14, <2>1, <2>2 DEF Chain
<1>16. Chain(u, s, l, Line(u, s, l))
  BY <1>1, LineIs
<1>17. Line(u, s, l) = p
  BY <1>1, <1>15, <1>16, ChainUnique
<1>18. ASSUME NEW r \in Sides, NEW m \in LevelIndices, r # s \/ m # l
       PROVE  Line(u, r, m) = Line(k, r, m)
  <2>1. u.levels[r][m].head = k.levels[r][m].head
    BY <1>18 DEF Appended
  <2>2. ASSUME NEW j \in R, On(k, R, r, m, j) PROVE u.nodes[j].next = k.nodes[j].next
    <3>1. j \in Pool \ {i}
      BY DEF Resting
    <3>2. j # v.tail
      BY <1>8, <1>18, <2>2, <3>1, Invalid DEF On
    <3> QED
      BY <1>9, <3>1, <3>2
  <2> QED
    BY SMTT(20), <2>1, <2>2, LineFrame
<1> QED
  BY <1>2, <1>3, <1>17, <1>18

RemovedAt(q, j) == [n \in 1 .. Len(q) - 1 |-> IF n < j THEN q[n] ELSE q[n + 1]]

\* unlink takes the order out of its line, and the others keep their order.
LEMMA UnlinkLine ==
    ASSUME NEW k, IsBook(k), NEW R, NEW ahead, Resting(k, R, ahead), NEW i \in R,
           NEW u, IsBook(u), Bypassed(k, u, i), NEW then, Resting(u, R \ {i}, then),
           NEW s, s = k.nodes[i].side, NEW l, l = k.nodes[i].level,
           NEW j \in 1 .. Len(Line(k, s, l)), Line(k, s, l)[j] = i
    PROVE  /\ Line(u, s, l) = RemovedAt(Line(k, s, l), j)
           /\ \A r \in Sides : \A m \in LevelIndices :
                 (r # s \/ m # l) => Line(u, r, m) = Line(k, r, m)
<1>1. /\ s \in Sides /\ l \in LevelIndices /\ i \in Pool /\ R \subseteq Pool
      /\ On(k, R, s, l, i) /\ kInvalid \notin Pool
  BY NodeFields, OrdersOccupy, Invalid DEF Resting, On
<1>2. PICK q : q = Line(k, s, l)
  OBVIOUS
<1>3. PICK n : n = Len(q)
  OBVIOUS
<1>4. /\ Chain(k, s, l, q) /\ (\A x \in 1 .. n : On(k, R, s, l, q[x]))
      /\ q \in Seq(Pool) /\ n \in Nat
  BY <1>1, <1>2, <1>3, LineIs DEF Chain
<1>5. j \in 1 .. n /\ q[j] = i
  BY <1>2, <1>3
<1>6. PICK prev, next : prev = k.nodes[i].previous /\ next = k.nodes[i].next
  OBVIOUS
<1>7. /\ n # 0 /\ q[1] = k.levels[s][l].head /\ k.nodes[q[n]].next = kInvalid
      /\ \A x \in 1 .. n : x < n => k.nodes[q[x]].next = q[x + 1]
  BY <1>3, <1>4, <1>5 DEF Chain
<1>8. j = 1 => prev = kInvalid
  <2>1. EndsOK(k, R, s, l)
    BY <1>1 DEF Resting, Links
  <2> QED
    BY <1>1, <1>5, <1>6, <1>7, <2>1 DEF EndsOK
<1>9. j # 1 => prev = q[j - 1] /\ j - 1 \in 1 .. n
  <2> SUFFICES ASSUME j # 1 PROVE prev = q[j - 1] /\ j - 1 \in 1 .. n
    OBVIOUS
  <2>1. PICK x : x = j - 1
    OBVIOUS
  <2>2. x \in 1 .. n /\ x < n /\ x + 1 = j
    BY <1>4, <1>5, <2>1
  <2>3. k.nodes[q[x]].next = i /\ q[x] \in R
    BY <1>4, <1>5, <1>7, <2>2 DEF On
  <2>4. k.nodes[i].previous = q[x]
    BY <1>1, <2>3 DEF Resting, Links, LinkOK
  <2> QED
    BY <1>6, <2>1, <2>2, <2>4
<1>10. next = IF j = n THEN kInvalid ELSE q[j + 1]
  BY <1>4, <1>5, <1>6, <1>7
<1>11. ASSUME NEW x \in 1 .. n PROVE q[x] \in Pool /\ q[x] # kInvalid
  BY <1>1, <1>4 DEF On
<1>12. ASSUME NEW x \in 1 .. n, NEW y \in 1 .. n, q[x] = q[y] PROVE x = y
  BY <1>1, <1>2, <1>3, <1>12, LineOnce
<1>13. /\ u.levels[s][l].head = IF prev = kInvalid THEN next ELSE q[1]
       /\ \A x \in Pool \ {i} : u.nodes[x].next = IF x = prev THEN next ELSE k.nodes[x].next
  BY <1>6, <1>7 DEF Bypassed
<1>14. ASSUME NEW x \in 1 .. n, x # j
       PROVE  u.nodes[q[x]].next = IF x + 1 = j THEN next ELSE k.nodes[q[x]].next
  <2>1. q[x] \in Pool \ {i}
    BY <1>5, <1>11, <1>12, <1>14
  <2>2. q[x] = prev <=> x + 1 = j
    <3>1. CASE j = 1
      BY <1>4, <1>8, <1>11, <3>1
    <3>2. CASE j # 1
      BY <1>4, <1>9, <1>12, <3>2
    <3> QED
      BY <3>1, <3>2
  <2> QED
    BY <1>13, <2>1, <2>2
<1>15. PICK p : p = RemovedAt(q, j)
  OBVIOUS
<1>16. n - 1 \in Nat /\ p = [x \in 1 .. n - 1 |-> IF x < j THEN q[x] ELSE q[x + 1]]
  BY <1>3, <1>4, <1>7, <1>15 DEF RemovedAt
<1>17. ASSUME NEW x \in 1 .. n - 1
       PROVE  p[x] = (IF x < j THEN q[x] ELSE q[x + 1]) /\ x \in 1 .. n /\ x + 1 \in 1 .. n
  BY <1>4, <1>16
<1>18. p \in Seq(Pool) /\ Len(p) = n - 1
  <2>1. \A x \in 1 .. n - 1 : p[x] \in Pool
    BY <1>11, <1>17
  <2> QED
    BY <1>16, <2>1
<1>19. n - 1 = 0 => u.levels[s][l].head = kInvalid
  BY <1>4, <1>5, <1>8, <1>10, <1>13
<1>20. n - 1 # 0 => p[1] = u.levels[s][l].head /\ u.nodes[p[n - 1]].next = kInvalid
  <2> SUFFICES ASSUME n - 1 # 0
               PROVE  p[1] = u.levels[s][l].head /\ u.nodes[p[n - 1]].next = kInvalid
    OBVIOUS
  <2>1. 1 \in 1 .. n - 1 /\ n - 1 \in 1 .. n - 1 /\ (n - 1) + 1 = n
    BY <1>4, <1>16
  <2>2. p[1] = (IF 1 < j THEN q[1] ELSE q[2]) /\ p[n - 1] = (IF n - 1 < j THEN q[n - 1] ELSE q[n])
    BY <1>17, <2>1
  <2>3. p[1] = u.levels[s][l].head
    <3>1. CASE j = 1
      BY <1>4, <1>8, <1>10, <1>13, <2>1, <2>2, <3>1
    <3>2. CASE j # 1
      BY <1>5, <1>9, <1>11, <1>13, <2>2, <3>2
    <3> QED
      BY <3>1, <3>2
  <2>4. u.nodes[p[n - 1]].next = kInvalid
    <3>1. n - 1 \in 1 .. n /\ n \in 1 .. n
      BY <1>4, <2>1
    <3>2. CASE j = n
      <4>1. p[n - 1] = q[n - 1] /\ n - 1 # j
        BY <1>4, <2>2, <3>2
      <4>2. u.nodes[q[n - 1]].next = next
        BY <1>14, <2>1, <3>1, <3>2, <4>1
      <4> QED
        BY <1>10, <3>2, <4>1, <4>2
    <3>3. CASE j # n
      <4>1. p[n - 1] = q[n] /\ n + 1 # j
        BY <1>4, <1>5, <2>2, <3>3
      <4>2. u.nodes[q[n]].next = k.nodes[q[n]].next
        BY <1>14, <3>1, <3>3, <4>1
      <4> QED
        BY <1>7, <4>1, <4>2
    <3> QED
      BY <3>2, <3>3
  <2> QED
    BY <2>3, <2>4
<1>21. ASSUME NEW x \in 1 .. n - 1, x < n - 1 PROVE u.nodes[p[x]].next = p[x + 1]
  <2>1. /\ x \in 1 .. n /\ x + 1 \in 1 .. n - 1 /\ x + 1 \in 1 .. n /\ (x + 1) + 1 \in 1 .. n
        /\ x < n /\ x + 1 < n
    BY <1>4, <1>21
  <2>2. /\ p[x] = (IF x < j THEN q[x] ELSE q[x + 1])
        /\ p[x + 1] = (IF x + 1 < j THEN q[x + 1] ELSE q[(x + 1) + 1])
    BY <1>17, <2>1
  <2>3. CASE x + 1 < j
    <3>1. p[x] = q[x] /\ p[x + 1] = q[x + 1] /\ x # j /\ x + 1 # j
      BY <1>4, <1>5, <2>1, <2>2, <2>3
    <3> QED
      BY <1>7, <1>14, <2>1, <3>1
  <2>4. CASE x + 1 = j
    <3>1. p[x] = q[x] /\ p[x + 1] = q[j + 1] /\ x # j /\ j # n
      BY <1>4, <1>5, <2>1, <2>2, <2>4
    <3>2. u.nodes[q[x]].next = next
      BY <1>14, <2>1, <2>4, <3>1
    <3> QED
      BY <1>10, <3>1, <3>2
  <2>5. CASE x + 1 > j
    <3>1. PICK y : y = x + 1
      OBVIOUS
    <3>2. p[x] = q[y] /\ p[x + 1] = q[y + 1] /\ y # j /\ y + 1 # j /\ y \in 1 .. n /\ y < n
      BY <1>4, <1>5, <2>1, <2>2, <2>5, <3>1
    <3> QED
      BY <1>7, <1>14, <3>2
  <2> QED
    BY <1>5, <2>1, <2>3, <2>4, <2>5
<1>22. Chain(u, s, l, p)
  BY <1>18, <1>19, <1>20, <1>21 DEF Chain
<1>23. Chain(u, s, l, Line(u, s, l))
  BY <1>1, LineIs
<1>24. Line(u, s, l) = p
  BY <1>1, <1>22, <1>23, ChainUnique
<1>25. ASSUME NEW r \in Sides, NEW m \in LevelIndices, r # s \/ m # l
       PROVE  Line(u, r, m) = Line(k, r, m)
  <2>1. u.levels[r][m].head = k.levels[r][m].head
    BY <1>25 DEF Bypassed
  <2>2. ASSUME NEW x \in R, On(k, R, r, m, x) PROVE u.nodes[x].next = k.nodes[x].next
    <3>1. x \in Pool \ {i}
      BY <1>1, <1>25, <2>2 DEF On
    <3>2. x # prev
      <4>1. CASE j = 1
        BY <1>1, <1>8, <3>1, <4>1
      <4>2. CASE j # 1
        BY <1>4, <1>9, <1>25, <2>2, <4>2 DEF On
      <4> QED
        BY <4>1, <4>2
    <3> QED
      BY <1>13, <3>1, <3>2
  <2> QED
    BY <2>1, <2>2, LineFrame
<1> QED
  BY <1>2, <1>15, <1>24, <1>25

-----------------------------------------------------------------------------
(***************************************************************************)
(* Prices and levels.                                                      *)
(***************************************************************************)
LEMMA Multiples ==
    ASSUME NEW m \in Int, NEW t \in Nat \ {0}, 0 <= m * t, m * t < t
    PROVE  m = 0
<1>1. m >= 1 => m * t >= t
  OBVIOUS
<1>2. m <= -1 => m * t < 0
  OBVIOUS
<1> QED
  BY <1>1, <1>2

LEMMA LevelPrice ==
    ASSUME NEW l \in LevelIndices
    PROVE  /\ level_price(l) \in GridPrices /\ price_index(level_price(l)) = l
           /\ level_price(l) \in Int /\ level_price(l) > 0
<1>1. /\ l \in Nat /\ TickSize \in Nat \ {0} /\ MinimumPrice \in Nat \ {0} /\ LevelCount \in Nat
      /\ l < LevelCount
  BY DenseAssumption DEF LevelIndices
<1>2. PICK x : x = l * TickSize
  OBVIOUS
<1>3. x \in Nat
  BY <1>1, <1>2
<1>4. PICK d, r : d = x \div TickSize /\ r = x % TickSize
  OBVIOUS
<1>5. d \in Int /\ r \in Int /\ 0 <= r /\ r < TickSize /\ x = d * TickSize + r
  <2>1. TickSize \in Nat /\ TickSize > 0 /\ x \in Int
    BY <1>1, <1>3
  <2>2. x \div TickSize \in Int /\ x % TickSize \in 0 .. TickSize - 1
    BY <2>1
  <2>3. x = TickSize * (x \div TickSize) + (x % TickSize)
    BY <2>1
  <2>4. d \in Int /\ r \in Int /\ 0 <= r /\ r < TickSize /\ x = TickSize * d + r
    BY <1>4, <2>1, <2>2, <2>3
  <2>5. TickSize * d = d * TickSize
    BY <2>1, <2>4
  <2> QED
    BY <2>4, <2>5
<1>6. (l - d) * TickSize = r
  BY <1>1, <1>2, <1>5
<1>7. l - d = 0
  <2>1. PICK m : m = l - d
    OBVIOUS
  <2>2. m \in Int /\ 0 <= m * TickSize /\ m * TickSize < TickSize
    BY <1>1, <1>5, <1>6, <2>1
  <2> QED
    BY <1>1, <2>1, <2>2, Multiples
<1>8. level_price(l) = MinimumPrice + x
  BY <1>2 DEF level_price
<1>9. level_price(l) - MinimumPrice = x
  BY <1>1, <1>3, <1>8
<1>10. price_index(level_price(l)) = d
  BY <1>4, <1>9 DEF price_index
<1>11. d = l
  BY <1>1, <1>5, <1>7
<1> QED
  BY <1>1, <1>3, <1>8, <1>10, <1>11 DEF GridPrices

LEMMA GridPrice ==
    ASSUME NEW p \in GridPrices
    PROVE  /\ price_index(p) \in LevelIndices /\ level_price(price_index(p)) = p
           /\ p \in Int /\ p > 0
<1>1. PICK l \in LevelIndices : p = level_price(l)
  BY DEF GridPrices
<1> QED
  BY <1>1, LevelPrice

LEMMA OnGridIs ==
    ASSUME NEW price \in Int
    PROVE  OnGrid(price) <=> price \in GridPrices
<1>1. /\ TickSize \in Nat \ {0} /\ MinimumPrice \in Nat \ {0} /\ LevelCount \in Nat
  BY DenseAssumption
<1>2. ASSUME OnGrid(price) PROVE price \in GridPrices
  <2>1. PICK x : x = price - MinimumPrice
    OBVIOUS
  <2>2. x \in Nat /\ x % TickSize = 0
    BY <1>1, <1>2, <2>1 DEF OnGrid
  <2>3. price_index(price) \in LevelIndices /\ price_index(price) = x \div TickSize
    BY <1>2, <2>1, GridLevel DEF price_index
  <2>4. x = TickSize * (x \div TickSize) + (x % TickSize) /\ x \div TickSize \in Int
    BY <1>1, <2>2
  <2>5. x = (x \div TickSize) * TickSize
    BY <1>1, <2>2, <2>4
  <2>6. level_price(price_index(price)) = price
    BY <1>1, <2>1, <2>3, <2>5 DEF level_price
  <2> QED
    BY <2>3, <2>6 DEF GridPrices
<1>3. ASSUME price \in GridPrices PROVE OnGrid(price)
  <2>1. PICK l \in LevelIndices : price = level_price(l)
    BY <1>3 DEF GridPrices
  <2>2. price_index(price) = l /\ l \in Nat /\ l < LevelCount
    BY <1>1, <2>1, LevelPrice DEF LevelIndices
  <2>3. PICK x : x = price - MinimumPrice
    OBVIOUS
  <2>4. x = l * TickSize /\ x \in Nat /\ x \div TickSize = l
    BY <1>1, <2>1, <2>2, <2>3 DEF level_price, price_index
  <2>5. x = TickSize * (x \div TickSize) + (x % TickSize) /\ x % TickSize \in Int
    BY <1>1, <2>4
  <2>6. x % TickSize = 0
    <3>1. TickSize * l = l * TickSize /\ TickSize * l \in Int
      BY <1>1, <2>2
    <3> QED
      BY <2>4, <2>5, <3>1
  <2> QED
    BY <1>1, <2>2, <2>3, <2>4, <2>6 DEF OnGrid, price_index
<1> QED
  BY <1>2, <1>3

\* Prices are ordered as their levels.
LEMMA PriceOrder ==
    ASSUME NEW l \in LevelIndices, NEW m \in LevelIndices
    PROVE  level_price(l) <= level_price(m) <=> l <= m
<1>1. /\ l \in Nat /\ m \in Nat /\ TickSize \in Nat \ {0} /\ MinimumPrice \in Nat
  BY DenseAssumption DEF LevelIndices
<1>2. /\ l * TickSize \in Int /\ m * TickSize \in Int
      /\ (m - l) * TickSize = m * TickSize - l * TickSize
  BY <1>1
<1>3. PICK d : d = m - l
  OBVIOUS
<1>4. d >= 0 => d * TickSize >= 0
  BY <1>1, <1>3
<1>5. d < 0 => d * TickSize < 0
  BY <1>1, <1>3
<1> QED
  BY <1>1, <1>2, <1>3, <1>4, <1>5 DEF level_price

-----------------------------------------------------------------------------
(***************************************************************************)
(* The queues as the reference book keeps them.                            *)
(***************************************************************************)
Entry(k, i) == [id |-> k.nodes[i].id, remaining |-> k.nodes[i].remaining]
EntryType == [id : OrderIds \cup {NoId}, remaining : Int]
Entries(k, s, l) == [j \in 1 .. Len(Line(k, s, l)) |-> Entry(k, Line(k, s, l)[j])]
ViewOf(k) == [s \in Sides |-> [p \in GridPrices |-> Entries(k, s, price_index(p))]]

LEMMA ViewIs == View = ViewOf(b)
<1>1. ASSUME NEW s \in Sides, NEW l PROVE Queue(s, l) = Line(b, s, l)
  BY Zenon DEF Queue, Along, Walk, Forward, IsWalk, Line, Trail
<1>2. ASSUME NEW s \in Sides, NEW p \in GridPrices
      PROVE  (LET q == Queue(s, price_index(p))
              IN  [k \in 1 .. Len(q) |-> [id |-> b.nodes[q[k]].id,
                                          remaining |-> b.nodes[q[k]].remaining]]) =
               Entries(b, s, price_index(p))
  BY Zenon, <1>1 DEF Entries, Entry
<1> QED
  BY Zenon, <1>2 DEF View, ViewOf

LEMMA ViewIsNext == (View = ViewOf(b))'
BY ViewIs, PTL

LEMMA EntriesIs ==
    ASSUME NEW k, IsBook(k), NEW R, NEW ahead, Resting(k, R, ahead),
           NEW s \in Sides, NEW l \in LevelIndices, NEW e, e = Entries(k, s, l),
           NEW q, q = Line(k, s, l)
    PROVE  /\ Len(q) \in Nat /\ Len(e) = Len(q) /\ DOMAIN e = 1 .. Len(q)
           /\ e = [j \in 1 .. Len(q) |-> Entry(k, q[j])]
           /\ \A j \in 1 .. Len(q) : e[j] = Entry(k, q[j])
           /\ e \in Seq(EntryType)
<1>1. q \in Seq(Pool) /\ Len(q) \in Nat /\ \A j \in 1 .. Len(q) : q[j] \in Pool
  BY LineIs DEF Chain
<1>2. e = [j \in 1 .. Len(q) |-> Entry(k, q[j])]
  BY Zenon DEF Entries
<1>3. DOMAIN e = 1 .. Len(q) /\ Len(e) = Len(q) /\ \A j \in 1 .. Len(q) : e[j] = Entry(k, q[j])
  BY <1>1, <1>2
<1>4. \A i \in Pool : Entry(k, i) \in EntryType
  BY NodeFields DEF Entry, EntryType
<1>5. e \in Seq(EntryType)
  BY <1>1, <1>2, <1>4
<1> QED
  BY <1>1, <1>2, <1>3, <1>5

\* The view at a price, and a view with one queue written.
LEMMA ViewAt ==
    ASSUME NEW k, NEW s \in Sides, NEW l \in LevelIndices
    PROVE  ViewOf(k)[s][level_price(l)] = Entries(k, s, l)
<1>1. level_price(l) \in GridPrices /\ price_index(level_price(l)) = l
  BY LevelPrice
<1> QED
  BY <1>1 DEF ViewOf

Written(v, s, p, X) == [v EXCEPT ![s][p] = X]

Rewritten(k, u, s, l, X) ==
    /\ Entries(u, s, l) = X
    /\ \A r \in Sides : \A m \in LevelIndices :
          (r # s \/ m # l) => Entries(u, r, m) = Entries(k, r, m)

LEMMA ViewWrite ==
    ASSUME NEW k, NEW u, NEW s \in Sides, NEW l \in LevelIndices, NEW X, Rewritten(k, u, s, l, X)
    PROVE  ViewOf(u) = Written(ViewOf(k), s, level_price(l), X)
<1> DEFINE v == ViewOf(k)
           c == level_price(l)
           w == [v EXCEPT ![s][c] = X]
<1>1. c \in GridPrices /\ price_index(c) = l
  BY LevelPrice
<1>2. v = [r \in Sides |-> [p \in GridPrices |-> Entries(k, r, price_index(p))]]
  BY DEF ViewOf
<1>3. w = [r \in Sides |-> IF r = s THEN [v[s] EXCEPT ![c] = X] ELSE v[r]]
  BY <1>2
<1>4. ASSUME NEW r \in Sides, NEW p \in GridPrices
      PROVE  Entries(u, r, price_index(p)) = w[r][p]
  <2>1. price_index(p) \in LevelIndices /\ level_price(price_index(p)) = p
    BY GridPrice
  <2>2. CASE r = s /\ p = c
    <3>1. w[r][p] = X
      BY <1>1, <1>2, <2>2
    <3> QED
      BY <1>1, <2>2, <3>1 DEF Rewritten
  <2>3. CASE r # s \/ p # c
    <3>1. w[r][p] = Entries(k, r, price_index(p))
      BY <1>1, <1>2, <2>3
    <3>2. r # s \/ price_index(p) # l
      BY <1>1, <2>1, <2>3
    <3> QED
      BY <2>1, <3>1, <3>2 DEF Rewritten
  <2> QED
    BY <2>2, <2>3
<1>5. w = [r \in Sides |-> [p \in GridPrices |-> w[r][p]]]
  BY <1>1, <1>2
<1> HIDE DEF w
<1>6. ViewOf(u) = w
  BY <1>4, <1>5 DEF ViewOf
<1> QED
  BY <1>6 DEF w, Written

LEMMA ViewKept ==
    ASSUME NEW k, NEW u,
           \A r \in Sides : \A m \in LevelIndices : Entries(u, r, m) = Entries(k, r, m)
    PROVE  ViewOf(u) = ViewOf(k)
<1>1. \A p \in GridPrices : price_index(p) \in LevelIndices
  BY GridPrice
<1> QED
  BY <1>1 DEF ViewOf

LEMMA EntriesFrame ==
    ASSUME NEW k, IsBook(k), NEW R, NEW ahead, Resting(k, R, ahead), NEW u,
           NEW s \in Sides, NEW l \in LevelIndices, Line(u, s, l) = Line(k, s, l),
           \A i \in R : On(k, R, s, l, i) => Entry(u, i) = Entry(k, i)
    PROVE  Entries(u, s, l) = Entries(k, s, l)
<1>1. PICK q : q = Line(k, s, l)
  OBVIOUS
<1>2. \A j \in 1 .. Len(q) : On(k, R, s, l, q[j])
  BY <1>1, LineIs
<1>3. \A j \in 1 .. Len(q) : Entry(u, q[j]) = Entry(k, q[j])
  BY <1>2 DEF On
<1>4. Entries(u, s, l) = [j \in 1 .. Len(q) |-> Entry(u, q[j])]
  BY Zenon, <1>1 DEF Entries
<1>5. Entries(k, s, l) = [j \in 1 .. Len(q) |-> Entry(k, q[j])]
  BY Zenon, <1>1 DEF Entries
<1> QED
  BY <1>3, <1>4, <1>5

\* allocate, release and what is written into a node that is not at rest.
LEMMA ViewFrame ==
    ASSUME NEW k, IsBook(k), NEW R, NEW ahead, Resting(k, R, ahead),
           NEW u, IsBook(u), NEW then, Resting(u, R, then),
           u.levels = k.levels, \A i \in R : u.nodes[i] = k.nodes[i]
    PROVE  ViewOf(u) = ViewOf(k)
<1>1. ASSUME NEW r \in Sides, NEW m \in LevelIndices PROVE Entries(u, r, m) = Entries(k, r, m)
  <2>1. Line(u, r, m) = Line(k, r, m)
    BY LineFrame
  <2>2. \A i \in R : Entry(u, i) = Entry(k, i)
    BY DEF Entry
  <2> QED
    BY <2>1, <2>2, EntriesFrame
<1> QED
  BY <1>1, ViewKept

LEMMA AppendEntries ==
    ASSUME NEW k, IsBook(k), NEW R, NEW ahead, Resting(k, R, ahead),
           NEW i \in Pool \ R, NEW l \in LevelIndices, k.nodes[i].level = l,
           k.nodes[i].next = kInvalid,
           NEW u, IsBook(u), Appended(k, u, i, l), NEW then, Resting(u, R \cup {i}, then),
           NEW s, s = k.nodes[i].side
    PROVE  Rewritten(k, u, s, l, Append(Entries(k, s, l), Entry(k, i)))
<1>1. /\ Line(u, s, l) = Append(Line(k, s, l), i)
      /\ \A r \in Sides : \A m \in LevelIndices :
            (r # s \/ m # l) => Line(u, r, m) = Line(k, r, m)
  BY AppendLine
<1>2. s \in Sides /\ R \subseteq Pool
  BY NodeFields DEF Resting
<1>3. \A n \in Pool : Entry(u, n) = Entry(k, n)
  BY DEF Appended, SameOrder, Entry
<1>4. PICK q : q = Line(k, s, l)
  OBVIOUS
<1>5. q \in Seq(Pool) /\ Len(q) \in Nat /\ \A j \in 1 .. Len(q) : q[j] \in Pool
  BY <1>2, <1>4, LineIs DEF Chain
<1>6. PICK n : n = Len(q)
  OBVIOUS
<1>7. PICK p : p = Append(q, i)
  OBVIOUS
<1>8. n \in Nat /\ Len(p) = n + 1 /\ p[n + 1] = i /\ \A j \in 1 .. n : p[j] = q[j]
  BY <1>5, <1>6, <1>7
<1>9. Entries(u, s, l) = [j \in 1 .. n + 1 |-> Entry(u, p[j])]
  BY <1>1, <1>4, <1>7, <1>8 DEF Entries
<1>10. PICK e : e = Entries(k, s, l)
  OBVIOUS
<1>11. /\ Len(e) = n /\ \A j \in 1 .. n : e[j] = Entry(k, q[j])
       /\ e \in Seq(EntryType)
  BY <1>2, <1>4, <1>6, <1>10, EntriesIs
<1>12. Append(e, Entry(k, i)) = [j \in 1 .. n + 1 |-> IF j = n + 1 THEN Entry(k, i) ELSE e[j]]
  <2>1. PICK x : x = Entry(k, i)
    OBVIOUS
  <2>2. x \in EntryType
    BY <2>1, NodeFields DEF Entry, EntryType
  <2>3. PICK y : y = Append(e, x)
    OBVIOUS
  <2>4. y \in Seq(EntryType) /\ Len(y) = n + 1 /\ y[n + 1] = x /\ \A j \in 1 .. n : y[j] = e[j]
    BY <1>8, <1>11, <2>2, <2>3
  <2>5. \A j \in 1 .. n + 1 : y[j] = IF j = n + 1 THEN x ELSE e[j]
    BY <1>8, <2>4
  <2>6. y = [j \in 1 .. n + 1 |-> y[j]]
    BY <2>4
  <2> QED
    BY <2>1, <2>3, <2>5, <2>6
<1>13. ASSUME NEW j \in 1 .. n + 1
       PROVE  Entry(u, p[j]) = IF j = n + 1 THEN Entry(k, i) ELSE e[j]
  <2>1. CASE j = n + 1
    BY <1>3, <1>8, <2>1
  <2>2. CASE j # n + 1
    <3>1. j \in 1 .. n
      BY <1>8, <2>2
    <3> QED
      BY <1>3, <1>5, <1>6, <1>8, <1>11, <2>2, <3>1
  <2> QED
    BY <2>1, <2>2
<1>14. Entries(u, s, l) = Append(Entries(k, s, l), Entry(k, i))
  BY <1>9, <1>10, <1>12, <1>13
<1>15. ASSUME NEW r \in Sides, NEW m \in LevelIndices, r # s \/ m # l
       PROVE  Entries(u, r, m) = Entries(k, r, m)
  BY <1>1, <1>2, <1>3, <1>15, EntriesFrame
<1> QED
  BY <1>14, <1>15 DEF Rewritten

\* The place of an order in its line.
LEMMA LineAt ==
    ASSUME NEW k, IsBook(k), NEW R, NEW ahead, Resting(k, R, ahead), NEW i \in R
    PROVE  \E j \in 1 .. Len(Line(k, k.nodes[i].side, k.nodes[i].level)) :
              Line(k, k.nodes[i].side, k.nodes[i].level)[j] = i
<1>1. PICK s, l : s = k.nodes[i].side /\ l = k.nodes[i].level
  OBVIOUS
<1>2. s \in Sides /\ l \in LevelIndices /\ On(k, R, s, l, i)
  BY <1>1, NodeFields, OrdersOccupy DEF Resting, On
<1> QED
  BY <1>1, <1>2, LineCovers

LEMMA UnlinkEntries ==
    ASSUME NEW k, IsBook(k), NEW R, NEW ahead, Resting(k, R, ahead), NEW i \in R,
           NEW u, IsBook(u), Bypassed(k, u, i), NEW then, Resting(u, R \ {i}, then),
           NEW s, s = k.nodes[i].side, NEW l, l = k.nodes[i].level,
           NEW j \in 1 .. Len(Line(k, s, l)), Line(k, s, l)[j] = i
    PROVE  Rewritten(k, u, s, l, RemovedAt(Entries(k, s, l), j))
<1>1. /\ Line(u, s, l) = RemovedAt(Line(k, s, l), j)
      /\ \A r \in Sides : \A m \in LevelIndices :
            (r # s \/ m # l) => Line(u, r, m) = Line(k, r, m)
  BY UnlinkLine
<1>2. s \in Sides /\ l \in LevelIndices /\ R \subseteq Pool
  BY NodeFields, OrdersOccupy DEF Resting
<1>3. \A x \in Pool : x # i => Entry(u, x) = Entry(k, x)
  BY DEF Bypassed, SameOrder, Entry
<1>4. PICK q : q = Line(k, s, l)
  OBVIOUS
<1>5. PICK n : n = Len(q)
  OBVIOUS
<1>6. n \in Nat /\ (\A x \in 1 .. n : q[x] \in Pool) /\ j \in 1 .. n /\ q[j] = i
  BY <1>2, <1>4, <1>5, LineIs DEF Chain
<1>7. \A x \in 1 .. n : x # j => q[x] # i
  BY <1>2, <1>4, <1>5, <1>6, LineOnce
<1>8. PICK p : p = RemovedAt(q, j)
  OBVIOUS
<1>9. /\ p = [x \in 1 .. n - 1 |-> IF x < j THEN q[x] ELSE q[x + 1]]
      /\ n - 1 \in Nat /\ Len(p) = n - 1
  BY <1>5, <1>6, <1>8 DEF RemovedAt
<1>10. Entries(u, s, l) = [x \in 1 .. n - 1 |-> Entry(u, p[x])]
  BY <1>1, <1>4, <1>8, <1>9 DEF Entries
<1>11. PICK e : e = Entries(k, s, l)
  OBVIOUS
<1>12. Len(e) = n /\ \A x \in 1 .. n : e[x] = Entry(k, q[x])
  BY <1>2, <1>4, <1>5, <1>11, EntriesIs
<1>13. RemovedAt(e, j) = [x \in 1 .. n - 1 |-> IF x < j THEN e[x] ELSE e[x + 1]]
  BY <1>12 DEF RemovedAt
<1>14. ASSUME NEW x \in 1 .. n - 1
       PROVE  Entry(u, p[x]) = IF x < j THEN e[x] ELSE e[x + 1]
  <2>1. x \in 1 .. n /\ x + 1 \in 1 .. n
    BY <1>6
  <2>2. CASE x < j
    BY <1>3, <1>6, <1>7, <1>9, <1>12, <2>1, <2>2
  <2>3. CASE ~(x < j)
    <3>1. x + 1 # j
      BY <1>6, <2>3
    <3> QED
      BY <1>3, <1>6, <1>7, <1>9, <1>12, <2>1, <2>3, <3>1
  <2> QED
    BY <2>2, <2>3
<1>15. Entries(u, s, l) = RemovedAt(Entries(k, s, l), j)
  BY <1>10, <1>11, <1>13, <1>14
<1>16. ASSUME NEW r \in Sides, NEW m \in LevelIndices, r # s \/ m # l
       PROVE  Entries(u, r, m) = Entries(k, r, m)
  <2>1. \A x \in R : On(k, R, r, m, x) => Entry(u, x) = Entry(k, x)
    BY <1>2, <1>3, <1>16 DEF On
  <2> QED
    BY <1>1, <1>16, <2>1, EntriesFrame
<1> QED
  BY <1>15, <1>16 DEF Rewritten

\* A reduction changes what remains of the order, where it stands.
LEMMA ReduceEntries ==
    ASSUME NEW k, IsBook(k), NEW R, NEW ahead, Resting(k, R, ahead), NEW i \in R,
           NEW q, NEW u, IsBook(u), Reduced(k, u, i, q), NEW then, Resting(u, R, then),
           NEW s, s = k.nodes[i].side, NEW l, l = k.nodes[i].level,
           NEW j \in 1 .. Len(Line(k, s, l)), Line(k, s, l)[j] = i
    PROVE  Rewritten(k, u, s, l,
              [Entries(k, s, l) EXCEPT ![j].remaining = k.nodes[i].remaining - q])
<1>1. s \in Sides /\ l \in LevelIndices /\ R \subseteq Pool
  BY NodeFields, OrdersOccupy DEF Resting
<1>2. ASSUME NEW r \in Sides, NEW m \in LevelIndices PROVE Line(u, r, m) = Line(k, r, m)
  <2>1. u.levels[r][m].head = k.levels[r][m].head
    BY SMTT(20) DEF Reduced, SameWires
  <2>2. \A x \in R : u.nodes[x].next = k.nodes[x].next
    BY <1>1 DEF Reduced, SameWires
  <2> QED
    BY SMTT(20), <2>1, <2>2, LineFrame
<1>3. \A x \in Pool : x # i => Entry(u, x) = Entry(k, x)
  BY DEF Reduced, Entry
<1>4. Entry(u, i) = [id |-> k.nodes[i].id, remaining |-> k.nodes[i].remaining - q]
  BY <1>1 DEF Reduced, Entry
<1>5. PICK c : c = Line(k, s, l)
  OBVIOUS
<1>6. PICK n : n = Len(c)
  OBVIOUS
<1>7. n \in Nat /\ (\A x \in 1 .. n : c[x] \in Pool) /\ j \in 1 .. n /\ c[j] = i
  BY <1>1, <1>5, <1>6, LineIs DEF Chain
<1>8. \A x \in 1 .. n : x # j => c[x] # i
  BY <1>1, <1>5, <1>6, <1>7, LineOnce
<1>9. Entries(u, s, l) = [x \in 1 .. n |-> Entry(u, c[x])]
  BY <1>1, <1>2, <1>5, <1>6 DEF Entries
<1>10. PICK e : e = Entries(k, s, l)
  OBVIOUS
<1>11. e = [x \in 1 .. n |-> Entry(k, c[x])]
  BY <1>5, <1>6, <1>10 DEF Entries
<1>12. PICK y : y = k.nodes[i].remaining - q
  OBVIOUS
<1>13. [e EXCEPT ![j].remaining = y] = [x \in 1 .. n |-> IF x = j THEN [e[j] EXCEPT !.remaining = y] ELSE e[x]]
  BY <1>7, <1>11
<1>14. [e[j] EXCEPT !.remaining = y] = Entry(u, i)
  BY <1>4, <1>7, <1>11, <1>12 DEF Entry
<1>15. ASSUME NEW x \in 1 .. n
       PROVE  Entry(u, c[x]) = IF x = j THEN [e[j] EXCEPT !.remaining = y] ELSE e[x]
  <2>1. CASE x = j
    BY <1>7, <1>14, <2>1
  <2>2. CASE x # j
    <3>1. Entry(u, c[x]) = Entry(k, c[x])
      BY <1>3, <1>7, <1>8, <2>2
    <3> QED
      BY <1>11, <2>2, <3>1
  <2> QED
    BY <2>1, <2>2
<1>16. Entries(u, s, l) = [Entries(k, s, l) EXCEPT ![j].remaining = k.nodes[i].remaining - q]
  <2>1. Entries(u, s, l) = [e EXCEPT ![j].remaining = y]
    BY <1>9, <1>13, <1>15
  <2> QED
    BY Zenon, <1>10, <1>12, <2>1
<1>17. ASSUME NEW r \in Sides, NEW m \in LevelIndices, r # s \/ m # l
       PROVE  Entries(u, r, m) = Entries(k, r, m)
  <2>1. \A x \in R : On(k, R, r, m, x) => Entry(u, x) = Entry(k, x)
    BY <1>1, <1>3, <1>17 DEF On
  <2> QED
    BY <1>2, <1>17, <2>1, EntriesFrame
<1> QED
  BY <1>16, <1>17 DEF Rewritten

\* The queue of its head.
LEMMA HeadFirst ==
    ASSUME NEW k, IsBook(k), NEW R, NEW ahead, Resting(k, R, ahead),
           NEW s \in Sides, NEW l \in LevelIndices, k.levels[s][l].head # kInvalid
    PROVE  /\ 1 \in 1 .. Len(Line(k, s, l)) /\ Line(k, s, l)[1] = k.levels[s][l].head
           /\ Entries(k, s, l) # <<>> /\ Head(Entries(k, s, l)) = Entry(k, k.levels[s][l].head)
           /\ Tail(Entries(k, s, l)) = RemovedAt(Entries(k, s, l), 1)
<1>1. PICK q, e : q = Line(k, s, l) /\ e = Entries(k, s, l)
  OBVIOUS
<1>2. Chain(k, s, l, q) /\ Len(q) \in Nat
  BY <1>1, LineIs DEF Chain
<1>3. Len(q) # 0 /\ q[1] = k.levels[s][l].head
  BY <1>2 DEF Chain
<1>4. 1 \in 1 .. Len(q)
  BY <1>2, <1>3
<1>5. /\ Len(e) = Len(q) /\ e[1] = Entry(k, q[1])
      /\ e \in Seq(EntryType)
  BY <1>1, <1>4, EntriesIs
<1>6. e # <<>> /\ Head(e) = e[1]
  BY <1>2, <1>3, <1>5
<1>7. Tail(e) = RemovedAt(e, 1)
  <2>1. PICK t : t = Tail(e)
    OBVIOUS
  <2>2. /\ t \in Seq(EntryType) /\ Len(t) = Len(e) - 1
        /\ \A x \in 1 .. Len(e) - 1 : t[x] = e[x + 1]
    BY <1>5, <1>6, <2>1
  <2>3. t = [x \in 1 .. Len(e) - 1 |-> t[x]]
    BY <2>2
  <2>4. \A x \in 1 .. Len(e) - 1 : ~(x < 1)
    OBVIOUS
  <2> QED
    BY <2>1, <2>2, <2>3, <2>4 DEF RemovedAt
<1> QED
  BY <1>1, <1>3, <1>4, <1>5, <1>6, <1>7

LEMMA EmptyLine ==
    ASSUME NEW k, IsBook(k), NEW R, NEW ahead, Resting(k, R, ahead),
           NEW s \in Sides, NEW l \in LevelIndices
    PROVE  Entries(k, s, l) = <<>> <=> k.levels[s][l].head = kInvalid
<1>1. CASE k.levels[s][l].head # kInvalid
  BY <1>1, HeadFirst
<1>2. CASE k.levels[s][l].head = kInvalid
  <2>1. PICK q, e : q = Line(k, s, l) /\ e = Entries(k, s, l)
    OBVIOUS
  <2>2. Chain(k, s, l, q) /\ Len(q) \in Nat /\ q \in Seq(Pool)
    BY <2>1, LineIs DEF Chain
  <2>3. Len(q) = 0
    <3> SUFFICES ASSUME Len(q) # 0 PROVE FALSE
      OBVIOUS
    <3>1. q[1] = kInvalid /\ q[1] \in Pool
      BY <1>2, <2>2 DEF Chain
    <3> QED
      BY <3>1, Invalid
  <2>4. Len(e) = 0 /\ e \in Seq(EntryType)
    BY <2>1, <2>3, EntriesIs
  <2> QED
    BY <1>2, <2>1, <2>4
<1> QED
  BY <1>1, <1>2

-----------------------------------------------------------------------------
(***************************************************************************)
(* What the reference book finds in the view.                              *)
(***************************************************************************)
LEMMA RefPlaces ==
    /\ Reference!Places = {place \in Sides \X GridPrices \X (1 .. OrderCapacity) :
                             place[3] <= Len(view[place[1]][place[2]])}
    /\ \A place : Reference!At(place) = view[place[1]][place[2]][place[3]]
    /\ \A place : Reference!Without(place) =
          Written(view, place[1], place[2], RemovedAt(view[place[1]][place[2]], place[3]))
    /\ Reference!Sides = Sides /\ \A s : Reference!Other(s) = Other(s)
BY Zenon DEF Reference!Places, Reference!Sides, Reference!Other, Reference!At, Reference!Without,
             Sides, Other, RemovedAt, Written

\* A place is that of an order at rest.
LEMMA PlaceNode ==
    ASSUME NEW U, NEW R, NEW ahead, NEW depth, BookOK(b, U, R, ahead, depth), view = ViewOf(b),
           NEW place \in Reference!Places
    PROVE  \E i \in R :
              LET s == b.nodes[i].side
                  l == b.nodes[i].level
              IN  /\ Reference!At(place) = Entry(b, i)
                  /\ place = <<s, level_price(l), place[3]>>
                  /\ place[3] \in 1 .. Len(Line(b, s, l)) /\ Line(b, s, l)[place[3]] = i
<1>1. IsBook(b) /\ Resting(b, R, ahead)
  BY DEF BookOK
<1>2. /\ place \in Sides \X GridPrices \X (1 .. OrderCapacity)
      /\ place[3] <= Len(view[place[1]][place[2]])
      /\ Reference!At(place) = view[place[1]][place[2]][place[3]]
  BY RefPlaces
<1>3. PICK s \in Sides, p \in GridPrices, j \in 1 .. OrderCapacity : place = <<s, p, j>>
  BY <1>2
<1>4. PICK l : l = price_index(p)
  OBVIOUS
<1>5. l \in LevelIndices /\ level_price(l) = p
  BY <1>4, GridPrice
<1>6. view[s][p] = Entries(b, s, l)
  BY <1>5, ViewAt
<1>7. PICK q : q = Line(b, s, l)
  OBVIOUS
<1>8. /\ Len(q) \in Nat /\ Len(Entries(b, s, l)) = Len(q)
      /\ \A x \in 1 .. Len(q) : Entries(b, s, l)[x] = Entry(b, q[x])
  BY <1>1, <1>5, <1>7, EntriesIs
<1>9. place[1] = s /\ place[2] = p /\ place[3] = j
  BY <1>3
<1>10. j \in 1 .. Len(q) /\ Reference!At(place) = Entry(b, q[j])
  <2>1. OrderCapacity \in Nat /\ j <= Len(q)
    BY <1>2, <1>6, <1>8, <1>9, DenseAssumption
  <2>2. j \in 1 .. Len(q)
    BY <1>8, <2>1
  <2> QED
    BY <1>2, <1>6, <1>8, <1>9, <2>2
<1>11. PICK i : i = q[j]
  OBVIOUS
<1>12. On(b, R, s, l, i)
  BY <1>1, <1>5, <1>7, <1>10, <1>11, LineIs
<1>13. i \in R /\ b.nodes[i].side = s /\ b.nodes[i].level = l
  BY <1>12 DEF On
<1> QED
  BY <1>3, <1>5, <1>7, <1>9, <1>10, <1>11, <1>13

\* The place of an order is where its line has it.
LEMMA PlaceIs ==
    ASSUME NEW U, NEW R \in SUBSET U, NEW ahead, NEW depth, BookOK(b, U, R, ahead, depth),
           view = ViewOf(b), NEW i \in R, NEW id, id = b.nodes[i].id,
           NEW s, s = b.nodes[i].side, NEW l, l = b.nodes[i].level,
           NEW j \in 1 .. Len(Line(b, s, l)), Line(b, s, l)[j] = i
    PROVE  /\ s \in Sides /\ l \in LevelIndices /\ level_price(l) \in GridPrices
           /\ Reference!PlaceOf(id) = <<s, level_price(l), j>>
           /\ Reference!At(<<s, level_price(l), j>>) = Entry(b, i)
           /\ view[s][level_price(l)] = Entries(b, s, l)
           /\ id \in Reference!Resting
<1>1. IsBook(b) /\ Resting(b, R, ahead) /\ R \subseteq Pool /\ Pooled(b, U, depth)
  BY DEF BookOK, Resting
<1>2. s \in Sides /\ l \in LevelIndices
  BY <1>1, NodeFields, OrdersOccupy
<1>3. PICK p : p = level_price(l)
  OBVIOUS
<1>4. p \in GridPrices /\ view[s][p] = Entries(b, s, l)
  BY <1>2, <1>3, LevelPrice, ViewAt
<1>5. PICK q : q = Line(b, s, l)
  OBVIOUS
<1>6. Len(q) <= OrderCapacity /\ Len(q) \in Nat
  BY <1>1, <1>2, <1>5, LineIs DEF Chain
<1>7. Len(Entries(b, s, l)) = Len(q) /\ Entries(b, s, l)[j] = Entry(b, i)
  BY <1>1, <1>2, <1>5, EntriesIs
<1>8. PICK place : place = <<s, p, j>>
  OBVIOUS
<1>9. place[1] = s /\ place[2] = p /\ place[3] = j
  BY <1>8
<1>10. Reference!At(place) = Entry(b, i)
  BY <1>4, <1>7, <1>9, RefPlaces
<1>11. place \in Reference!Places
  <2>1. j \in 1 .. OrderCapacity /\ j <= Len(q)
    BY <1>5, <1>6, DenseAssumption
  <2>2. place \in Sides \X GridPrices \X (1 .. OrderCapacity)
    BY <1>2, <1>4, <1>8, <2>1
  <2>3. place[3] <= Len(view[place[1]][place[2]])
    BY <1>4, <1>7, <1>9, <2>1
  <2> QED
    BY <2>2, <2>3, RefPlaces
<1>12. Entry(b, i).id = id
  BY DEF Entry
<1>13. ASSUME NEW other \in Reference!Places, Reference!At(other).id = id PROVE other = place
  <2>1. PICK x \in R :
              /\ Reference!At(other) = Entry(b, x)
              /\ other = <<b.nodes[x].side, level_price(b.nodes[x].level), other[3]>>
              /\ other[3] \in 1 .. Len(Line(b, b.nodes[x].side, b.nodes[x].level))
              /\ Line(b, b.nodes[x].side, b.nodes[x].level)[other[3]] = x
    BY PlaceNode
  <2>2. b.nodes[x].id = id
    BY <1>13, <2>1 DEF Entry
  <2>3. x = i
    BY <1>1, <2>1, <2>2 DEF Pooled, Indexed
  <2>4. other[3] \in 1 .. Len(q) /\ q[other[3]] = q[j]
    BY <1>5, <2>1, <2>3
  <2>5. other[3] = j
    BY <1>1, <1>2, <1>5, <2>4, LineOnce
  <2> QED
    BY <1>3, <1>8, <2>1, <2>3, <2>5
<1>14. Reference!PlaceOf(id) = place
  <2>1. \E other \in Reference!Places : Reference!At(other).id = id
    BY <1>10, <1>11, <1>12
  <2> QED
    BY Zenon, <1>13, <2>1 DEF Reference!PlaceOf
<1>15. id \in Reference!Resting
  BY <1>10, <1>11, <1>12 DEF Reference!Resting
<1> QED
  BY <1>2, <1>3, <1>4, <1>8, <1>10, <1>14, <1>15

\* Between two calls the orders in the queues are those in the index.
LEMMA RestingIs ==
    ASSUME NEW U, NEW ahead, NEW depth, BookOK(b, U, U, ahead, depth), view = ViewOf(b)
    PROVE  Reference!Resting = DOMAIN b.index
<1>1. IsBook(b) /\ Resting(b, U, ahead) /\ Pooled(b, U, depth)
  BY DEF BookOK
<1>2. ASSUME NEW id \in Reference!Resting PROVE id \in DOMAIN b.index
  <2>1. PICK place \in Reference!Places : id = Reference!At(place).id
    BY DEF Reference!Resting
  <2>2. PICK i \in U : Reference!At(place) = Entry(b, i)
    BY PlaceNode
  <2>3. id = b.nodes[i].id
    BY <2>1, <2>2 DEF Entry
  <2> QED
    BY <1>1, <2>3 DEF Pooled, Indexed
<1>3. ASSUME NEW id \in DOMAIN b.index PROVE id \in Reference!Resting
  <2>1. PICK i : i = b.index[id]
    OBVIOUS
  <2>2. i \in U /\ b.nodes[i].id = id
    BY <2>1, KnownNode
  <2>3. PICK s, l : s = b.nodes[i].side /\ l = b.nodes[i].level
    OBVIOUS
  <2>4. PICK j \in 1 .. Len(Line(b, s, l)) : Line(b, s, l)[j] = i
    BY <1>1, <2>2, <2>3, LineAt
  <2>5. U \in SUBSET U /\ id = b.nodes[i].id
    BY <2>2
  <2>6. /\ s \in Sides /\ l \in LevelIndices /\ level_price(l) \in GridPrices
        /\ Reference!PlaceOf(id) = <<s, level_price(l), j>>
        /\ Reference!At(<<s, level_price(l), j>>) = Entry(b, i)
        /\ view[s][level_price(l)] = Entries(b, s, l)
        /\ id \in Reference!Resting
    BY <2>2, <2>3, <2>4, <2>5, PlaceIs
  <2> QED
    BY <2>6
<1> QED
  BY <1>2, <1>3

\* The pool is exhausted when the queues hold the capacity.
LEMMA CapacityIs ==
    ASSUME NEW U, NEW ahead, NEW depth, BookOK(b, U, U, ahead, depth), view = ViewOf(b)
    PROVE  /\ b.free = kInvalid => Cardinality(Reference!Resting) = OrderCapacity
           /\ b.free # kInvalid => /\ Cardinality(Reference!Resting) < OrderCapacity
                                   /\ Cardinality(Reference!Resting) # OrderCapacity
<1>1. FreeList(b, Pool \ U, depth) /\ b.active = Cardinality(DOMAIN b.index) /\ b.active \in Int
  BY DEF BookOK, Pooled, Indexed, IsBook
<1>2. Cardinality(Reference!Resting) = b.active /\ OrderCapacity \in Nat
  BY <1>1, RestingIs, DenseAssumption
<1>3. b.free # kInvalid => 1 <= OrderCapacity - b.active
  BY <1>1 DEF FreeList
<1> QED
  BY <1>1, <1>2, <1>3 DEF FreeList

\* The levels with orders, and the best one.
LEMMA OccupiedIs ==
    ASSUME NEW R, NEW ahead, IsBook(b), Resting(b, R, ahead), view = ViewOf(b), NEW s \in Sides
    PROVE  \A p : p \in Reference!Occupied(s) <=> p \in GridPrices /\ price_index(p) \in b.bitmap[s]
<1>1. \A p \in GridPrices : view[s][p] = Entries(b, s, price_index(p)) /\ price_index(p) \in LevelIndices
  BY GridPrice DEF ViewOf
<1>2. \A l \in LevelIndices : Entries(b, s, l) = <<>> <=> b.levels[s][l].head = kInvalid
  BY EmptyLine
<1>3. \A l \in LevelIndices : l \in b.bitmap[s] <=> b.levels[s][l].head # kInvalid
  BY DEF Resting, Bits
<1> QED
  BY <1>1, <1>2, <1>3 DEF Reference!Occupied

LEMMA BestIs ==
    ASSUME NEW R, NEW ahead, IsBook(b), Resting(b, R, ahead), view = ViewOf(b), NEW s \in Sides
    PROVE  /\ b.best[s] = kInvalid => Reference!Occupied(s) = {}
           /\ b.best[s] # kInvalid => /\ Reference!Occupied(s) # {}
                                      /\ Reference!Best(s) = level_price(b.best[s])
<1>1. \A p : p \in Reference!Occupied(s) <=> p \in GridPrices /\ price_index(p) \in b.bitmap[s]
  BY OccupiedIs
<1>2. b.bitmap[s] \in SUBSET LevelIndices /\ b.best[s] = FindBest(s, b.bitmap[s])
  BY DEF IsBook, Resting, Bits
<1>3. CASE b.bitmap[s] = {}
  BY <1>1, <1>2, <1>3, NoBest
<1>4. CASE b.bitmap[s] # {}
  <2>1. PICK l : l = b.best[s]
    OBVIOUS
  <2>2. Leads(s, l, b.bitmap[s])
    BY <1>2, <1>4, <2>1, FindBestLeads
  <2>3. l \in b.bitmap[s] /\ l \in LevelIndices /\ l # kInvalid
    BY <1>2, <2>2, Invalid DEF Leads
  <2>4. PICK c : c = level_price(l)
    OBVIOUS
  <2>5. c \in GridPrices /\ price_index(c) = l /\ c \in Int
    BY <2>3, <2>4, LevelPrice
  <2>6. c \in Reference!Occupied(s)
    BY <1>1, <2>3, <2>5
  <2>7. ASSUME NEW p \in Reference!Occupied(s) PROVE IF s = "Buy" THEN c >= p ELSE c <= p
    <3>1. PICK m : m = price_index(p)
      OBVIOUS
    <3>2. m \in b.bitmap[s] /\ m \in LevelIndices /\ level_price(m) = p /\ p \in Int
      BY <1>1, <1>2, <3>1, GridPrice
    <3>3. IF s = "Buy" THEN l >= m ELSE l <= m
      BY <2>2, <3>2 DEF Leads, Better
    <3>4. (p <= c <=> m <= l) /\ (c <= p <=> l <= m)
      BY <2>3, <2>4, <3>2, PriceOrder
    <3>5. l \in Int /\ m \in Int
      BY <2>3, <3>2 DEF LevelIndices
    <3> QED
      BY <2>5, <3>2, <3>3, <3>4, <3>5
  <2>8. ASSUME NEW p \in Reference!Occupied(s),
               \A o \in Reference!Occupied(s) : IF s = "Buy" THEN p >= o ELSE p <= o
        PROVE  p = c
    <3>1. p \in Int
      BY <1>1, GridPrice
    <3>2. IF s = "Buy" THEN p >= c ELSE p <= c
      BY <2>6, <2>8
    <3>3. IF s = "Buy" THEN c >= p ELSE c <= p
      BY <2>7
    <3> QED
      BY <2>5, <3>1, <3>2, <3>3
  <2>9. Reference!Best(s) = c
    <3>1. \A o \in Reference!Occupied(s) : IF s = "Buy" THEN c >= o ELSE c <= o
      BY <2>7
    <3>2. Reference!Best(s) = CHOOSE p \in Reference!Occupied(s) :
             \A o \in Reference!Occupied(s) : IF s = "Buy" THEN p >= o ELSE p <= o
      BY DEF Reference!Best
    <3> QED
      BY <2>6, <2>8, <3>1, <3>2
  <2> QED
    BY <2>1, <2>3, <2>4, <2>6, <2>9
<1> QED
  BY <1>3, <1>4

-----------------------------------------------------------------------------
(***************************************************************************)
(* What the operations of the class make of the view.                      *)
(***************************************************************************)
AppendedView(k, i, l) ==
    LET s == k.nodes[i].side
    IN  Written(ViewOf(k), s, level_price(l), Append(Entries(k, s, l), Entry(k, i)))

RemovedView(k, s, l, j) ==
    Written(ViewOf(k), s, level_price(l), RemovedAt(Entries(k, s, l), j))

IsAt(k, i, s, l, j) ==
    /\ s = k.nodes[i].side /\ l = k.nodes[i].level
    /\ j \in 1 .. Len(Line(k, s, l)) /\ Line(k, s, l)[j] = i

LEMMA SomewhereAt ==
    ASSUME NEW k, IsBook(k), NEW R, NEW ahead, Resting(k, R, ahead), NEW i \in R
    PROVE  \E s, l, j : IsAt(k, i, s, l, j)
<1>1. PICK s, l : s = k.nodes[i].side /\ l = k.nodes[i].level
  OBVIOUS
<1>2. PICK j \in 1 .. Len(Line(k, s, l)) : Line(k, s, l)[j] = i
  BY <1>1, LineAt
<1> QED
  BY <1>1, <1>2 DEF IsAt

LEMMA AppendView ==
    ASSUME NEW k, NEW R, NEW ahead, IsBook(k), Resting(k, R, ahead), NEW i \in Pool, i \notin R,
           NEW l \in LevelIndices, k.nodes[i].level = l, k.nodes[i].next = kInvalid,
           k.nodes[i].remaining \in Nat \ {0}, NEW u, u = AppendTo(k, i, l)
    PROVE  ViewOf(u) = AppendedView(k, i, l)
<1>1. PICK Q, a : Q = R \cup {i} /\ a = Placed(ahead, i, LevelOf(k, i).total)
  OBVIOUS
<1>2. IsBook(u) /\ Appended(k, u, i, l) /\ Resting(u, Q, a)
  BY <1>1, AppendResting
<1>3. PICK s : s = k.nodes[i].side
  OBVIOUS
<1>4. s \in Sides /\ i \in Pool \ R
  BY <1>3, NodeFields
<1>5. Rewritten(k, u, s, l, Append(Entries(k, s, l), Entry(k, i)))
  BY <1>1, <1>2, <1>3, <1>4, AppendEntries
<1>6. ViewOf(u) = Written(ViewOf(k), s, level_price(l), Append(Entries(k, s, l), Entry(k, i)))
  <2>1. PICK X : X = Append(Entries(k, s, l), Entry(k, i))
    OBVIOUS
  <2>2. Rewritten(k, u, s, l, X)
    BY Zenon, <1>5, <2>1
  <2>3. ViewOf(u) = Written(ViewOf(k), s, level_price(l), X)
    BY <1>4, <2>2, ViewWrite
  <2> QED
    BY Zenon, <2>1, <2>3
<1> QED
  BY Zenon, <1>3, <1>6 DEF AppendedView

LEMMA BypassView ==
    ASSUME NEW k, NEW R, NEW ahead, IsBook(k), Resting(k, R, ahead), NEW i \in R,
           NEW u, IsBook(u), Bypassed(k, u, i), NEW then, Resting(u, R \ {i}, then),
           NEW s, NEW l, NEW j, IsAt(k, i, s, l, j)
    PROVE  ViewOf(u) = RemovedView(k, s, l, j)
<1>1. s \in Sides /\ l \in LevelIndices
  BY NodeFields, OrdersOccupy DEF Resting, IsAt
<1>2. /\ s = k.nodes[i].side /\ l = k.nodes[i].level
      /\ j \in 1 .. Len(Line(k, s, l)) /\ Line(k, s, l)[j] = i
  BY DEF IsAt
<1>3. Rewritten(k, u, s, l, RemovedAt(Entries(k, s, l), j))
  BY <1>2, UnlinkEntries
<1>4. PICK X : X = RemovedAt(Entries(k, s, l), j)
  OBVIOUS
<1>5. Rewritten(k, u, s, l, X)
  BY Zenon, <1>3, <1>4
<1>6. ViewOf(u) = Written(ViewOf(k), s, level_price(l), X)
  BY <1>1, <1>5, ViewWrite
<1> QED
  BY Zenon, <1>4, <1>6 DEF RemovedView

LEMMA UnlinkView ==
    ASSUME NEW k, NEW R, NEW ahead, IsBook(k), Resting(k, R, ahead), NEW i \in R,
           NEW s, NEW l, NEW j, IsAt(k, i, s, l, j)
    PROVE  ViewOf(Unlink(k, i)) = RemovedView(k, s, l, j)
<1>1. PICK u : u = Unlink(k, i)
  OBVIOUS
<1>2. PICK a : IsBook(u) /\ Bypassed(k, u, i) /\ Resting(u, R \ {i}, a)
  BY <1>1, UnlinkResting
<1> QED
  BY <1>1, <1>2, BypassView

LEMMA ReleaseView ==
    ASSUME NEW k, NEW U, NEW R, NEW ahead, NEW depth, BookOK(k, U, R, ahead, depth),
           NEW i \in U, i \notin R
    PROVE  ViewOf(Release(k, i)) = ViewOf(k)
<1>1. PICK u, d : u = Release(k, i) /\ d = Placed(depth, i, OrderCapacity - k.active + 1)
  OBVIOUS
<1>2. IsBook(k) /\ Resting(k, R, ahead) /\ Pooled(k, U, depth) /\ R \subseteq Pool
  BY DEF BookOK, Resting
<1>3. /\ IsBook(u) /\ u.levels = k.levels /\ u.bitmap = k.bitmap /\ u.best = k.best
      /\ \A j \in Pool : j # i => u.nodes[j] = k.nodes[j]
      /\ Pooled(u, U \ {i}, Placed(depth, i, OrderCapacity - k.active + 1))
  <2>1. IsBook(k) /\ Pooled(k, U, depth) /\ u = Release(k, i)
    BY <1>1, <1>2
  <2> QED
    BY <2>1, ReleaseNode
<1>4. IsBook(u) /\ Resting(u, R, ahead)
  BY <1>1, ReleaseOK DEF BookOK
<1>5. \A j \in R : u.nodes[j] = k.nodes[j]
  BY <1>2, <1>3
<1> QED
  BY <1>1, <1>2, <1>3, <1>4, <1>5, ViewFrame

LEMMA RemoveView ==
    ASSUME NEW k, NEW U, NEW R \in SUBSET U, NEW ahead, NEW depth, BookOK(k, U, R, ahead, depth),
           NEW i \in R, NEW s, NEW l, NEW j, IsAt(k, i, s, l, j)
    PROVE  ViewOf(Release(Unlink(k, i), i)) = RemovedView(k, s, l, j)
<1>1. PICK u : u = Unlink(k, i)
  OBVIOUS
<1>2. PICK S, a : S = R \ {i} /\ a = Shifted(k, ahead, i, k.nodes[i].remaining)
  OBVIOUS
<1>3. BookOK(u, U, S, a, depth)
  BY <1>1, <1>2, UnlinkOK
<1>4. i \in U /\ i \notin S
  BY <1>2
<1>5. ViewOf(Release(u, i)) = ViewOf(u)
  BY <1>3, <1>4, ReleaseView
<1>6. IsBook(k) /\ Resting(k, R, ahead)
  BY DEF BookOK
<1>7. ViewOf(u) = RemovedView(k, s, l, j)
  BY <1>1, <1>6, UnlinkView
<1> QED
  BY <1>1, <1>5, <1>7

\* An order of which nothing remains leaves.
LEMMA FillView ==
    ASSUME NEW k, NEW U, NEW R \in SUBSET U, NEW ahead, NEW depth, BookOK(k, U, R, ahead, depth),
           NEW i \in R, NEW m, IsBook(m), Reduced(k, m, i, k.nodes[i].remaining),
           NEW s, NEW l, NEW j, IsAt(k, i, s, l, j)
    PROVE  ViewOf(Release(Unlink(m, i), i)) = RemovedView(k, s, l, j)
<1>1. IsBook(k) /\ Resting(k, R, ahead) /\ Pooled(k, U, depth)
  BY DEF BookOK
<1>2. PICK w : w = Unlink(m, i)
  OBVIOUS
<1>3. PICK S, a : S = R \ {i} /\ a = Shifted(k, ahead, i, k.nodes[i].remaining)
  OBVIOUS
<1>4. IsBook(w) /\ SameRest(k, w) /\ Bypassed(k, w, i) /\ Resting(w, R \ {i}, a)
  BY <1>1, <1>2, <1>3, FillResting
<1>5. Pooled(w, U, depth)
  BY <1>1, <1>4, BypassPool
<1>6. BookOK(w, U, S, a, depth) /\ i \in U /\ i \notin S
  BY <1>3, <1>4, <1>5 DEF BookOK
<1>7. ViewOf(Release(w, i)) = ViewOf(w)
  BY <1>6, ReleaseView
<1>8. ViewOf(w) = RemovedView(k, s, l, j)
  BY <1>1, <1>4, BypassView
<1> QED
  BY <1>2, <1>7, <1>8

ReducedView(k, s, l, j, x) ==
    Written(ViewOf(k), s, level_price(l), [Entries(k, s, l) EXCEPT ![j].remaining = x])

LEMMA ReduceView ==
    ASSUME NEW k, NEW R, NEW ahead, IsBook(k), Resting(k, R, ahead), NEW i \in R,
           NEW q \in Nat, q < k.nodes[i].remaining, NEW u, IsBook(u), Reduced(k, u, i, q),
           NEW s, NEW l, NEW j, IsAt(k, i, s, l, j), NEW x, x = k.nodes[i].remaining - q
    PROVE  ViewOf(u) = ReducedView(k, s, l, j, x)
<1>1. s \in Sides /\ l \in LevelIndices
  BY NodeFields, OrdersOccupy DEF Resting, IsAt
<1>2. /\ s = k.nodes[i].side /\ l = k.nodes[i].level
      /\ j \in 1 .. Len(Line(k, s, l)) /\ Line(k, s, l)[j] = i
  BY DEF IsAt
<1>3. PICK a : Resting(u, R, a)
  BY ReduceResting
<1>4. Rewritten(k, u, s, l, [Entries(k, s, l) EXCEPT ![j].remaining = k.nodes[i].remaining - q])
  BY <1>2, <1>3, ReduceEntries
<1>5. PICK X : X = [Entries(k, s, l) EXCEPT ![j].remaining = x]
  OBVIOUS
<1>6. Rewritten(k, u, s, l, X)
  BY <1>4, <1>5
<1>7. ViewOf(u) = Written(ViewOf(k), s, level_price(l), X)
  BY <1>1, <1>6, ViewWrite
<1> QED
  BY Zenon, <1>5, <1>7 DEF ReducedView

LEMMA TakeView ==
    ASSUME NEW k, NEW U, NEW R, NEW ahead, NEW depth, NEW id, NEW o,
           CanTake(k, U, R, ahead, depth, id, o)
    PROVE  ViewOf(Taken(k, id, o)) = ViewOf(k)
<1>1. /\ IsBook(k) /\ Resting(k, R, ahead) /\ Pooled(k, U, depth) /\ k.free \in Pool
      /\ k.free # kInvalid /\ id \notin DOMAIN k.index /\ o \in NodeType /\ o.id = id
      /\ R \subseteq U
  BY DEF CanTake, BookOK, Pooled, FreeList
<1>2. PICK u : u = Taken(k, id, o)
  OBVIOUS
<1>3. u = Book(NodesWith(k.nodes, k.free, o), k.levels, k.bitmap, k.best,
               IndexWith(k.index, id, k.free), k.nodes[k.free].free_next, k.active + 1)
  BY <1>1, <1>2, TakenIs
<1>4. Took(k, u, U, o, depth)
  BY <1>1, <1>3, TakeNode
<1>5. IsBook(u) /\ u.levels = k.levels /\ \A j \in R : u.nodes[j] = k.nodes[j]
  BY <1>1, <1>4 DEF Took
<1>6. Resting(u, R, ahead)
  BY <1>2, TakeOK DEF IsTaken, BookOK
<1> QED
  BY <1>1, <1>2, <1>5, <1>6, ViewFrame

-----------------------------------------------------------------------------
(***************************************************************************)
(* The feed's operations.                                                  *)
(***************************************************************************)
LEMMA SameCardinality ==
    ASSUME NEW S
    PROVE  Reference!Cardinality(S) = Cardinality(S)
BY Zenon DEF Reference!Cardinality, Cardinality

LEMMA FreshOrder ==
    ASSUME NEW id, NEW side, NEW price, NEW quantity, NEW level
    PROVE  LET o == Fresh(id, side, price, quantity, level)
           IN  o.id = id /\ o.side = side /\ o.price = price /\ o.remaining = quantity
BY DEF Fresh, Node

\* A view with an order behind the last one at its price.
Added(v, s, p, id, quantity) ==
    [v EXCEPT ![s][p] = Append(@, [id |-> id, remaining |-> quantity])]

LEMMA AppendedIs ==
    ASSUME NEW k, NEW i, NEW s \in Sides, s = k.nodes[i].side, NEW l \in LevelIndices,
           NEW p, p = level_price(l), NEW id, id = k.nodes[i].id,
           NEW quantity, quantity = k.nodes[i].remaining
    PROVE  AppendedView(k, i, l) = Added(ViewOf(k), s, p, id, quantity)
<1>1. Entries(k, s, l) = ViewOf(k)[s][p]
  BY ViewAt
<1>2. Entry(k, i) = [id |-> id, remaining |-> quantity]
  BY DEF Entry
<1>3. AppendedView(k, i, l) = Written(ViewOf(k), s, p, Append(Entries(k, s, l), Entry(k, i)))
  BY Zenon DEF AppendedView
<1> QED
  BY Zenon, <1>1, <1>2, <1>3 DEF Written, Added

LEMMA FeedIdle ==
    ASSUME DenseInv, Feeding
    PROVE  /\ taking = kInvalid /\ TakerOrder = NoTaker /\ TakerOrder' = TakerOrder
           /\ calls' = calls /\ taking' = kInvalid
<1>1. taking = kInvalid /\ taking' = taking /\ calls' = calls
  BY DEF Feeding, DenseInv, InvOf
<1> QED
  BY <1>1 DEF TakerOrder

LEMMA FeedAddStep ==
    ASSUME DenseInv, view = ViewOf(b), view' = ViewOf(b'),
           NEW id \in OrderIds, NEW side \in Sides, NEW price \in FeedPrices,
           NEW quantity \in Quantities, feed_add(id, side, price, quantity)
    PROVE  Reference!FeedStep
<1>1. /\ taking = kInvalid /\ TakerOrder = NoTaker /\ TakerOrder' = TakerOrder
      /\ calls' = calls
  BY FeedIdle DEF feed_add
<1>2. PICK U, ahead, depth : BookOK(b, U, U, ahead, depth)
  BY <1>1, AtRest DEF DenseInv
<1>3. PICK l, o : l = price_index(price) /\ o = Fresh(id, side, price, quantity, l)
  OBVIOUS
<1>4. /\ quantity # 0 /\ id \notin DOMAIN b.index /\ OnGrid(price) /\ b.free # kInvalid
      /\ b' = AppendTo(Taken(b, id, o), b.free, l)
  BY <1>3 DEF feed_add, Known, Taken
<1>5. quantity \in Nat /\ price \in Int
  BY DenseAssumption
<1>6. l \in LevelIndices /\ price \in GridPrices /\ level_price(l) = price
  BY <1>3, <1>4, <1>5, OnGridIs, GridPrice
<1>7. o \in NodeType /\ o.id = id /\ o.remaining = quantity /\ o.level = l /\ o.next = kInvalid
  BY <1>3, <1>5, <1>6, FreshIs
<1>8. o.side = side
  BY <1>3, FreshOrder
<1>9. PICK k, f : k = Taken(b, id, o) /\ f = b.free
  OBVIOUS
<1>10. CanTake(b, U, U, ahead, depth, id, o)
  BY <1>2, <1>4, <1>7 DEF CanTake
<1>11. BookOK(k, U \cup {f}, U, ahead, depth) /\ f \in Pool /\ f \notin U /\ k.nodes[f] = o
  <2>1. IsTaken(b, k, U, U, ahead, depth, o)
    BY <1>9, <1>10, TakeOK
  <2> QED
    BY <1>9, <2>1 DEF IsTaken
<1>12. ViewOf(k) = view
  BY <1>9, <1>10, TakeView
<1>13. IsBook(k) /\ Resting(k, U, ahead)
  BY <1>11 DEF BookOK
<1>14. /\ k.nodes[f].level = l /\ k.nodes[f].next = kInvalid
       /\ k.nodes[f].remaining \in Nat \ {0} /\ b' = AppendTo(k, f, l)
  BY <1>4, <1>5, <1>7, <1>9, <1>11
<1>15. ViewOf(b') = AppendedView(k, f, l)
  BY <1>6, <1>11, <1>13, <1>14, AppendView
<1>16. AppendedView(k, f, l) = Added(ViewOf(k), side, price, id, quantity)
  <2>1. side = k.nodes[f].side /\ id = k.nodes[f].id /\ quantity = k.nodes[f].remaining
    BY <1>7, <1>8, <1>11
  <2> QED
    BY <1>6, <2>1, AppendedIs
<1>17. view' = Added(view, side, price, id, quantity)
  BY <1>12, <1>15, <1>16
<1>18. Reference!Resting = DOMAIN b.index /\ Cardinality(Reference!Resting) < OrderCapacity
  BY <1>2, <1>4, RestingIs, CapacityIs
<1>19. quantity > 0
  BY <1>4, <1>5
<1>20. Reference!FeedAdd(id, side, price, quantity)
  <2>1. id \notin Reference!Resting
    BY <1>4, <1>18
  <2>2. Reference!Cardinality(Reference!Resting) < OrderCapacity
    BY <1>18, SameCardinality
  <2> QED
    BY Zenon, <1>17, <1>19, <2>1, <2>2 DEF Reference!FeedAdd, Added
<1>21. id \in {r.id : r \in Requests} \ Reference!Resting
  BY <1>4, <1>18 DEF OrderIds
<1> QED
  BY Zenon, <1>1, <1>6, <1>20, <1>21, RefPlaces DEF Reference!FeedStep

\* The place of a known order.
LEMMA KnownPlace ==
    ASSUME NEW U, NEW ahead, NEW depth, BookOK(b, U, U, ahead, depth), view = ViewOf(b),
           NEW id \in DOMAIN b.index, NEW i, i = b.index[id]
    PROVE  /\ i \in U /\ b.nodes[i].id = id /\ id \in Reference!Resting
           /\ \E s \in Sides, l \in LevelIndices, j \in Nat :
                 /\ IsAt(b, i, s, l, j) /\ level_price(l) \in GridPrices
                 /\ Reference!PlaceOf(id) = <<s, level_price(l), j>>
                 /\ Reference!At(Reference!PlaceOf(id)) = Entry(b, i)
                 /\ view[s][level_price(l)] = Entries(b, s, l)
<1>1. IsBook(b) /\ Resting(b, U, ahead)
  BY DEF BookOK
<1>2. i \in U /\ b.nodes[i].id = id
  BY KnownNode
<1>3. PICK s, l, j : IsAt(b, i, s, l, j)
  BY <1>1, <1>2, SomewhereAt
<1>4. /\ s = b.nodes[i].side /\ l = b.nodes[i].level
      /\ j \in 1 .. Len(Line(b, s, l)) /\ Line(b, s, l)[j] = i
  BY <1>3 DEF IsAt
<1>5. U \in SUBSET U /\ id = b.nodes[i].id
  BY <1>2
<1>6. /\ s \in Sides /\ l \in LevelIndices /\ level_price(l) \in GridPrices
      /\ Reference!PlaceOf(id) = <<s, level_price(l), j>>
      /\ Reference!At(<<s, level_price(l), j>>) = Entry(b, i)
      /\ view[s][level_price(l)] = Entries(b, s, l)
      /\ id \in Reference!Resting
  BY <1>2, <1>4, <1>5, PlaceIs
<1>7. j \in Nat
  BY <1>4
<1>8. Reference!At(Reference!PlaceOf(id)) = Entry(b, i)
  BY <1>6
<1> QED
  BY <1>2, <1>3, <1>6, <1>7, <1>8

LEMMA WithoutIs ==
    ASSUME view = ViewOf(b), NEW s, NEW l, NEW j, NEW place, place = <<s, level_price(l), j>>,
           view[s][level_price(l)] = Entries(b, s, l)
    PROVE  Reference!Without(place) = RemovedView(b, s, l, j)
<1>1. place[1] = s /\ place[2] = level_price(l) /\ place[3] = j
  OBVIOUS
<1>2. Reference!Without(place) =
        Written(view, place[1], place[2], RemovedAt(view[place[1]][place[2]], place[3]))
  BY RefPlaces
<1> QED
  BY Zenon, <1>1, <1>2 DEF RemovedView

LEMMA FeedDeleteStep ==
    ASSUME DenseInv, view = ViewOf(b), view' = ViewOf(b'), NEW id \in OrderIds, feed_delete(id)
    PROVE  Reference!FeedStep
<1>1. /\ taking = kInvalid /\ TakerOrder = NoTaker /\ TakerOrder' = TakerOrder
      /\ calls' = calls
  BY FeedIdle DEF feed_delete
<1>2. PICK U, ahead, depth : BookOK(b, U, U, ahead, depth)
  BY <1>1, AtRest DEF DenseInv
<1>3. PICK i : i = b.index[id]
  OBVIOUS
<1>4. id \in DOMAIN b.index /\ b' = Release(Unlink(b, i), i)
  BY <1>3 DEF feed_delete, Known
<1>5. i \in U /\ id \in Reference!Resting
  BY <1>2, <1>3, <1>4, KnownPlace
<1>6. PICK s \in Sides, l \in LevelIndices, j \in Nat :
                 /\ IsAt(b, i, s, l, j) /\ Reference!PlaceOf(id) = <<s, level_price(l), j>>
                 /\ view[s][level_price(l)] = Entries(b, s, l)
  BY <1>2, <1>3, <1>4, KnownPlace
<1>7. ViewOf(b') = RemovedView(b, s, l, j)
  <2>1. U \in SUBSET U
    OBVIOUS
  <2> QED
    BY <1>2, <1>4, <1>5, <1>6, <2>1, RemoveView
<1>8. Reference!Without(Reference!PlaceOf(id)) = RemovedView(b, s, l, j)
  BY <1>6, WithoutIs
<1>9. Reference!FeedDelete(id)
  BY Zenon, <1>5, <1>7, <1>8 DEF Reference!FeedDelete
<1> QED
  BY Zenon, <1>1, <1>5, <1>9 DEF Reference!FeedStep

LEMMA FeedReduceStep ==
    ASSUME DenseInv, view = ViewOf(b), view' = ViewOf(b'), NEW id \in OrderIds,
           NEW quantity \in Quantities, feed_reduce(id, quantity)
    PROVE  Reference!FeedStep
<1>1. /\ taking = kInvalid /\ TakerOrder = NoTaker /\ TakerOrder' = TakerOrder
      /\ calls' = calls
  BY FeedIdle DEF feed_reduce
<1>2. PICK U, ahead, depth : BookOK(b, U, U, ahead, depth)
  BY <1>1, AtRest DEF DenseInv
<1> DEFINE i == b.index[id]
           k == Reduce(b, i, b.nodes[i].remaining - quantity, LevelOf(b, i).total - quantity)
<1>3. /\ id \in DOMAIN b.index /\ quantity <= b.nodes[i].remaining /\ quantity # 0
      /\ b' = IF quantity = b.nodes[i].remaining THEN Release(Unlink(k, i), i) ELSE k
  BY Zenon DEF feed_reduce, Known, Reduce, LevelOf, i, k
<1> HIDE DEF i, k
<1>4. i \in U /\ b.nodes[i].id = id /\ id \in Reference!Resting
  BY <1>2, <1>3, KnownPlace DEF i
<1>5. PICK s \in Sides, l \in LevelIndices, j \in Nat :
                 /\ IsAt(b, i, s, l, j) /\ Reference!PlaceOf(id) = <<s, level_price(l), j>>
                 /\ Reference!At(Reference!PlaceOf(id)) = Entry(b, i)
                 /\ view[s][level_price(l)] = Entries(b, s, l)
  BY <1>2, <1>3, KnownPlace DEF i
<1>6. IsBook(b) /\ Resting(b, U, ahead) /\ i \in Pool /\ quantity \in Nat
  BY <1>2, <1>4, DenseAssumption DEF BookOK, Resting
<1>7. b.nodes[i].level \in LevelIndices /\ b.nodes[i].remaining \in Nat
  BY <1>4, <1>6, OrdersOccupy, PlaceFields
<1>8. IsBook(k) /\ Reduced(b, k, i, quantity)
  BY <1>6, <1>7, ReduceIs DEF k
<1>9. PICK place, left : place = Reference!PlaceOf(id) /\ left = Reference!At(place).remaining - quantity
  OBVIOUS
<1>10. left = b.nodes[i].remaining - quantity
  BY <1>5, <1>9 DEF Entry
<1>11. quantity > 0 /\ left >= 0 /\ (left = 0 <=> quantity = b.nodes[i].remaining)
  BY <1>3, <1>6, <1>7, <1>10
<1>12. view' = IF left = 0 THEN Reference!Without(place)
               ELSE [view EXCEPT ![place[1]][place[2]][place[3]].remaining = left]
  <2>1. CASE left = 0
    <3>1. Reduced(b, k, i, b.nodes[i].remaining) /\ b' = Release(Unlink(k, i), i)
      BY <1>3, <1>8, <1>11, <2>1
    <3>2. U \in SUBSET U
      OBVIOUS
    <3>3. ViewOf(b') = RemovedView(b, s, l, j)
      BY <1>2, <1>4, <1>5, <1>8, <3>1, <3>2, FillView
    <3>4. Reference!Without(place) = RemovedView(b, s, l, j)
      BY <1>5, <1>9, WithoutIs
    <3> QED
      BY <2>1, <3>3, <3>4
  <2>2. CASE left # 0
    <3>1. b' = k /\ quantity < b.nodes[i].remaining
      BY <1>3, <1>6, <1>7, <1>11, <2>2
    <3>2. ViewOf(b') = ReducedView(b, s, l, j, left)
      BY <1>4, <1>5, <1>6, <1>8, <1>10, <3>1, ReduceView
    <3>3. place[1] = s /\ place[2] = level_price(l) /\ place[3] = j
      BY <1>5, <1>9
    <3>4. ReducedView(b, s, l, j, left) =
            [view EXCEPT ![s][level_price(l)][j].remaining = left]
      BY Zenon, <1>5 DEF ReducedView, Written
    <3> QED
      BY Zenon, <2>2, <3>2, <3>3, <3>4
  <2> QED
    BY <2>1, <2>2
<1>13. Reference!FeedReduce(id, quantity)
  BY Zenon, <1>4, <1>9, <1>11, <1>12 DEF Reference!FeedReduce
<1> QED
  BY Zenon, <1>1, <1>4, <1>13 DEF Reference!FeedStep

LEMMA RenewView ==
    ASSUME NEW k, IsBook(k), NEW R, NEW ahead, Resting(k, R, ahead), NEW i \in Pool, i \notin R,
           NEW id \in OrderIds, NEW price \in Int, NEW quantity \in Int,
           price_index(price) \in LevelIndices
    PROVE  ViewOf(Renewed(k, i, id, price, quantity)) = ViewOf(k)
<1>1. PICK u : u = Renewed(k, i, id, price, quantity)
  OBVIOUS
<1>2. /\ IsBook(u) /\ Resting(u, R, ahead) /\ u.levels = k.levels
      /\ \A j \in Pool : j # i => u.nodes[j] = k.nodes[j]
  BY <1>1, RenewOK
<1>3. \A j \in R : u.nodes[j] = k.nodes[j]
  BY <1>2 DEF Resting
<1> QED
  BY <1>1, <1>2, <1>3, ViewFrame

\* A view depends on the nodes and on the levels.
LEMMA ViewDepends ==
    ASSUME NEW k, NEW u, u.nodes = k.nodes, u.levels = k.levels
    PROVE  /\ ViewOf(u) = ViewOf(k)
           /\ \A i, s, l, j : IsAt(u, i, s, l, j) <=> IsAt(k, i, s, l, j)
           /\ \A s, l, j : RemovedView(u, s, l, j) = RemovedView(k, s, l, j)
<1>1. ASSUME NEW s, NEW l PROVE Line(u, s, l) = Line(k, s, l)
  BY Zenon DEF Line
<1>2. ASSUME NEW i PROVE Entry(u, i) = Entry(k, i)
  BY Zenon DEF Entry
<1>3. ASSUME NEW s, NEW l PROVE Entries(u, s, l) = Entries(k, s, l)
  BY <1>1, <1>2 DEF Entries
<1>4. ViewOf(u) = ViewOf(k)
  BY <1>3 DEF ViewOf
<1>5. ASSUME NEW i, NEW s, NEW l, NEW j PROVE IsAt(u, i, s, l, j) <=> IsAt(k, i, s, l, j)
  BY Zenon, <1>1 DEF IsAt
<1>6. ASSUME NEW s, NEW l, NEW j PROVE RemovedView(u, s, l, j) = RemovedView(k, s, l, j)
  BY Zenon, <1>3, <1>4 DEF RemovedView
<1> QED
  BY <1>4, <1>5, <1>6

LEMMA FeedReplaceStep ==
    ASSUME DenseInv, view = ViewOf(b), view' = ViewOf(b'),
           NEW id \in OrderIds, NEW new_id \in OrderIds, NEW price \in FeedPrices,
           NEW quantity \in Quantities, feed_replace(id, new_id, price, quantity)
    PROVE  Reference!FeedStep
<1>1. /\ taking = kInvalid /\ TakerOrder = NoTaker /\ TakerOrder' = TakerOrder
      /\ calls' = calls
  BY FeedIdle DEF feed_replace
<1>2. PICK U, ahead, depth : BookOK(b, U, U, ahead, depth)
  BY <1>1, AtRest DEF DenseInv
<1>3. PICK i, c : i = b.index[id] /\ c = price_index(price)
  OBVIOUS
<1>4. PICK k : k = Insert(b, new_id, i)
  OBVIOUS
<1>5. PICK m : m = Unlink(k, i)
  OBVIOUS
<1>6. PICK n : n = Erase(m, id)
  OBVIOUS
<1>7. PICK u : u = Renewed(n, i, new_id, price, quantity)
  OBVIOUS
<1>8. /\ id \in DOMAIN b.index /\ quantity # 0 /\ new_id \notin DOMAIN b.index /\ OnGrid(price)
      /\ b' = AppendTo(u, i, c)
  BY <1>3, <1>4, <1>5, <1>6, <1>7 DEF feed_replace, Known
<1>9. i \in U /\ b.nodes[i].id = id /\ id \in Reference!Resting
  BY <1>2, <1>3, <1>8, KnownPlace
<1>10. PICK s \in Sides, l \in LevelIndices, j \in Nat :
                 /\ IsAt(b, i, s, l, j) /\ Reference!PlaceOf(id) = <<s, level_price(l), j>>
                 /\ view[s][level_price(l)] = Entries(b, s, l)
  BY <1>2, <1>3, <1>8, KnownPlace
<1>11. /\ price \in Int /\ quantity \in Nat \ {0} /\ quantity \in Int
       /\ c \in LevelIndices /\ price_index(price) \in LevelIndices
       /\ price \in GridPrices /\ level_price(c) = price
  BY <1>3, <1>8, DenseAssumption, OnGridIs, GridPrice
<1>12. /\ IsBook(b) /\ Resting(b, U, ahead) /\ U \subseteq Pool
       /\ b.free \in Link /\ b.active \in Int /\ b.nodes \in [Pool -> NodeType]
  BY <1>2 DEF BookOK, Pooled, IsBook
<1>13. PICK x : x = IndexWith(b.index, new_id, i)
  OBVIOUS
<1>14. /\ IsBook(k) /\ k.nodes = b.nodes /\ k.levels = b.levels /\ k.bitmap = b.bitmap
       /\ k.best = b.best /\ k.index = x /\ k.free = b.free /\ k.active = b.active
  <2>1. k = Book(b.nodes, b.levels, b.bitmap, b.best, x, b.free, b.active)
    BY <1>4, <1>12, <1>13, InsertIs
  <2>2. IsIndex(x)
    BY <1>13, IndexWithIs
  <2> QED
    BY <1>12, <2>1, <2>2, Assembled
<1>15. Resting(k, U, ahead)
  BY <1>12, <1>14, RestingFrame
<1>16. PICK S, a : S = U \ {i} /\ a = Shifted(k, ahead, i, k.nodes[i].remaining)
  OBVIOUS
<1>17. IsBook(m) /\ SameRest(k, m) /\ Bypassed(k, m, i) /\ Resting(m, S, a)
  BY <1>5, <1>9, <1>14, <1>15, <1>16, UnlinkResting
<1>18. ViewOf(m) = RemovedView(b, s, l, j)
  <2>1. IsAt(k, i, s, l, j) /\ RemovedView(k, s, l, j) = RemovedView(b, s, l, j)
    BY <1>10, <1>14, ViewDepends
  <2>2. ViewOf(Unlink(k, i)) = RemovedView(k, s, l, j)
    BY <1>9, <1>14, <1>15, <2>1, UnlinkView
  <2> QED
    BY <1>5, <2>1, <2>2
<1>19. PICK y : y = IndexWithout(x, id)
  OBVIOUS
<1>20. IsBook(n) /\ n.nodes = m.nodes /\ n.levels = m.levels /\ n.bitmap = m.bitmap /\ n.best = m.best
  <2>1. m.index = x /\ m.free = b.free /\ m.active = b.active /\ m.nodes \in [Pool -> NodeType]
    BY <1>14, <1>17 DEF SameRest, IsBook
  <2>2. n = Book(m.nodes, m.levels, m.bitmap, m.best, y, b.free, b.active)
    BY <1>6, <1>17, <1>19, <2>1, EraseIs
  <2>3. IsIndex(y)
    BY <1>19, IndexWithoutIs
  <2> QED
    BY <1>12, <1>17, <2>1, <2>2, <2>3, Assembled
<1>21. Resting(n, S, a) /\ ViewOf(n) = ViewOf(m)
  BY <1>17, <1>20, RestingFrame, ViewDepends
<1>22. i \in Pool /\ i \notin S
  BY <1>9, <1>12, <1>16
<1>23. /\ IsBook(u) /\ Resting(u, S, a)
       /\ u.nodes[i].id = new_id /\ u.nodes[i].remaining = quantity
       /\ u.nodes[i].level = price_index(price) /\ u.nodes[i].next = n.nodes[i].next
       /\ u.nodes[i].side = n.nodes[i].side
  BY <1>7, <1>11, <1>20, <1>21, <1>22, RenewOK
<1>24. ViewOf(u) = ViewOf(n)
  BY <1>7, <1>11, <1>20, <1>21, <1>22, RenewView
<1>25. n.nodes[i].next = kInvalid /\ n.nodes[i].side = b.nodes[i].side
  BY Zenon, <1>14, <1>17, <1>20 DEF Bypassed
<1>26. ViewOf(b') = AppendedView(u, i, c)
  <2>1. /\ u.nodes[i].level = c /\ u.nodes[i].next = kInvalid
        /\ u.nodes[i].remaining \in Nat \ {0} /\ b' = AppendTo(u, i, c)
    BY <1>3, <1>8, <1>11, <1>23, <1>25
  <2> QED
    BY <1>11, <1>22, <1>23, <2>1, AppendView
<1>27. AppendedView(u, i, c) = Added(ViewOf(u), s, price, new_id, quantity)
  <2>1. s = u.nodes[i].side /\ new_id = u.nodes[i].id /\ quantity = u.nodes[i].remaining
    BY <1>10, <1>23, <1>25 DEF IsAt
  <2> QED
    BY <1>11, <2>1, AppendedIs
<1>28. Reference!Without(Reference!PlaceOf(id)) = RemovedView(b, s, l, j)
  BY <1>10, WithoutIs
<1>29. view' = Added(Reference!Without(Reference!PlaceOf(id)), Reference!PlaceOf(id)[1], price, new_id, quantity)
  <2>1. Reference!PlaceOf(id)[1] = s
    BY <1>10
  <2> QED
    BY <1>18, <1>21, <1>24, <1>26, <1>27, <1>28, <2>1
<1>30. Reference!Resting = DOMAIN b.index
  BY <1>2, RestingIs
<1>31. new_id \notin Reference!Resting /\ quantity > 0
  BY <1>8, <1>11, <1>30
<1>32. Reference!FeedReplace(id, new_id, price, quantity)
  BY Zenon, <1>9, <1>29, <1>31 DEF Reference!FeedReplace, Added
<1>33. new_id \in {r.id : r \in Requests} \ Reference!Resting
  BY <1>31 DEF OrderIds
<1> QED
  BY Zenon, <1>1, <1>9, <1>11, <1>32, <1>33 DEF Reference!FeedStep

-----------------------------------------------------------------------------
(***************************************************************************)
(* Matching.  Takes says that the taker's node is that of the request.     *)
(***************************************************************************)
Takes(k, req, t) ==
    /\ req.id \in OrderIds /\ req.side \in Sides /\ req.type \in {"Limit", "Market"}
    /\ req.price \in Int /\ req.quantity \in Nat
    /\ k.nodes[t].id = req.id /\ k.nodes[t].side = req.side /\ k.nodes[t].price = req.price
    /\ req.type = "Limit" => /\ req.price \in GridPrices
                             /\ k.nodes[t].level = price_index(req.price)

TakerInv == taking # kInvalid => Takes(b, request, taking)

LEMMA TakerIs ==
    ASSUME DenseInv, TakerInv, taking # kInvalid
    PROVE  /\ TakerOrder # NoTaker
           /\ TakerOrder = [id |-> request.id, side |-> request.side, type |-> request.type,
                            price |-> request.price, quantity |-> request.quantity,
                            remaining |-> b.nodes[taking].remaining]
           /\ TakerOrder.id = request.id /\ TakerOrder.side = request.side
           /\ TakerOrder.type = request.type /\ TakerOrder.price = request.price
           /\ TakerOrder.quantity = request.quantity
           /\ TakerOrder.remaining = b.nodes[taking].remaining
           /\ b.nodes[taking].remaining \in Nat
<1>1. TakerOrder = [id |-> request.id, side |-> request.side, type |-> request.type,
                    price |-> request.price, quantity |-> request.quantity,
                    remaining |-> b.nodes[taking].remaining]
  BY DEF TakerOrder
<1>2. b.nodes[taking].remaining \in Nat
  BY DEF DenseInv, InvOf
<1>3. TakerOrder \in [id : OrderIds, side : Sides, type : {"Limit", "Market"}, price : Int,
                      quantity : Nat, remaining : Nat]
  BY <1>1, <1>2 DEF TakerInv, Takes
<1> QED
  BY <1>1, <1>2, <1>3, TakerAssumption

\* submit, cancel and modify, up to the first pass of match().
LEMMA SubmitStep ==
    ASSUME DenseInv, view = ViewOf(b), view' = ViewOf(b'), NEW r \in Requests, submit(r)
    PROVE  (Reference!Submit(r) \/ Reference!Reject(r)) /\ TakerInv'
<1>1. taking = kInvalid /\ TakerOrder = NoTaker
  BY DEF submit, Idle, TakerOrder
<1>2. PICK U, ahead, depth : BookOK(b, U, U, ahead, depth)
  BY <1>1, AtRest DEF DenseInv
<1>3. Reference!Resting = DOMAIN b.index
  BY <1>2, RestingIs
<1>4. /\ b.free = kInvalid => Reference!Cardinality(Reference!Resting) = OrderCapacity
      /\ b.free # kInvalid => Reference!Cardinality(Reference!Resting) # OrderCapacity
  BY <1>2, CapacityIs, SameCardinality
<1>5. /\ r.id \in OrderIds /\ r.side \in Sides /\ r.type \in {"Limit", "Market"}
      /\ r.price \in Int /\ r.quantity \in Nat
  BY DenseAssumption DEF OrderIds, Sides
<1>6. r.type = "Limit" => (OnGrid(r.price) <=> r.price \in GridPrices)
  BY <1>5, OnGridIs
<1>7. CASE Rejects(r)
  <2>1. calls' = <<Rejection>> /\ b' = b /\ request' = request /\ taking' = taking
    BY <1>7 DEF submit
  <2>2. view' = view /\ TakerOrder' = TakerOrder /\ TakerInv'
    BY <1>1, <2>1 DEF TakerOrder, TakerInv
  <2>3. calls' = <<Reference!Rejection>>
    BY <2>1 DEF Rejection, Reference!Rejection
  <2>4. CASE r.id = MaxId \/ (r.type = "Limit" /\ ~OnGrid(r.price))
    <3>1. r.id = MaxId \/ (r.type = "Limit" /\ r.price \notin GridPrices)
      BY <1>6, <2>4
    <3>2. Reference!Reject(r)
      BY Zenon, <1>1, <2>2, <2>3, <3>1 DEF Reference!Reject
    <3> QED
      BY <2>2, <3>2
  <2>5. CASE ~(r.id = MaxId \/ (r.type = "Limit" /\ ~OnGrid(r.price)))
    <3>1. \/ r.id = NoId \/ r.quantity = 0 \/ r.id \in DOMAIN b.index \/ b.free = kInvalid
      BY <1>7, <2>5 DEF Rejects, Known
    <3>2. Reference!Refused(r)
      BY <1>3, <1>4, <3>1 DEF Reference!Refused
    <3>3. Reference!Submit(r)
      BY Zenon, <1>1, <2>2, <2>3, <3>2 DEF Reference!Submit
    <3> QED
      BY <2>2, <3>3
  <2> QED
    BY <2>4, <2>5
<1>8. CASE ~Rejects(r)
  <2>2. PICK l : l = IF r.type = "Limit" THEN price_index(r.price) ELSE kInvalid
    OBVIOUS
  <2>3. PICK o : o = Fresh(r.id, r.side, r.price, r.quantity, l)
    OBVIOUS
  <2>4. b' = Taken(b, r.id, o) /\ request' = r /\ taking' = b.free /\ calls' = <<>>
    BY <1>8, <2>2, <2>3 DEF submit, Taken
  <2>5. /\ r.id \notin DOMAIN b.index /\ b.free # kInvalid /\ r.id # NoId /\ r.quantity # 0
        /\ r.type = "Limit" => OnGrid(r.price)
    BY <1>8 DEF Rejects, Known
  <2>6. l \in LevelIndices \cup {kInvalid}
    BY <1>5, <2>2, <2>5, GridLevel
  <2>7. /\ o \in NodeType /\ o.id = r.id /\ o.remaining = r.quantity /\ o.level = l
        /\ o.next = kInvalid
    BY <1>5, <2>3, <2>6, FreshIs
  <2>8. o.side = r.side /\ o.price = r.price
    BY <2>3, FreshOrder
  <2>9. CanTake(b, U, U, ahead, depth, r.id, o)
    BY <1>2, <2>5, <2>7 DEF CanTake
  <2>10. b'.nodes[taking'] = o
    <3>1. IsTaken(b, b', U, U, ahead, depth, o)
      BY <2>4, <2>9, TakeOK
    <3> QED
      BY <2>4, <3>1 DEF IsTaken
  <2>11. view' = view
    BY <2>4, <2>9, TakeView
  <2>12. TakerInv'
    <3>1. Takes(b', r, taking')
      BY <1>5, <1>6, <2>2, <2>5, <2>7, <2>8, <2>10 DEF Takes
    <3> QED
      BY <2>4, <3>1 DEF TakerInv
  <2>13. TakerOrder' = Reference!Taker(r)
    BY <2>4, <2>5, <2>7, <2>10 DEF TakerOrder, Reference!Taker
  <2>14. ~Reference!Refused(r)
    <3>1. r.type = "Limit" => ~(r.price <= 0)
      BY <1>5, <1>6, <2>5, GridPrice
    <3> QED
      BY <1>3, <1>4, <2>5, <3>1 DEF Reference!Refused
  <2>15. Reference!Submit(r)
    BY Zenon, <1>1, <2>4, <2>11, <2>13, <2>14 DEF Reference!Submit
  <2> QED
    BY <2>12, <2>15
<1> QED
  BY <1>7, <1>8

LEMMA CancelStep ==
    ASSUME DenseInv, view = ViewOf(b), view' = ViewOf(b'), NEW id \in OrderIds, cancel(id)
    PROVE  id \in Reference!Resting /\ Reference!Cancel(id) /\ TakerInv'
<1>1. taking = kInvalid /\ TakerOrder = NoTaker /\ taking' = taking /\ request' = request
  BY DEF cancel, Idle, TakerOrder
<1>2. PICK U, ahead, depth : BookOK(b, U, U, ahead, depth)
  BY <1>1, AtRest DEF DenseInv
<1>3. PICK i : i = b.index[id]
  OBVIOUS
<1>4. /\ id \in DOMAIN b.index /\ b' = Release(Unlink(b, i), i)
      /\ calls' = <<OrderEvent(id, "Canceled", b.nodes[i].remaining)>>
  BY <1>3 DEF cancel, Known
<1>5. i \in U /\ id \in Reference!Resting
  BY <1>2, <1>3, <1>4, KnownPlace
<1>6. PICK s \in Sides, l \in LevelIndices, j \in Nat :
                 /\ IsAt(b, i, s, l, j) /\ Reference!PlaceOf(id) = <<s, level_price(l), j>>
                 /\ Reference!At(Reference!PlaceOf(id)) = Entry(b, i)
                 /\ view[s][level_price(l)] = Entries(b, s, l)
  BY <1>2, <1>3, <1>4, KnownPlace
<1>7. ViewOf(b') = RemovedView(b, s, l, j)
  <2>1. U \in SUBSET U
    OBVIOUS
  <2> QED
    BY <1>2, <1>4, <1>5, <1>6, <2>1, RemoveView
<1>8. Reference!Without(Reference!PlaceOf(id)) = RemovedView(b, s, l, j)
  BY <1>6, WithoutIs
<1>9. Reference!At(Reference!PlaceOf(id)).remaining = b.nodes[i].remaining
  BY <1>6 DEF Entry
<1>10. calls' = <<Reference!OrderEvent(id, "Canceled", Reference!At(Reference!PlaceOf(id)).remaining)>>
  BY <1>4, <1>9 DEF OrderEvent, Reference!OrderEvent
<1>11. TakerOrder' = TakerOrder /\ TakerInv'
  BY <1>1 DEF TakerOrder, TakerInv
<1>12. Reference!Cancel(id)
  BY Zenon, <1>1, <1>5, <1>7, <1>8, <1>10, <1>11 DEF Reference!Cancel
<1> QED
  BY <1>5, <1>11, <1>12

LEMMA ModifyStep ==
    ASSUME DenseInv, view = ViewOf(b), view' = ViewOf(b'), NEW id \in OrderIds,
           NEW price \in FeedPrices, NEW quantity \in Quantities, modify(id, price, quantity)
    PROVE  /\ id \in Reference!Resting /\ price \in GridPrices
           /\ Reference!Modify(id, price, quantity) /\ TakerInv'
<1>1. taking = kInvalid /\ TakerOrder = NoTaker /\ calls' = <<>>
  BY DEF modify, Idle, TakerOrder
<1>2. PICK U, ahead, depth : BookOK(b, U, U, ahead, depth)
  BY <1>1, AtRest DEF DenseInv
<1>3. PICK i : i = b.index[id]
  OBVIOUS
<1>4. /\ id \in DOMAIN b.index /\ OnGrid(price) /\ quantity # 0 /\ taking' = i
      /\ b' = Renewed(Unlink(b, i), i, id, price, quantity)
      /\ request' = [id |-> id, side |-> b.nodes[i].side, type |-> "Limit",
                     price |-> price, quantity |-> quantity]
  BY <1>3 DEF modify, Known
<1>5. i \in U /\ b.nodes[i].id = id /\ id \in Reference!Resting
  BY <1>2, <1>3, <1>4, KnownPlace
<1>6. PICK s \in Sides, l \in LevelIndices, j \in Nat :
                 /\ IsAt(b, i, s, l, j) /\ Reference!PlaceOf(id) = <<s, level_price(l), j>>
                 /\ view[s][level_price(l)] = Entries(b, s, l)
  BY <1>2, <1>3, <1>4, KnownPlace
<1>7. /\ price \in Int /\ quantity \in Nat /\ quantity \in Int /\ price_index(price) \in LevelIndices
      /\ price \in GridPrices /\ price > 0 /\ quantity > 0
  BY <1>4, DenseAssumption, OnGridIs, GridPrice
<1>8. PICK k : k = Unlink(b, i)
  OBVIOUS
<1>9. PICK S, a : S = U \ {i} /\ a = Shifted(b, ahead, i, b.nodes[i].remaining)
  OBVIOUS
<1>10. BookOK(k, U, S, a, depth) /\ Bypassed(b, k, i)
  BY <1>2, <1>5, <1>8, <1>9, UnlinkOK
<1>11. IsBook(k) /\ Resting(k, S, a) /\ i \in Pool /\ i \notin S
  BY Zenon, <1>5, <1>9, <1>10 DEF BookOK, Pooled
<1>12. b' = Renewed(k, i, id, price, quantity)
  BY <1>4, <1>8
<1>13. /\ b'.nodes[i].id = id /\ b'.nodes[i].remaining = quantity /\ b'.nodes[i].price = price
       /\ b'.nodes[i].level = price_index(price) /\ b'.nodes[i].side = k.nodes[i].side
  BY <1>7, <1>11, <1>12, RenewOK
<1>14. ViewOf(b') = ViewOf(k)
  BY <1>7, <1>11, <1>12, RenewView
<1>15. ViewOf(k) = RemovedView(b, s, l, j)
  <2>1. IsBook(b) /\ Resting(b, U, ahead)
    BY <1>2 DEF BookOK
  <2> QED
    BY <1>5, <1>6, <1>8, <2>1, UnlinkView
<1>16. Reference!Without(Reference!PlaceOf(id)) = RemovedView(b, s, l, j)
  BY <1>6, WithoutIs
<1>17. k.nodes[i].side = b.nodes[i].side /\ b.nodes[i].side = s /\ Reference!PlaceOf(id)[1] = s
  <2>1. k.nodes[i].side = b.nodes[i].side
    BY Zenon, <1>10 DEF Bypassed
  <2>2. b.nodes[i].side = s
    BY <1>6 DEF IsAt
  <2>3. Reference!PlaceOf(id)[1] = s
    BY <1>6
  <2> QED
    BY <2>1, <2>2, <2>3
<1>18. PICK r : r = [id |-> id, side |-> s, type |-> "Limit", price |-> price, quantity |-> quantity]
  OBVIOUS
<1>19. request' = r
  BY <1>4, <1>17, <1>18
<1>20. i # kInvalid
  BY <1>11, Invalid
<1>21. TakerInv'
  <2>1. Takes(b', r, i)
    BY <1>7, <1>13, <1>17, <1>18 DEF Takes
  <2> QED
    BY <1>4, <1>19, <2>1 DEF TakerInv
<1>22. TakerOrder' = Reference!Taker(r)
  BY <1>4, <1>13, <1>18, <1>19, <1>20 DEF TakerOrder, Reference!Taker
<1>23. TakerOrder' = Reference!Taker([id |-> id, side |-> Reference!PlaceOf(id)[1], type |-> "Limit",
                                      price |-> price, quantity |-> quantity])
  BY <1>17, <1>18, <1>22
<1>24. view' = Reference!Without(Reference!PlaceOf(id))
  BY <1>14, <1>15, <1>16
<1>25. Reference!Modify(id, price, quantity)
  BY Zenon, <1>1, <1>5, <1>7, <1>23, <1>24 DEF Reference!Modify
<1> QED
  BY <1>5, <1>7, <1>21, <1>25

\* match() goes on as long as the reference book's loop does.
LEMMA CrossesIs ==
    ASSUME DenseInv, TakerInv, taking # kInvalid, view = ViewOf(b)
    PROVE  Matches <=> TakerOrder.remaining # 0 /\ Reference!Crosses
<1>1. PICK t : t = TakerOrder
  OBVIOUS
<1>2. /\ t.remaining = b.nodes[taking].remaining /\ t.type = request.type
      /\ t.side = b.nodes[taking].side /\ t.price = b.nodes[taking].price
  BY <1>1, TakerIs DEF TakerInv, Takes
<1>3. PICK U, ahead, depth : BookOK(b, U, U \ {taking}, ahead, depth)
  BY DEF DenseInv, InvOf
<1>4. PICK R : R = U \ {taking}
  OBVIOUS
<1>5. IsBook(b) /\ Resting(b, R, ahead)
  BY <1>3, <1>4 DEF BookOK
<1>6. PICK s : s = Other(t.side)
  OBVIOUS
<1>7. s \in Sides /\ Reference!Other(t.side) = s
  BY <1>6, RefPlaces DEF Sides, Other
<1>8. /\ b.best[s] = kInvalid => Reference!Occupied(s) = {}
      /\ b.best[s] # kInvalid => /\ Reference!Occupied(s) # {}
                                 /\ Reference!Best(s) = level_price(b.best[s])
  BY <1>5, <1>7, BestIs
<1>9. Reference!Crosses <=> /\ Reference!Occupied(s) # {}
                            /\ \/ t.type = "Market"
                               \/ IF t.side = "Buy" THEN t.price >= Reference!Best(s)
                                  ELSE t.price <= Reference!Best(s)
  BY Zenon, <1>1, <1>7 DEF Reference!Crosses
<1>10. Matches <=> /\ t.remaining # 0 /\ b.best[s] # kInvalid
                   /\ \/ t.type = "Market"
                      \/ IF t.side = "Buy" THEN t.price >= level_price(b.best[s])
                         ELSE t.price <= level_price(b.best[s])
  BY Zenon, <1>2, <1>6 DEF Matches
<1> QED
  BY Zenon, <1>1, <1>8, <1>9, <1>10

\* A view with the first order of a queue reduced, or gone.
Served(v, s, p, left) ==
    [v EXCEPT ![s][p] = IF left = 0 THEN Tail(@) ELSE [@ EXCEPT ![1].remaining = left]]

LEMMA ServedIs ==
    ASSUME NEW k, NEW s \in Sides, NEW l \in LevelIndices, NEW left
    PROVE  /\ left = 0 => Served(ViewOf(k), s, level_price(l), left) =
                            Written(ViewOf(k), s, level_price(l), Tail(Entries(k, s, l)))
           /\ left # 0 => Served(ViewOf(k), s, level_price(l), left) = ReducedView(k, s, l, 1, left)
<1>1. PICK v, p : v = ViewOf(k) /\ p = level_price(l)
  OBVIOUS
<1>2. v[s][p] = Entries(k, s, l)
  BY <1>1, ViewAt
<1>3. ASSUME left = 0
      PROVE  Served(v, s, p, left) = Written(v, s, p, Tail(Entries(k, s, l)))
  <2>1. Served(v, s, p, left) = Written(v, s, p, Tail(v[s][p]))
    BY Zenon, <1>3 DEF Served, Written
  <2> QED
    BY Zenon, <1>2, <2>1
<1>4. ASSUME left # 0
      PROVE  Served(v, s, p, left) = Written(v, s, p, [Entries(k, s, l) EXCEPT ![1].remaining = left])
  <2>1. Served(v, s, p, left) = Written(v, s, p, [v[s][p] EXCEPT ![1].remaining = left])
    BY Zenon, <1>4 DEF Served, Written
  <2> QED
    BY Zenon, <1>2, <2>1
<1> QED
  BY Zenon, <1>1, <1>3, <1>4 DEF ReducedView

\* A trade serves the oldest order of the best price on the other side.
LEMMA MatchView ==
    ASSUME NEW k, NEW U, NEW R \in SUBSET U, NEW ahead, NEW depth, BookOK(k, U, R, ahead, depth),
           NEW t, NEW s, NEW l, NEW i, NEW q, NEW x, Meets(k, t, R, s, l, i, q, x),
           NEW c, BookOK(c, U, R, ahead, depth), Charges(k, c, t, R, q),
           NEW m, IsBook(m), Reduced(c, m, i, q),
           NEW u, u = IF x = 0 THEN Release(Unlink(m, i), i) ELSE m
    PROVE  ViewOf(u) = Served(ViewOf(k), s, level_price(l), x)
<1>1. IsBook(k) /\ Resting(k, R, ahead) /\ IsBook(c) /\ Resting(c, R, ahead)
  BY DEF BookOK
<1>2. ViewOf(c) = ViewOf(k)
  <2>1. c.levels = k.levels /\ \A j \in R : c.nodes[j] = k.nodes[j]
    BY DEF Charges
  <2> QED
    BY <1>1, <2>1, ViewFrame
<1>3. /\ s \in Sides /\ l \in LevelIndices /\ i \in R /\ c.nodes[i] = k.nodes[i]
      /\ s = c.nodes[i].side /\ l = c.nodes[i].level /\ c.levels[s][l].head = i /\ i # kInvalid
      /\ x = c.nodes[i].remaining - q /\ q \in Nat /\ q <= c.nodes[i].remaining
      /\ c.nodes[i].remaining \in Nat
  BY Invalid DEF Meets, Charges
<1>4. /\ 1 \in 1 .. Len(Line(c, s, l)) /\ Line(c, s, l)[1] = c.levels[s][l].head
      /\ Entries(c, s, l) # <<>> /\ Head(Entries(c, s, l)) = Entry(c, c.levels[s][l].head)
      /\ Tail(Entries(c, s, l)) = RemovedAt(Entries(c, s, l), 1)
  BY <1>1, <1>3, HeadFirst
<1>5. IsAt(c, i, s, l, 1)
  BY <1>3, <1>4 DEF IsAt
<1>6. CASE x = 0
  <2>1. q = c.nodes[i].remaining
    BY <1>3, <1>6
  <2>2. Reduced(c, m, i, c.nodes[i].remaining)
    BY <2>1
  <2>3. ViewOf(Release(Unlink(m, i), i)) = RemovedView(c, s, l, 1)
    BY <1>3, <1>5, <2>2, FillView
  <2>4. RemovedView(c, s, l, 1) = Written(ViewOf(c), s, level_price(l), Tail(Entries(c, s, l)))
    BY Zenon, <1>4 DEF RemovedView
  <2>5. Served(ViewOf(c), s, level_price(l), x) =
          Written(ViewOf(c), s, level_price(l), Tail(Entries(c, s, l)))
    BY <1>3, <1>6, ServedIs
  <2>6. ViewOf(u) = ViewOf(Release(Unlink(m, i), i))
    BY Zenon, <1>6
  <2> QED
    BY Zenon, <1>2, <2>3, <2>4, <2>5, <2>6
<1>7. CASE x # 0
  <2>1. u = m /\ q < c.nodes[i].remaining
    BY <1>3, <1>7
  <2>2. ViewOf(u) = ReducedView(c, s, l, 1, x)
    BY <1>1, <1>3, <1>5, <2>1, ReduceView
  <2>3. Served(ViewOf(c), s, level_price(l), x) = ReducedView(c, s, l, 1, x)
    BY <1>3, <1>7, ServedIs
  <2> QED
    BY Zenon, <1>2, <2>2, <2>3
<1> QED
  BY <1>6, <1>7

\* One pass of match()'s loop is one of match_levels'.
LEMMA MatchStep ==
    ASSUME DenseInv, TakerInv, view = ViewOf(b), view' = ViewOf(b'), match
    PROVE  Reference!Fill /\ TakerInv'
<1>1. taking # kInvalid /\ request' = request /\ taking' = taking /\ Matches
  BY Zenon DEF match
<1>2. PICK U, R, ahead, depth, s, l, i, q, x, c, m :
              /\ BookOK(b, U, R, ahead, depth) /\ R = U \ {taking} /\ taking \in U
              /\ Meets(b, taking, R, s, l, i, q, x)
              /\ BookOK(c, U, R, ahead, depth) /\ Charges(b, c, taking, R, q)
              /\ IsBook(m) /\ Reduced(c, m, i, q)
              /\ b' = IF x = 0 THEN Release(Unlink(m, i), i) ELSE m
              /\ TakerCharged(b, b', taking, q)
  BY Zenon, MatchParts
<1>3. PICK o, p : o = TakerOrder /\ p = level_price(l)
  OBVIOUS
<1>4. /\ o # NoTaker
      /\ o = [id |-> request.id, side |-> request.side, type |-> request.type,
              price |-> request.price, quantity |-> request.quantity,
              remaining |-> b.nodes[taking].remaining]
      /\ o.id = b.nodes[taking].id /\ o.side = b.nodes[taking].side
      /\ o.remaining = b.nodes[taking].remaining
  BY <1>1, <1>3, TakerIs DEF TakerInv, Takes
<1>5. o.remaining # 0 /\ Reference!Crosses
  BY <1>1, <1>3, CrossesIs
<1>6. TakerInv'
  <2>1. Takes(b', request, taking)
    BY Zenon, <1>1, <1>2 DEF TakerInv, Takes, TakerCharged
  <2> QED
    BY <1>1, <2>1 DEF TakerInv
<1>7. TakerOrder' = [o EXCEPT !.remaining = @ - q]
  <2>1. TakerOrder' = [id |-> request.id, side |-> request.side, type |-> request.type,
                       price |-> request.price, quantity |-> request.quantity,
                       remaining |-> b'.nodes[taking].remaining]
    BY <1>1 DEF TakerOrder
  <2>2. b'.nodes[taking].remaining = b.nodes[taking].remaining - q
    BY <1>2 DEF TakerCharged
  <2> QED
    BY <1>4, <2>1, <2>2
<1>8. /\ s \in Sides /\ s = Other(o.side) /\ l \in LevelIndices /\ l = b.best[s] /\ l # kInvalid
      /\ i = b.levels[s][l].head /\ i # kInvalid
  BY <1>2, <1>4, Invalid, BestIsLevel DEF Meets
<1>9. IsBook(b) /\ Resting(b, R, ahead)
  BY <1>2 DEF BookOK
<1>10. Reference!Other(o.side) = s /\ Reference!Best(s) = p
  BY <1>3, <1>8, <1>9, RefPlaces, BestIs
<1>11. view[s][p] = Entries(b, s, l) /\ Head(view[s][p]) = Entry(b, i)
  BY <1>3, <1>8, <1>9, ViewAt, HeadFirst
<1>12. PICK e : e = Head(view[s][p])
  OBVIOUS
<1>13. e.id = b.nodes[i].id /\ e.remaining = b.nodes[i].remaining
  BY <1>11, <1>12 DEF Entry
<1>14. q = (IF o.remaining < e.remaining THEN o.remaining ELSE e.remaining) /\ x = e.remaining - q
  BY <1>2, <1>4, <1>13 DEF Meets
<1>15. view' = Served(view, s, p, x)
  <2>1. R \in SUBSET U
    BY <1>2
  <2> QED
    BY <1>2, <1>3, <2>1, MatchView
<1>16. calls' = << TradeEvent(b.nodes[i].id, b.nodes[taking].id, p, q),
                   OrderEvent(b.nodes[i].id, IF x = 0 THEN "Filled" ELSE "PartiallyFilled", x) >>
  <2>1. /\ s = Other(b.nodes[taking].side) /\ l = b.best[s] /\ i = b.levels[s][l].head
        /\ q = IF b.nodes[taking].remaining < b.nodes[i].remaining THEN b.nodes[taking].remaining
               ELSE b.nodes[i].remaining
        /\ x = b.nodes[i].remaining - q
    BY Zenon, <1>2 DEF Meets
  <2> QED
    BY Zenon, <1>3, <2>1 DEF match
<1>17. calls' = << Reference!TradeEvent(e.id, o.id, p, q),
                   Reference!OrderEvent(e.id, IF x = 0 THEN "Filled" ELSE "PartiallyFilled", x) >>
  BY Zenon, <1>4, <1>13, <1>16 DEF TradeEvent, OrderEvent, Reference!TradeEvent, Reference!OrderEvent
<1>18. Reference!Fill
  BY Zenon, <1>3, <1>4, <1>5, <1>7, <1>10, <1>12, <1>14, <1>15, <1>17 DEF Reference!Fill, Served
<1> QED
  BY <1>6, <1>18

\* What follows the loop in submit and modify.
LEMMA ConcludeStep ==
    ASSUME DenseInv, TakerInv, view = ViewOf(b), view' = ViewOf(b'), Conclude
    PROVE  Reference!Finish /\ TakerInv'
<1>1. PICK o, r, t : o = b.nodes[taking] /\ r = (o.remaining # 0 /\ request.type = "Limit") /\ t = TakerOrder
  OBVIOUS
<1>2. /\ taking # kInvalid /\ ~Matches /\ taking' = kInvalid
      /\ b' = IF r THEN AppendTo(b, taking, o.level) ELSE Release(b, taking)
      /\ calls' = <<OrderEvent(o.id, IF o.remaining = 0 THEN "Filled"
                                     ELSE IF request.type = "Market" THEN "Canceled"
                                     ELSE IF o.remaining = request.quantity THEN "New"
                                     ELSE "PartiallyFilled", o.remaining)>>
  BY Zenon, <1>1 DEF Conclude
<1>3. PICK U, ahead, depth : BookOK(b, U, U \ {taking}, ahead, depth) /\ taking \in U
  BY <1>2 DEF DenseInv, InvOf
<1>4. o.next = kInvalid /\ o.remaining \in Nat /\ (request.type = "Limit" => o.level \in LevelIndices)
  BY <1>1, <1>2 DEF DenseInv, InvOf
<1>5. PICK R : R = U \ {taking}
  OBVIOUS
<1>6. /\ BookOK(b, U, R, ahead, depth) /\ R \in SUBSET U /\ taking \notin R
      /\ IsBook(b) /\ Resting(b, R, ahead) /\ taking \in Pool
  BY <1>3, <1>5 DEF BookOK, Pooled
<1>7. /\ t # NoTaker /\ t.id = o.id /\ t.side = o.side /\ t.type = request.type
      /\ t.price = request.price /\ t.quantity = request.quantity /\ t.remaining = o.remaining
      /\ o.side \in Sides /\ t.type \in {"Limit", "Market"}
      /\ t.type = "Limit" => t.price \in GridPrices /\ o.level = price_index(t.price)
  BY <1>1, <1>2, TakerIs DEF TakerInv, Takes
<1>8. t.remaining = 0 \/ ~Reference!Crosses
  BY <1>1, <1>2, CrossesIs
<1>9. r <=> t.remaining # 0 /\ t.type = "Limit"
  BY <1>1, <1>7
<1>10. view' = IF ~r THEN view ELSE Added(view, t.side, t.price, t.id, t.remaining)
  <2>1. CASE r
    <3>1. PICK l : l = o.level
      OBVIOUS
    <3>2. /\ l \in LevelIndices /\ l = b.nodes[taking].level /\ b.nodes[taking].next = kInvalid
          /\ b.nodes[taking].remaining \in Nat \ {0} /\ b' = AppendTo(b, taking, l)
      BY <1>1, <1>2, <1>4, <2>1, <3>1
    <3>3. ViewOf(b') = AppendedView(b, taking, l)
      BY <1>6, <3>2, AppendView
    <3>4. t.price = level_price(l)
      BY <1>7, <1>9, <2>1, <3>1, GridPrice
    <3>5. /\ t.side \in Sides /\ t.side = b.nodes[taking].side /\ t.id = b.nodes[taking].id
          /\ t.remaining = b.nodes[taking].remaining
      BY <1>1, <1>7
    <3>6. AppendedView(b, taking, l) = Added(ViewOf(b), t.side, t.price, t.id, t.remaining)
      BY <3>2, <3>4, <3>5, AppendedIs
    <3> QED
      BY Zenon, <2>1, <3>3, <3>6
  <2>2. CASE ~r
    <3>1. b' = Release(b, taking)
      BY <1>2, <2>2
    <3>2. ViewOf(Release(b, taking)) = ViewOf(b)
      BY <1>3, <1>6, ReleaseView
    <3> QED
      BY Zenon, <2>2, <3>1, <3>2
  <2> QED
    BY Zenon, <2>1, <2>2
<1>11. PICK w : w = CASE t.remaining = 0 -> "Filled"
                      [] t.type = "Market" /\ t.remaining # 0 -> "Canceled"
                      [] (t.remaining # 0 /\ t.type = "Limit") /\ t.remaining = t.quantity -> "New"
                      [] OTHER -> "PartiallyFilled"
  OBVIOUS
<1>12. w = IF o.remaining = 0 THEN "Filled"
           ELSE IF request.type = "Market" THEN "Canceled"
           ELSE IF o.remaining = request.quantity THEN "New"
           ELSE "PartiallyFilled"
  BY <1>7, <1>11
<1>13. calls' = <<Reference!OrderEvent(t.id, w, t.remaining)>>
  BY Zenon, <1>2, <1>7, <1>12 DEF OrderEvent, Reference!OrderEvent
<1>14. TakerOrder' = NoTaker /\ TakerInv'
  BY <1>2 DEF TakerOrder, TakerInv
<1>15. view' = IF ~(t.remaining # 0 /\ t.type = "Limit") THEN view
               ELSE Added(view, t.side, t.price, t.id, t.remaining)
  BY Zenon, <1>9, <1>10
<1>16. Reference!Finish
  BY Zenon, <1>1, <1>7, <1>8, <1>11, <1>13, <1>14, <1>15 DEF Reference!Finish, Added
<1> QED
  BY <1>14, <1>16

-----------------------------------------------------------------------------
(***************************************************************************)
(* The dense book implements the reference book.                           *)
(***************************************************************************)

\* The invariant: the lists of the dense book are sound, the taker's node is
\* that of the request it was made from, and the view is that of the book.
RefInv == DenseInv /\ TakerInv /\ view = ViewOf(b)

LEMMA RefInit == MCInit => Reference!BookInit /\ RefInv
<1> SUFFICES ASSUME MCInit PROVE Reference!BookInit /\ RefInv
  OBVIOUS
<1>1. DenseInit /\ view = ViewOf(b) /\ DenseInv /\ taking = kInvalid /\ calls = <<>>
  BY ViewIs, InitInv DEF MCInit, DenseInit
<1>2. PICK U, ahead, depth : BookOK(b, U, U, ahead, depth)
  BY <1>1, AtRest DEF DenseInv
<1>3. \A s \in Sides : \A l \in LevelIndices : Entries(b, s, l) = <<>>
  <2> TAKE s \in Sides
  <2> TAKE l \in LevelIndices
  <2>1. b.levels = [r \in Sides |-> [m \in LevelIndices |->
                       [head |-> kInvalid, tail |-> kInvalid, total |-> 0]]]
    BY <1>1 DEF DenseInit
  <2>2. b.levels[s][l].head = kInvalid
    BY <2>1
  <2>3. IsBook(b) /\ Resting(b, U, ahead)
    BY <1>2 DEF BookOK
  <2> QED
    BY <2>2, <2>3, EmptyLine
<1>4. \A p \in GridPrices : price_index(p) \in LevelIndices
  BY GridPrice
<1>5. view = [s \in Sides |-> [p \in GridPrices |-> <<>>]]
  BY <1>1, <1>3, <1>4 DEF ViewOf
<1>6. TakerOrder = NoTaker /\ TakerInv
  BY <1>1 DEF TakerOrder, TakerInv
<1> QED
  BY Zenon, <1>1, <1>5, <1>6, RefPlaces DEF Reference!BookInit, RefInv

LEMMA RefNext ==
    RefInv /\ [MCNext]_<<dense, view>> => [Reference!BookNext]_(Reference!book) /\ RefInv'
<1> SUFFICES ASSUME RefInv, [MCNext]_<<dense, view>>
             PROVE  [Reference!BookNext]_(Reference!book) /\ RefInv'
  OBVIOUS
<1>1. CASE MCNext
  <2>1. DenseInv /\ TakerInv /\ view = ViewOf(b) /\ DenseNext
    BY <1>1 DEF RefInv, MCNext
  <2>2. view' = ViewOf(b')
    BY <1>1, ViewIsNext DEF MCNext
  <2>3. DenseInv'
    BY <2>1, NextInv
  <2>4. (Reference!BookNext /\ TakerInv')
    <3>1. ASSUME Reference!FeedStep, Feeding PROVE Reference!BookNext /\ TakerInv'
      <4>1. taking' = kInvalid
        BY <2>1, <3>1, FeedIdle
      <4> QED
        BY <3>1, <4>1 DEF Reference!BookNext, TakerInv
    <3>2. ASSUME NEW id \in OrderIds, NEW side \in Sides, NEW price \in FeedPrices,
                 NEW quantity \in Quantities, feed_add(id, side, price, quantity)
          PROVE  Reference!BookNext /\ TakerInv'
      BY <2>1, <2>2, <3>1, <3>2, FeedAddStep DEF feed_add
    <3>3. ASSUME NEW id \in OrderIds, NEW quantity \in Quantities, feed_reduce(id, quantity)
          PROVE  Reference!BookNext /\ TakerInv'
      BY <2>1, <2>2, <3>1, <3>3, FeedReduceStep DEF feed_reduce
    <3>4. ASSUME NEW id \in OrderIds, feed_delete(id)
          PROVE  Reference!BookNext /\ TakerInv'
      BY <2>1, <2>2, <3>1, <3>4, FeedDeleteStep DEF feed_delete
    <3>5. ASSUME NEW id \in OrderIds, NEW new_id \in OrderIds, NEW price \in FeedPrices,
                 NEW quantity \in Quantities, feed_replace(id, new_id, price, quantity)
          PROVE  Reference!BookNext /\ TakerInv'
      BY <2>1, <2>2, <3>1, <3>5, FeedReplaceStep DEF feed_replace
    <3>6. ASSUME NEW r \in Requests, submit(r)
          PROVE  Reference!BookNext /\ TakerInv'
      <4>1. (Reference!Submit(r) \/ Reference!Reject(r)) /\ TakerInv'
        BY <2>1, <2>2, <3>6, SubmitStep
      <4> QED
        BY Zenon, <4>1 DEF Reference!BookNext, Reference!TradingStep
    <3>7. ASSUME NEW id \in OrderIds, cancel(id)
          PROVE  Reference!BookNext /\ TakerInv'
      <4>1. id \in Reference!Resting /\ Reference!Cancel(id) /\ TakerInv'
        BY <2>1, <2>2, <3>7, CancelStep
      <4> QED
        BY Zenon, <4>1 DEF Reference!BookNext, Reference!TradingStep
    <3>8. ASSUME NEW id \in OrderIds, NEW price \in FeedPrices, NEW quantity \in Quantities,
                 modify(id, price, quantity)
          PROVE  Reference!BookNext /\ TakerInv'
      <4>1. /\ id \in Reference!Resting /\ price \in GridPrices
            /\ Reference!Modify(id, price, quantity) /\ TakerInv'
        BY <2>1, <2>2, <3>8, ModifyStep
      <4> QED
        BY Zenon, <4>1 DEF Reference!BookNext, Reference!TradingStep
    <3>9. ASSUME match PROVE Reference!BookNext /\ TakerInv'
      <4>1. Reference!Fill /\ TakerInv'
        BY <2>1, <2>2, <3>9, MatchStep
      <4> QED
        BY Zenon, <4>1 DEF Reference!BookNext, Reference!TradingStep
    <3>10. ASSUME Conclude PROVE Reference!BookNext /\ TakerInv'
      <4>1. Reference!Finish /\ TakerInv'
        BY <2>1, <2>2, <3>10, ConcludeStep
      <4> QED
        BY Zenon, <4>1 DEF Reference!BookNext, Reference!TradingStep
    <3> QED
      BY Zenon, <2>1, <3>2, <3>3, <3>4, <3>5, <3>6, <3>7, <3>8, <3>9, <3>10 DEF DenseNext
  <2> QED
    BY <2>2, <2>3, <2>4 DEF RefInv
<1>2. CASE UNCHANGED <<dense, view>>
  <2>1. b' = b /\ use' = use /\ request' = request /\ taking' = taking /\ calls' = calls /\ view' = view
    BY <1>2 DEF dense
  <2>2. DenseInv' /\ TakerInv' /\ view' = ViewOf(b')
    BY <2>1 DEF RefInv, DenseInv, TakerInv
  <2>3. TakerOrder' = TakerOrder
    BY <2>1 DEF TakerOrder
  <2>4. UNCHANGED Reference!book
    BY <2>1, <2>3 DEF Reference!book
  <2> QED
    BY <2>2, <2>4 DEF RefInv
<1> QED
  BY <1>1, <1>2

\* The pool, the links, the bitmap and the best levels of the dense book keep
\* the queues of the reference book PriceTimeOrderBook: every operation of a
\* feed and of matching, each pass of match() included, is a step of the
\* reference book with the same trades and order updates in the same order,
\* or one of the rejections that FeedBook adds.  Price-time priority follows.
THEOREM DenseImplementsReference == MCSpec => ImplementsReference
<1>1. MCInit => Reference!BookInit /\ RefInv
  BY RefInit
<1>2. RefInv /\ [MCNext]_<<dense, view>> => [Reference!BookNext]_(Reference!book) /\ RefInv'
  BY RefNext
<1> QED
  BY <1>1, <1>2, PTL DEF MCSpec, ImplementsReference, Reference!BookSpec
=============================================================================
