------------------------- MODULE MatchingBookProofs -------------------------
(***************************************************************************)
(* IInv is an inductive invariant of MatchingBook, for every set of ids,   *)
(* prices, orders and deltas, and the safety properties follow from it.    *)
(*                                                                         *)
(* The last sections are about the book behind its adapter, in Engines:    *)
(* for every workload the adapter only makes calls the book allows and     *)
(* replaces nothing, so the book's theorems carry over, and trades are     *)
(* reported at the maker's price exactly as long as their cost fits in a   *)
(* word.                                                                   *)
(***************************************************************************)
EXTENDS MatchingBookInv, Engines, TLAPS, FiniteSetTheorems, WellFoundedInduction

-----------------------------------------------------------------------------
(* Orders and quantities.                                                  *)

LEMMA WordFacts ==
  /\ WordSize \in Nat /\ WordSize > 0
  /\ Word \subseteq Nat /\ 0 \in Word
  /\ \A n \in Nat : n \in Word <=> n < WordSize
BY ConstantsAssumption DEF Word, ConstantsAssumption

LEMMA BlankOrder == Blank \in Order
BY WordFacts DEF Blank, Order

\* Reduction modulo the word size stays in a word, and is the identity there.
LEMMA WordMod ==
  /\ \A n \in Int : n % WordSize \in Word
  /\ \A n \in Word : n % WordSize = n
<1>1. ASSUME NEW n \in Int PROVE n % WordSize \in Word
  BY WordFacts DEF Word
<1>2. ASSUME NEW n \in Word PROVE n % WordSize = n
  BY WordFacts DEF Word
<1>3. QED BY <1>1, <1>2

LEMMA OrderFields ==
  ASSUME NEW o \in Order
  PROVE /\ o.price \in Nat /\ o.stop \in Nat
        /\ o.price # 0 => o.price \in Prices
        /\ o.stop # 0 => o.stop \in Prices
        /\ o.qty \in Nat /\ o.filled \in Nat
        /\ o.qty < WordSize /\ o.filled < WordSize
        /\ o.buy \in BOOLEAN /\ o.aon \in BOOLEAN /\ o.ioc \in BOOLEAN
<1>1. /\ o.price \in Prices \cup {0} /\ o.stop \in Prices \cup {0}
      /\ o.qty \in Word /\ o.filled \in Word
      /\ o.buy \in BOOLEAN /\ o.aon \in BOOLEAN /\ o.ioc \in BOOLEAN
  BY DEF Order
<1>2. Prices \subseteq Nat
  BY ConstantsAssumption DEF ConstantsAssumption
<1>3. QED BY <1>1, <1>2, WordFacts

LEMMA OpenFacts ==
  ASSUME NEW o, o.qty \in Nat, o.filled \in Nat
  PROVE /\ OpenQty(o) \in Nat
        /\ OpenQty(o) <= o.qty
        /\ OpenQty(o) > 0 <=> o.filled < o.qty
        /\ o.filled <= o.qty => OpenQty(o) = o.qty - o.filled
BY DEF OpenQty

-----------------------------------------------------------------------------
(* The sweep order of a tree.                                              *)

LEMMA KeyType ==
  ASSUME TypeOK, NEW x \in Ids
  PROVE Key(x) \in Nat
<1>1. order[x] \in Order
  BY DEF TypeOK
<1>2. QED BY <1>1, OrderFields DEF Key, KeyIn

LEMMA BeforeIsOrder ==
  ASSUME TypeOK, Arrival, NEW x \in Ids, NEW y \in Ids, NEW z \in Ids,
         tree[x] \in Trees, tree[y] = tree[x], tree[z] = tree[x]
  PROVE /\ ~Before(x, x)
        /\ Before(x, y) => ~Before(y, x)
        /\ x # y => Before(x, y) \/ Before(y, x)
        /\ Before(x, y) /\ Before(y, z) => Before(x, z)
<1>1. Key(x) \in Nat /\ Key(y) \in Nat /\ Key(z) \in Nat
  BY KeyType
<1> DEFINE kx == Key(x)  ky == Key(y)  kz == Key(z)
<1> HIDE DEF kx, ky, kz
<1>2. QED BY <1>1 DEF Before, Better, Arrival, kx, ky, kz

\* What the iterator is set to: the end exactly when nothing is left, else an
\* order swept before the others.
LEMMA FirstIs ==
  ASSUME NEW S, NEW v \in First(S)
  PROVE \/ v = None /\ S = {}
        \/ v \in S /\ \A y \in S : y = v \/ Before(v, y)
BY DEF First

-----------------------------------------------------------------------------
(* What a step may do to the trees: nothing, remove one order, add one.    *)

Same(x) == /\ order'[x].buy = order[x].buy
           /\ order'[x].price = order[x].price
           /\ order'[x].stop = order[x].stop

\* The trees hold the same orders, in the same places.
Kept ==
  /\ tree' = tree
  /\ ahead' = ahead
  /\ \A x \in Ids : tree[x] \in Trees => Same(x)

\* m has left its tree.
Removed(m) ==
  /\ tree[m] \in Trees
  /\ tree' = [tree EXCEPT ![m] = "out"]
  /\ ahead' = [y \in Ids |-> IF y = m THEN {} ELSE ahead[y] \ {m}]
  /\ \A x \in Ids \ {m} : tree[x] \in Trees => Same(x)

\* m has joined the tree t of its side, behind everyone at its key.
Added(m, t) ==
  /\ tree[m] = "out"
  /\ t \in Trees
  /\ t \in {"bids", "stopBids"} <=> order'[m].buy
  /\ tree' = [tree EXCEPT ![m] = t]
  /\ ahead' = [ahead EXCEPT
                 ![m] = {y \in InTree(t) : Key(y) = KeyIn(t, order'[m])}]
  /\ \A x \in Ids \ {m} : tree[x] \in Trees => Same(x)

LEMMA KeptFacts ==
  ASSUME TypeOK, Sides, Arrival, Kept
  PROVE /\ Sides' /\ Arrival'
        /\ \A t : InTree(t)' = InTree(t)
        /\ \A x, y \in Ids : tree[x] \in Trees /\ tree[y] = tree[x] =>
             (Before(x, y)' <=> Before(x, y))
<1>1. \A x \in Ids : tree[x] \in Trees => Key(x)' = Key(x)
  BY DEF Kept, Same, Key, KeyIn
<1>2. Sides'
  BY DEF Sides, Kept, Same, Trees
<1>3. Arrival'
  BY <1>1 DEF Arrival, Kept
<1>4. \A t : InTree(t)' = InTree(t)
  BY DEF InTree, Kept
<1>5. \A x, y \in Ids : tree[x] \in Trees /\ tree[y] = tree[x] =>
        (Before(x, y)' <=> Before(x, y))
  BY <1>1 DEF Before, Kept
<1>6. QED BY <1>2, <1>3, <1>4, <1>5

LEMMA RemovedFacts ==
  ASSUME TypeOK, Sides, Arrival, NEW m \in Ids, Removed(m)
  PROVE /\ Sides' /\ Arrival'
        /\ \A t \in Trees : InTree(t)' = InTree(t) \ {m}
        /\ \A x, y \in Ids \ {m} : tree[x] \in Trees /\ tree[y] = tree[x] =>
             (Before(x, y)' <=> Before(x, y))
<1>0. /\ tree \in [Ids -> Trees \cup {"out"}]
      /\ ahead \in [Ids -> SUBSET Ids]
  BY DEF TypeOK
<1>a. /\ \A x \in Ids : tree'[x] = IF x = m THEN "out" ELSE tree[x]
      /\ \A x \in Ids : ahead'[x] = IF x = m THEN {} ELSE ahead[x] \ {m}
      /\ "out" \notin Trees
  BY <1>0 DEF Removed, Trees
<1>b. \A x, y \in Ids :
        y \in ahead'[x] <=> x # m /\ y # m /\ y \in ahead[x]
  BY <1>a
<1>c. \A x \in Ids : tree'[x] \in Trees <=> x # m /\ tree[x] \in Trees
  BY <1>a
<1>1. \A x \in Ids \ {m} : tree[x] \in Trees => Key(x)' = Key(x)
  BY <1>a DEF Removed, Same, Key, KeyIn
<1>2. Sides'
  BY <1>a DEF Sides, Removed, Same, Trees
<1>3. Arrival'
  <2>1. \A x, y \in Ids : y \in ahead'[x] =>
          /\ tree'[x] \in Trees /\ tree'[y] = tree'[x]
          /\ Key(y)' = Key(x)' /\ x \notin ahead'[y]
    BY <1>a, <1>b, <1>c, <1>1, SMTT(30) DEF Arrival
  <2>2. \A x, y \in Ids :
          x # y /\ tree'[x] \in Trees /\ tree'[y] = tree'[x] /\ Key(y)' = Key(x)'
          => x \in ahead'[y] \/ y \in ahead'[x]
    BY <1>a, <1>b, <1>c, <1>1, SMTT(30) DEF Arrival
  <2>3. \A x, y, z \in Ids :
          x \in ahead'[y] /\ y \in ahead'[z] => x \in ahead'[z]
    BY <1>b DEF Arrival
  <2>4. QED BY <2>1, <2>2, <2>3 DEF Arrival
<1>4. \A t \in Trees : InTree(t)' = InTree(t) \ {m}
  BY <1>a DEF InTree
<1>5. \A x, y \in Ids \ {m} : tree[x] \in Trees /\ tree[y] = tree[x] =>
        (Before(x, y)' <=> Before(x, y))
  BY <1>a, <1>1 DEF Before
<1>6. QED BY <1>2, <1>3, <1>4, <1>5

LEMMA AddedFacts ==
  ASSUME TypeOK, Sides, Arrival, NEW m \in Ids, NEW t, Added(m, t)
  PROVE /\ Sides' /\ Arrival'
        /\ \A s \in Trees :
             InTree(s)' = IF s = t THEN InTree(s) \cup {m} ELSE InTree(s)
        /\ \A x, y \in Ids \ {m} : tree[x] \in Trees /\ tree[y] = tree[x] =>
             (Before(x, y)' <=> Before(x, y))
<1>0. /\ tree \in [Ids -> Trees \cup {"out"}]
      /\ ahead \in [Ids -> SUBSET Ids]
  BY DEF TypeOK
<1> DEFINE peers == {y \in InTree(t) : Key(y) = KeyIn(t, order'[m])}
<1>a. /\ \A x \in Ids : tree'[x] = IF x = m THEN t ELSE tree[x]
      /\ \A x \in Ids : ahead'[x] = IF x = m THEN peers ELSE ahead[x]
      /\ "out" \notin Trees
      /\ tree[m] = "out" /\ t \in Trees
  BY <1>0 DEF Added, Trees
<1>b. \A y \in Ids : y \in peers <=>
        tree[y] = t /\ Key(y) = KeyIn(t, order'[m])
  BY DEF InTree
<1>1. /\ \A x \in Ids \ {m} : tree[x] \in Trees => Key(x)' = Key(x)
      /\ Key(m)' = KeyIn(t, order'[m])
  BY <1>a DEF Added, Same, Key, KeyIn
<1>2. Sides'
  BY <1>a DEF Sides, Added, Same, Trees
<1>c. \A y \in Ids : m \notin ahead[y]
  BY <1>a DEF Arrival
<1> HIDE DEF peers
<1>3. Arrival'
  <2>1. \A x, y \in Ids : y \in ahead'[x] =>
          /\ tree'[x] \in Trees /\ tree'[y] = tree'[x]
          /\ Key(y)' = Key(x)' /\ x \notin ahead'[y]
    BY <1>a, <1>b, <1>c, <1>1 DEF Arrival
  <2>2. \A x, y \in Ids :
          x # y /\ tree'[x] \in Trees /\ tree'[y] = tree'[x] /\ Key(y)' = Key(x)'
          => x \in ahead'[y] \/ y \in ahead'[x]
    BY <1>a, <1>b, <1>1 DEF Arrival
  <2>3. \A x, y, z \in Ids :
          x \in ahead'[y] /\ y \in ahead'[z] => x \in ahead'[z]
    BY <1>a, <1>b, <1>c DEF Arrival
  <2>4. QED BY <2>1, <2>2, <2>3 DEF Arrival
<1>4. \A s \in Trees :
        InTree(s)' = IF s = t THEN InTree(s) \cup {m} ELSE InTree(s)
  BY <1>a DEF InTree
<1>5. \A x, y \in Ids \ {m} : tree[x] \in Trees /\ tree[y] = tree[x] =>
        (Before(x, y)' <=> Before(x, y))
  BY <1>a, <1>1 DEF Before
<1>6. QED BY <1>2, <1>3, <1>4, <1>5

-----------------------------------------------------------------------------
(* Types of what the operations assign.                                    *)

Levels == [Trees -> [Prices -> [qty : Word, count : Int]]]

LEMMA LevelType ==
  ASSUME TypeOK, NEW t, NEW k, NEW q \in Int, NEW n \in Int
  PROVE LevelPlus(t, k, q, n) \in Levels
<1>1. level \in Levels
  BY DEF TypeOK, Levels
<1> DEFINE a == [level EXCEPT ![t][k].qty = (@ + q) % WordSize]
           b == [a EXCEPT ![t][k].count = @ + n]
<1>2. a \in Levels
  <2>1. CASE t \in Trees /\ k \in Prices
    <3>1. level[t][k] \in [qty : Word, count : Int]
      BY <1>1, <2>1 DEF Levels
    <3>a. level[t][k].qty \in Nat
      BY <3>1, WordFacts
    <3>b. level[t][k].qty + q \in Int
      BY <3>a
    <3>2. (level[t][k].qty + q) % WordSize \in Word
      BY <3>b, WordMod, Zenon
    <3>3. [level[t][k] EXCEPT !.qty = (@ + q) % WordSize]
             \in [qty : Word, count : Int]
      BY <3>1, <3>2
    <3>4. QED BY <1>1, <3>3, <2>1 DEF Levels
  <2>2. CASE ~(t \in Trees /\ k \in Prices)
    BY <1>1, <2>2 DEF Levels
  <2>3. QED BY <2>1, <2>2
<1>3. b \in Levels
  <2> HIDE DEF a
  <2>1. CASE t \in Trees /\ k \in Prices
    <3>1. a[t][k] \in [qty : Word, count : Int]
      BY <1>2, <2>1 DEF Levels
    <3>3. [a[t][k] EXCEPT !.count = @ + n] \in [qty : Word, count : Int]
      BY <3>1
    <3>4. QED BY <1>2, <3>3, <2>1 DEF Levels
  <2>2. CASE ~(t \in Trees /\ k \in Prices)
    BY <1>2, <2>2 DEF Levels
  <2>3. QED BY <2>1, <2>2
<1>4. LevelPlus(t, k, q, n) = b
  BY DEF LevelPlus
<1>5. QED BY <1>3, <1>4

LEMMA FilledType ==
  ASSUME NEW o \in Order, NEW q \in Nat, q <= OpenQty(o)
  PROVE /\ Filled(o, q) \in Order
        /\ Filled(o, q).filled = o.filled + q
        /\ Filled(o, q).qty = o.qty
        /\ Filled(o, q).buy = o.buy
        /\ Filled(o, q).price = o.price
        /\ Filled(o, q).stop = o.stop
        /\ Filled(o, q).aon = o.aon
        /\ Filled(o, q).ioc = o.ioc
        /\ OpenQty(Filled(o, q)) = OpenQty(o) - q
        /\ q < OpenQty(o) => o.filled + q < o.qty
        /\ o.filled <= o.qty => o.filled + q <= o.qty
        /\ o.filled + q >= o.qty <=> q = OpenQty(o)
<1>1. o.qty \in Nat /\ o.filled \in Nat /\ o.qty < WordSize /\ o.filled < WordSize
  BY OrderFields
<1>2. o.filled + q \in Word
  BY <1>1, WordFacts DEF OpenQty
<1>3. Filled(o, q) \in Order
  BY <1>2 DEF Order, Filled
<1>4. /\ Filled(o, q).qty = o.qty
      /\ Filled(o, q).filled = o.filled + q
      /\ Filled(o, q).buy = o.buy
      /\ Filled(o, q).price = o.price
      /\ Filled(o, q).stop = o.stop
      /\ Filled(o, q).aon = o.aon
      /\ Filled(o, q).ioc = o.ioc
  BY DEF Order, Filled
<1>5. OpenQty(Filled(o, q)) = OpenQty(o) - q
  BY <1>1, <1>4 DEF OpenQty
<1>6. q < OpenQty(o) => o.filled + q < o.qty
  BY <1>1 DEF OpenQty
<1>7. o.filled <= o.qty => o.filled + q <= o.qty
  BY <1>1 DEF OpenQty
<1>8. o.filled + q >= o.qty <=> q = OpenQty(o)
  BY <1>1 DEF OpenQty
<1>9. QED BY <1>3, <1>4, <1>5, <1>6, <1>7, <1>8

BookType ==
  /\ order \in [Ids -> Order]
  /\ tree \in [Ids -> Trees \cup {"out"}]
  /\ ahead \in [Ids -> SUBSET Ids]
  /\ level \in Levels
  /\ marketPrice \in Nat

\* A trade fills both orders; a maker left with nothing is removed, another
\* stays exactly where it is.
LEMMA TradeFacts ==
  ASSUME TypeOK, cur \in Ids, tree[cur] = "out",
         NEW m \in Ids, tree[m] = Opposite,
         NEW q \in Nat, q <= Open(cur), q <= Open(m), Trade(m, q)
  PROVE /\ BookType'
        /\ m # cur
        /\ \A x \in Ids \ {cur, m} : order'[x] = order[x]
        /\ order'[cur] = Filled(order[cur], q)
        /\ q = Open(m) => Removed(m) /\ order'[m] = Blank
        /\ q # Open(m) =>
             Kept /\ order'[m] = Filled(order[m], q)
<1>1. /\ order \in [Ids -> Order] /\ order[m] \in Order /\ order[cur] \in Order
      /\ tree \in [Ids -> Trees \cup {"out"}]
      /\ ahead \in [Ids -> SUBSET Ids]
      /\ level \in Levels
  BY DEF TypeOK, Levels
<1>2. /\ order[m].qty \in Nat /\ order[m].filled \in Nat
      /\ order[m].price \in Nat
  BY <1>1, OrderFields
<1>3. tree[m] \in Trees /\ "out" \notin Trees /\ m # cur
  BY DEF Opposite, Trees
<1> DEFINE done == order[m].filled + q >= order[m].qty
           c1 == Filled(order[cur], q)
           m1 == Filled(order[m], q)
<1>4. done <=> q = Open(m)
  BY <1>1, <1>2, FilledType DEF Open
<1>5. c1 \in Order /\ m1 \in Order
  BY <1>1, FilledType DEF Open
<1>6. order' = [order EXCEPT ![cur] = c1, ![m] = IF done THEN Blank ELSE m1]
  BY <1>1, <1>3 DEF Trade
<1> HIDE DEF c1, m1, done
<1>7. /\ order'[cur] = c1
      /\ order'[m] = IF done THEN Blank ELSE m1
      /\ \A x \in Ids \ {cur, m} : order'[x] = order[x]
      /\ order' \in [Ids -> Order]
  BY <1>1, <1>3, <1>5, <1>6, BlankOrder
<1>8. level' \in Levels
  <2>1. -q \in Int /\ (IF done THEN -1 ELSE 0) \in Int
    OBVIOUS
  <2>2. level' = LevelPlus(tree[m], Key(m), -q, IF done THEN -1 ELSE 0)
    BY DEF Trade, done
  <2>3. QED BY <2>1, <2>2, LevelType
<1>9. marketPrice' \in Nat
  BY <1>2 DEF Trade
<1>10. CASE done
  <2>1. /\ tree' = [tree EXCEPT ![m] = "out"]
        /\ ahead' = [y \in Ids |-> IF y = m THEN {} ELSE ahead[y] \ {m}]
    BY <1>10 DEF Trade, done
  <2>2. Removed(m)
    BY <1>3, <1>7, <2>1 DEF Removed, Same
  <2>3. tree' \in [Ids -> Trees \cup {"out"}] /\ ahead' \in [Ids -> SUBSET Ids]
    BY <1>1, <2>1
  <2>4. QED
    BY <1>3, <1>4, <1>7, <1>8, <1>9, <1>10, <2>2, <2>3 DEF BookType, c1
<1>11. CASE ~done
  <2>1. tree' = tree /\ ahead' = ahead
    BY <1>11 DEF Trade, done
  <2>2. Same(m)
    BY <1>1, <1>7, <1>11, FilledType DEF Same, m1, Open
  <2>3. Kept
    BY <1>3, <1>7, <2>1, <2>2 DEF Kept, Same
  <2>4. QED
    BY <1>1, <1>3, <1>4, <1>7, <1>8, <1>9, <1>11, <2>1, <2>3
    DEF BookType, c1, m1
<1>12. QED BY <1>10, <1>11

\* An erased order leaves its tree and nothing else moves.
LEMMA EraseFacts ==
  ASSUME TypeOK, NEW m \in Ids, tree[m] \in Trees, Erase(m),
         \A x \in Ids \ {m} : order'[x] = order[x]
  PROVE /\ Removed(m)
        /\ tree' \in [Ids -> Trees \cup {"out"}]
        /\ ahead' \in [Ids -> SUBSET Ids]
        /\ level' \in Levels
<1>1. /\ tree \in [Ids -> Trees \cup {"out"}]
      /\ ahead \in [Ids -> SUBSET Ids]
  BY DEF TypeOK
<1>2. Removed(m)
  BY DEF Erase, Removed, Same
<1>3. -Open(m) \in Int /\ -1 \in Int
  <2>1. order[m] \in Order
    BY DEF TypeOK
  <2>2. Open(m) \in Nat
    BY <2>1, OrderFields, OpenFacts DEF Open
  <2>3. QED BY <2>2
<1>4. level' \in Levels
  <2>1. level' = LevelPlus(tree[m], Key(m), -Open(m), -1)
    BY DEF Erase
  <2>2. QED BY <1>3, <2>1, LevelType
<1>5. QED BY <1>1, <1>2, <1>4 DEF Erase

\* An inserted order joins the tree of its side.
LEMMA InsertFacts ==
  ASSUME TypeOK, NEW m \in Ids, tree[m] = "out", NEW o \in Order,
         NEW t \in Trees, t \in {"bids", "stopBids"} <=> o.buy, Insert(t, m, o)
  PROVE /\ Added(m, t)
        /\ order' = [order EXCEPT ![m] = o]
        /\ order' \in [Ids -> Order]
        /\ tree' \in [Ids -> Trees \cup {"out"}]
        /\ ahead' \in [Ids -> SUBSET Ids]
        /\ level' \in Levels
<1>1. /\ order \in [Ids -> Order]
      /\ tree \in [Ids -> Trees \cup {"out"}]
      /\ ahead \in [Ids -> SUBSET Ids]
  BY DEF TypeOK
<1>2. /\ order' = [order EXCEPT ![m] = o]
      /\ tree' = [tree EXCEPT ![m] = t]
      /\ ahead' = [ahead EXCEPT ![m] = {y \in InTree(t) : Key(y) = KeyIn(t, o)}]
      /\ level' = LevelPlus(t, KeyIn(t, o), OpenQty(o), 1)
  BY DEF Insert
<1>3. order'[m] = o /\ \A x \in Ids \ {m} : order'[x] = order[x]
  BY <1>1, <1>2
<1>4. Added(m, t)
  BY <1>2, <1>3 DEF Added, Same
<1>5. level' \in Levels
  <2>1. OpenQty(o) \in Int /\ 1 \in Int
    <3>1. OpenQty(o) \in Nat
      BY OrderFields, OpenFacts
    <3>2. QED BY <3>1
  <2>2. QED BY <1>2, <2>1, LevelType
<1>6. {y \in InTree(t) : Key(y) = KeyIn(t, o)} \subseteq Ids
  BY DEF InTree
<1>7. QED BY <1>1, <1>2, <1>4, <1>5, <1>6

-----------------------------------------------------------------------------
(* The part of the invariant that speaks of the trees only.                *)

\* An all-or-none order in a tree has no fills.
WholeInTree ==
  \A x \in Resting \cup Parked : order[x].aon => order[x].filled = 0

BookInv ==
  Sides /\ Arrival /\ Residents /\ WholeInTree /\ Uncrossed

\* A resting order changed its quantities only, and still fits there.
Resized(x) ==
  /\ tree[x] \in {"bids", "asks"}
  /\ order'[x].ioc = order[x].ioc
  /\ order'[x].aon = order[x].aon
  /\ order[x].aon => order'[x].filled = 0

LEMMA BookInvNow == IInv => BookInv
BY DEF IInv, BookInv, WholeInTree, AllOrNone

LEMMA InTrees ==
  ASSUME NEW x \in Ids
  PROVE /\ x \in Resting <=> tree[x] \in {"bids", "asks"}
        /\ x \in Parked <=> tree[x] \in {"stopBids", "stopAsks"}
        /\ \A t : x \in InTree(t) <=> tree[x] = t
        /\ tree[x] \in Trees <=> x \in Resting \cup Parked
BY DEF Resting, Parked, InTree, Trees

\* Nothing moves in the trees: they stay as they should be.
LEMMA KeptBook ==
  ASSUME TypeOK, BookInv, Kept,
         \A x \in Ids :
           tree[x] \in Trees => order'[x] = order[x] \/ Resized(x)
  PROVE BookInv'
<1>1. Sides' /\ Arrival'
  BY KeptFacts DEF BookInv
<1>2. \A t : InTree(t)' = InTree(t)
  BY DEF Kept, InTree
<1>3. \A x \in Resting \cup Parked :
        x \in Ids /\ tree[x] \in Trees /\ Same(x)
  BY InTrees DEF Kept, Resting, Parked, InTree
<1>4. Residents'
  <2>1. Resting' = Resting /\ Parked' = Parked
    BY <1>2 DEF Resting, Parked
  <2>2. ASSUME NEW x \in Resting PROVE order'[x].price # 0 /\ ~order'[x].ioc
    BY <1>3, <2>2 DEF BookInv, Residents, Same, Resized
  <2>3. ASSUME NEW x \in Parked
        PROVE order'[x].stop # 0 /\ order'[x].filled < order'[x].qty
    <3>1. x \in Ids /\ tree[x] \in {"stopBids", "stopAsks"}
      BY <2>3, InTrees DEF Parked, InTree
    <3>2. tree[x] \in Trees /\ ~Resized(x)
      BY <3>1 DEF Resized, Trees
    <3>3. order'[x] = order[x]
      BY <3>1, <3>2
    <3>4. QED BY <2>3, <3>3 DEF BookInv, Residents
  <2>4. QED BY <2>1, <2>2, <2>3 DEF Residents
<1>5. WholeInTree'
  BY <1>2, <1>3 DEF BookInv, WholeInTree, Resting, Parked, Resized
<1>6. Uncrossed'
  BY <1>2, <1>3 DEF BookInv, Uncrossed, Resting, Same, Resized
<1>7. QED BY <1>1, <1>4, <1>5, <1>6 DEF BookInv

\* An order leaves: the others stay as they should be.
LEMMA RemovedBook ==
  ASSUME TypeOK, BookInv, NEW m \in Ids, Removed(m),
         \A x \in Ids \ {m} : tree[x] \in Trees => order'[x] = order[x]
  PROVE BookInv'
<1>1. /\ Sides' /\ Arrival'
      /\ \A t \in Trees : InTree(t)' = InTree(t) \ {m}
  BY RemovedFacts DEF BookInv
<1>2. /\ InTree("bids")' = InTree("bids") \ {m}
      /\ InTree("asks")' = InTree("asks") \ {m}
      /\ InTree("stopBids")' = InTree("stopBids") \ {m}
      /\ InTree("stopAsks")' = InTree("stopAsks") \ {m}
  BY <1>1 DEF Trees
<1>3. /\ Resting' = Resting \ {m}
      /\ Parked' = Parked \ {m}
  BY <1>2 DEF Resting, Parked
<1>4. \A x \in (Resting \cup Parked) \ {m} : order'[x] = order[x]
  BY InTrees DEF Resting, Parked, InTree
<1>5. Residents'
  BY <1>3, <1>4 DEF BookInv, Residents
<1>6. WholeInTree'
  BY <1>3, <1>4 DEF BookInv, WholeInTree
<1>7. Uncrossed'
  BY <1>2, <1>4 DEF BookInv, Uncrossed, Resting
<1>8. QED BY <1>1, <1>5, <1>6, <1>7 DEF BookInv

\* An order joins: it must be whole if it is all-or-none, open if it is parked,
\* and not cross a regular order of the other side.
LEMMA AddedBook ==
  ASSUME TypeOK, BookInv, NEW m \in Ids, NEW o \in Order, NEW t \in Trees,
         Added(m, t), order' = [order EXCEPT ![m] = o],
         o.aon => o.filled = 0,
         t \in {"bids", "asks"} => o.price # 0 /\ ~o.ioc,
         t \in {"stopBids", "stopAsks"} => o.stop # 0 /\ o.filled < o.qty,
         t = "bids" => \A a \in InTree("asks") :
                         o.price >= order[a].price => o.aon \/ order[a].aon,
         t = "asks" => \A b \in InTree("bids") :
                         order[b].price >= o.price => order[b].aon \/ o.aon
  PROVE BookInv'
<1>1. /\ Sides' /\ Arrival'
      /\ \A s \in Trees :
           InTree(s)' = IF s = t THEN InTree(s) \cup {m} ELSE InTree(s)
  BY AddedFacts DEF BookInv
<1>2. order'[m] = o /\ \A x \in Ids \ {m} : order'[x] = order[x]
  BY DEF TypeOK
<1>3. m \notin Resting \cup Parked
  BY InTrees DEF Added, Trees
<1>4. \A x \in Resting \cup Parked : order'[x] = order[x]
  BY <1>2, <1>3 DEF Resting, Parked, InTree
<1>5. /\ Resting' = IF t \in {"bids", "asks"} THEN Resting \cup {m} ELSE Resting
      /\ Parked' = IF t \in {"bids", "asks"} THEN Parked ELSE Parked \cup {m}
  BY <1>1 DEF Resting, Parked, Trees
<1>6. Residents'
  BY <1>2, <1>4, <1>5 DEF BookInv, Residents, Trees
<1>7. WholeInTree'
  BY <1>2, <1>4, <1>5 DEF BookInv, WholeInTree
<1>8. Uncrossed'
  <2>1. /\ InTree("bids")' = IF t = "bids" THEN InTree("bids") \cup {m}
                                           ELSE InTree("bids")
        /\ InTree("asks")' = IF t = "asks" THEN InTree("asks") \cup {m}
                                           ELSE InTree("asks")
    BY <1>1 DEF Trees
  <2>2. \A x \in InTree("bids") \cup InTree("asks") : order'[x] = order[x]
    BY <1>4 DEF Resting
  <2>3. QED BY <1>2, <2>1, <2>2 DEF BookInv, Uncrossed
<1>9. QED BY <1>1, <1>6, <1>7, <1>8 DEF BookInv

-----------------------------------------------------------------------------
(* The list of fired stops.                                                *)

Distinct(s) == \A i, j \in DOMAIN s : s[i] = s[j] => i = j

LEMMA FiredAppend ==
  ASSUME TypeOK, Distinct(fired), NEW x \in Ids, x \notin Pending,
         fired' = Append(fired, x)
  PROVE /\ fired' \in Seq(Ids)
        /\ Distinct(fired')
        /\ Pending' = Pending \cup {x}
<1>1. /\ fired \in Seq(Ids) /\ Len(fired) \in Nat
      /\ DOMAIN fired = 1 .. Len(fired)
  BY DEF TypeOK
<1>2. /\ fired' \in Seq(Ids)
      /\ DOMAIN fired' = 1 .. Len(fired) + 1
      /\ fired'[Len(fired) + 1] = x
      /\ \A i \in 1 .. Len(fired) : fired'[i] = fired[i]
  BY <1>1
<1>3. Distinct(fired')
  BY <1>1, <1>2 DEF Distinct, Pending
<1>4. Pending' = Pending \cup {x}
  <2>1. \A y \in Pending' : y \in Pending \cup {x}
    BY <1>1, <1>2 DEF Pending
  <2>2. \A y \in Pending : y \in Pending'
    BY <1>1, <1>2 DEF Pending
  <2>3. x \in Pending'
    BY <1>1, <1>2 DEF Pending
  <2>4. QED BY <2>1, <2>2, <2>3
<1>5. QED BY <1>2, <1>3, <1>4

LEMMA FiredTail ==
  ASSUME TypeOK, Distinct(fired), fired # <<>>, fired' = Tail(fired)
  PROVE /\ fired' \in Seq(Ids)
        /\ Distinct(fired')
        /\ Pending' \subseteq Pending
        /\ Head(fired) \in Pending /\ Head(fired) \in Ids
        /\ Head(fired) \notin Pending'
<1>1. /\ fired \in Seq(Ids) /\ Len(fired) \in Nat \ {0}
      /\ DOMAIN fired = 1 .. Len(fired)
  BY DEF TypeOK
<1>2. /\ fired' \in Seq(Ids)
      /\ DOMAIN fired' = 1 .. Len(fired) - 1
      /\ \A i \in 1 .. Len(fired) - 1 : fired'[i] = fired[i + 1]
      /\ Head(fired) = fired[1] /\ fired[1] \in Ids
  BY <1>1
<1>3. \A i \in 1 .. Len(fired) - 1 : i + 1 \in DOMAIN fired /\ i + 1 # 1
  BY <1>1
<1>4. 1 \in DOMAIN fired
  BY <1>1
<1>5. Distinct(fired')
  <2>1. ASSUME NEW i \in DOMAIN fired', NEW j \in DOMAIN fired',
               fired'[i] = fired'[j]
        PROVE i = j
    <3>1. fired[i + 1] = fired[j + 1]
      BY <1>2, <2>1
    <3>2. i + 1 = j + 1
      BY <1>2, <1>3, <2>1, <3>1 DEF Distinct
    <3>3. QED BY <1>1, <1>2, <3>2
  <2>2. QED BY <2>1 DEF Distinct
<1>6. Pending' \subseteq Pending
  BY <1>2, <1>3 DEF Pending
<1>7. Head(fired) \in Pending
  BY <1>2, <1>4 DEF Pending
<1>8. Head(fired) \notin Pending'
  BY <1>2, <1>3, <1>4 DEF Pending, Distinct
<1>9. QED BY <1>2, <1>5, <1>6, <1>7, <1>8

LEMMA PendingSame ==
  fired' = fired => Pending' = Pending
BY DEF Pending

LEMMA PendingNone ==
  fired = <<>> => Pending = {}
BY DEF Pending

-----------------------------------------------------------------------------
(* Steps after which no sweep is in progress.                              *)

\* What the orders in flight promise when no sweep is in progress.
FlightQuiet ==
  /\ \A x \in InFlight : /\ tree[x] = "out"
                         /\ order[x].filled < order[x].qty
                         /\ order[x].aon => order[x].filled = 0
  /\ Distinct(fired)
  /\ cur \notin Pending

LEMMA QuietStep ==
  ASSUME BookType', BookInv', reply' \in Replies,
         it' = None, plan' = <<>>, planned' = 0,
         cur' \in Ids \cup {None}, fired' \in Seq(Ids),
         pc' \in {"idle", "submit", "scanBids", "scanAsks"},
         cur' = None <=> pc' # "submit",
         pc' = "idle" => fired' = <<>>,
         FlightQuiet', ScannedBids', StopsUntriggered'
  PROVE IInv'
<1>1. TypeOK'
  <2>1. plan' \in Seq([id : Ids, qty : Nat])
    OBVIOUS
  <2>2. QED BY <2>1 DEF TypeOK, BookType, Levels, Steps
<1>2. Control'
  BY DEF Control
<1>3. OnePlace'
  BY DEF OnePlace, FlightQuiet, Distinct
<1>4. FlightOpen'
  <2>1. \A x \in Pending' : x \in InFlight'
    BY DEF InFlight
  <2>2. cur' # None => cur' \in InFlight'
    BY DEF InFlight
  <2>3. cur' # None => order'[cur'].filled <= order'[cur'].qty
    <3>1. SUFFICES ASSUME cur' # None
                   PROVE order'[cur'].filled <= order'[cur'].qty
      OBVIOUS
    <3>2. order'[cur'] \in Order
      BY <3>1 DEF BookType
    <3>3. order'[cur'].qty \in Nat /\ order'[cur'].filled \in Nat
      BY <3>2, OrderFields
    <3>4. order'[cur'].filled < order'[cur'].qty
      BY <2>2, <3>1 DEF FlightQuiet
    <3>5. QED BY <3>3, <3>4
  <2>4. QED BY <2>1, <2>2, <2>3 DEF FlightOpen, FlightQuiet
<1>5. AllOrNone'
  BY DEF AllOrNone, BookInv, WholeInTree
<1>6. MatchSweep' /\ SweepDone' /\ Planned'
  BY DEF MatchSweep, SweepDone, Planned
<1>7. QED BY <1>1, <1>2, <1>3, <1>4, <1>5, <1>6 DEF IInv, BookInv

LEMMA QuietNow ==
  ASSUME IInv, pc \in {"idle", "submit", "scanBids", "scanAsks"}
  PROVE /\ TypeOK /\ BookType /\ BookInv
        /\ it = None /\ plan = <<>> /\ planned = 0
        /\ cur = None <=> pc # "submit"
        /\ pc = "idle" => fired = <<>>
        /\ FlightQuiet
        /\ None \notin Ids
<1>1. TypeOK /\ Control /\ OnePlace /\ FlightOpen
  BY DEF IInv
<1>2. BookType
  BY <1>1 DEF TypeOK, BookType, Levels
<1>3. FlightQuiet
  <2>1. \A x \in InFlight : /\ tree[x] = "out"
                            /\ order[x].filled < order[x].qty
                            /\ order[x].aon => order[x].filled = 0
    BY <1>1 DEF OnePlace, FlightOpen, InFlight, Control
  <2>2. QED BY <1>1, <2>1 DEF OnePlace, FlightQuiet, Distinct
<1>4. QED
  BY <1>1, <1>2, <1>3, BookInvNow, ConstantsAssumption
  DEF Control, ConstantsAssumption

-----------------------------------------------------------------------------
(* The public calls.                                                       *)

\* A call that is over at once.
LEMMA IdleCall ==
  ASSUME IInv, pc = "idle", UNCHANGED loop, reply' \in Replies,
         BookType', BookInv', StopsUntriggered'
  PROVE IInv'
<1>1. /\ it = None /\ plan = <<>> /\ planned = 0 /\ cur = None /\ fired = <<>>
  BY QuietNow
<1>2. /\ it' = None /\ plan' = <<>> /\ planned' = 0 /\ cur' = None
      /\ fired' = <<>> /\ pc' = "idle"
  BY <1>1 DEF loop
<1>3. FlightQuiet'
  BY <1>2 DEF FlightQuiet, InFlight, Pending, Distinct
<1>4. ScannedBids'
  BY <1>2 DEF ScannedBids
<1>5. fired' \in Seq(Ids)
  BY <1>2
<1>6. QED BY <1>2, <1>3, <1>4, <1>5, QuietStep

LEMMA RejectStep ==
  ASSUME IInv, pc = "idle", UNCHANGED <<book, loop>>, reply' \in Replies
  PROVE IInv'
<1>1. BookType /\ BookInv /\ StopsUntriggered
  BY QuietNow DEF IInv
<1>2. UNCHANGED <<order, tree, ahead, level, marketPrice>>
  BY DEF book
<1>3. UNCHANGED loop
  OBVIOUS
<1>4. pc' = pc
  BY DEF loop
<1>5. BookType'
  BY <1>1, <1>2 DEF BookType
<1>6. BookInv'
  <2>1. Kept
    BY <1>2 DEF Kept, Same
  <2>2. \A x \in Ids : order'[x] = order[x]
    BY <1>2
  <2>3. QED BY <1>1, <2>1, <2>2, KeptBook, QuietNow
<1>7. StopsUntriggered'
  BY <1>1, <1>2, <1>4 DEF StopsUntriggered, Parked, InTree, Triggered
<1>8. QED BY <1>3, <1>5, <1>6, <1>7, IdleCall

LEMMA NewOrderFacts ==
  ASSUME NEW o \in NewOrders
  PROVE o \in Order /\ o.filled = 0 /\ o.qty \in Nat
<1>1. o \in Order /\ o.filled = 0
  BY ConstantsAssumption DEF ConstantsAssumption
<1>2. QED BY <1>1, OrderFields

LEMMA AddParkStep ==
  ASSUME IInv, NEW x \in Ids, NEW o \in NewOrders, AddPark(x, o)
  PROVE IInv'
<1>1. /\ TypeOK /\ BookInv /\ pc = "idle"
  BY QuietNow DEF AddPark
<1>2. o \in Order /\ o.filled = 0 /\ o.qty \in Nat
  BY NewOrderFacts
<1>3. /\ tree[x] = "out" /\ o.qty > 0 /\ Stopped(o) /\ reply' = "accept"
      /\ Insert(StopTree(o), x, o)
      /\ marketPrice' = marketPrice /\ UNCHANGED loop
  BY DEF AddPark, Fresh
<1> DEFINE t == StopTree(o)
<1>4. /\ t \in {"stopBids", "stopAsks"} /\ t \in Trees
      /\ t \in {"bids", "stopBids"} <=> o.buy
      /\ t # "bids" /\ t # "asks"
  BY DEF StopTree, Trees
<1> HIDE DEF t
<1>5. /\ Added(x, t) /\ order' = [order EXCEPT ![x] = o]
      /\ order' \in [Ids -> Order]
      /\ tree' \in [Ids -> Trees \cup {"out"}]
      /\ ahead' \in [Ids -> SUBSET Ids]
      /\ level' \in Levels
  BY <1>1, <1>2, <1>3, <1>4, InsertFacts DEF t
<1>6. BookType'
  BY <1>1, <1>3, <1>5 DEF BookType, TypeOK
<1>7. BookInv'
  <2>1. o.filled < o.qty
    BY <1>2, <1>3
  <2>2. o.stop # 0
    BY <1>3 DEF Stopped
  <2>3. QED BY <1>1, <1>2, <1>4, <1>5, <2>1, <2>2, AddedBook
<1>8. StopsUntriggered'
  <2>1. ~Triggered(o)'
    <3>1. marketPrice \in Nat /\ o.stop \in Nat
      BY <1>1, <1>2, OrderFields DEF TypeOK
    <3>2. QED BY <1>3, <3>1 DEF Stopped, Triggered
  <2>2. /\ \A s \in Trees : InTree(s)' = IF s = t THEN InTree(s) \cup {x}
                                                  ELSE InTree(s)
    BY <1>1, <1>5, AddedFacts DEF BookInv
  <2>3. Parked' = Parked \cup {x}
    BY <1>4, <2>2 DEF Parked, Trees
  <2>4. order'[x] = o /\ \A y \in Ids \ {x} : order'[y] = order[y]
    BY <1>1, <1>5 DEF TypeOK
  <2>5. \A y \in Parked : y \in Ids /\ y # x /\ ~Triggered(order[y])
    BY <1>1, <1>3 DEF IInv, StopsUntriggered, Parked, InTree
  <2>6. \A y \in Parked : ~Triggered(order[y])'
    BY <1>3, <2>4, <2>5 DEF Triggered
  <2>7. QED BY <2>1, <2>3, <2>4, <2>6 DEF StopsUntriggered
<1>9. reply' \in Replies
  BY <1>3 DEF Replies
<1>10. QED BY <1>1, <1>3, <1>6, <1>7, <1>8, <1>9, IdleCall

\* A call that hands an order to the matching loop.
LEMMA SubmitCall ==
  ASSUME IInv, pc = "idle", pc' = "submit", cur' \in Ids,
         UNCHANGED <<it, plan, planned, fired>>, reply' \in Replies,
         BookType', BookInv', tree'[cur'] = "out",
         order'[cur'].filled < order'[cur'].qty,
         order'[cur'].aon => order'[cur'].filled = 0
  PROVE IInv'
<1>1. /\ it = None /\ plan = <<>> /\ planned = 0 /\ fired = <<>>
      /\ None \notin Ids
  BY QuietNow
<1>2. /\ it' = None /\ plan' = <<>> /\ planned' = 0 /\ fired' = <<>>
      /\ cur' # None
  BY <1>1
<1>3. FlightQuiet'
  BY <1>2 DEF FlightQuiet, InFlight, Pending, Distinct
<1>4. ScannedBids' /\ StopsUntriggered'
  BY DEF ScannedBids, StopsUntriggered
<1>5. fired' \in Seq(Ids)
  BY <1>2
<1>6. QED BY <1>2, <1>3, <1>4, <1>5, QuietStep

LEMMA AddSubmitStep ==
  ASSUME IInv, NEW x \in Ids, NEW o \in NewOrders, AddSubmit(x, o)
  PROVE IInv'
<1>1. /\ TypeOK /\ BookType /\ BookInv /\ pc = "idle"
  BY QuietNow DEF AddSubmit
<1>2. o \in Order /\ o.filled = 0 /\ o.qty \in Nat
  BY NewOrderFacts
<1>3. /\ tree[x] = "out" /\ o.qty > 0
      /\ order' = [order EXCEPT ![x] = o]
      /\ pc' = "submit" /\ cur' = x /\ reply' = "accept"
      /\ UNCHANGED <<tree, ahead, level, marketPrice, it, plan, planned, fired>>
  BY DEF AddSubmit, Fresh
<1>4. /\ order' \in [Ids -> Order]
      /\ order'[x] = o /\ \A y \in Ids \ {x} : order'[y] = order[y]
  BY <1>1, <1>2, <1>3 DEF BookType
<1>5. BookType'
  BY <1>1, <1>3, <1>4 DEF BookType
<1>6. BookInv'
  <2>1. \A y \in Ids : tree[y] \in Trees => order'[y] = order[y]
    BY <1>3, <1>4 DEF Trees
  <2>2. Kept
    BY <1>3, <2>1 DEF Kept, Same
  <2>3. QED BY <1>1, <2>1, <2>2, KeptBook
<1>7. reply' \in Replies
  BY <1>3 DEF Replies
<1>8. QED BY <1>1, <1>2, <1>3, <1>4, <1>5, <1>6, <1>7, SubmitCall

\* After an order has left, the stops left behind are untriggered still.
LEMMA RemovedStops ==
  ASSUME TypeOK, BookInv, NEW m \in Ids, Removed(m), StopsUntriggered,
         \A x \in Ids \ {m} : tree[x] \in Trees => order'[x] = order[x],
         marketPrice' = marketPrice, pc = "idle"
  PROVE StopsUntriggered'
<1>1. /\ InTree("stopBids")' = InTree("stopBids") \ {m}
      /\ InTree("stopAsks")' = InTree("stopAsks") \ {m}
  BY RemovedFacts DEF BookInv, Trees
<1>2. Parked' = Parked \ {m}
  BY <1>1 DEF Parked
<1>3. \A x \in Parked' : ~Triggered(order[x]) /\ order'[x] = order[x]
  BY <1>2, InTrees DEF StopsUntriggered, Parked, InTree
<1>4. QED BY <1>3 DEF StopsUntriggered, Triggered

\* The order leaves its tree and is gone: cancel, and a replace that leaves
\* nothing of it.
LEMMA GoneStep ==
  ASSUME IInv, pc = "idle", NEW x \in Ids, tree[x] \in Trees, Erase(x),
         order' = [order EXCEPT ![x] = Blank],
         reply' \in Replies, UNCHANGED <<marketPrice, loop>>
  PROVE IInv'
<1>1. /\ TypeOK /\ BookType /\ BookInv /\ StopsUntriggered
  BY QuietNow DEF IInv
<1>2. /\ order' \in [Ids -> Order]
      /\ \A y \in Ids \ {x} : order'[y] = order[y]
  BY <1>1, BlankOrder DEF BookType
<1>3. /\ Removed(x)
      /\ tree' \in [Ids -> Trees \cup {"out"}]
      /\ ahead' \in [Ids -> SUBSET Ids]
      /\ level' \in Levels
  BY <1>1, <1>2, EraseFacts
<1>4. BookType'
  BY <1>1, <1>2, <1>3 DEF BookType
<1>5. BookInv'
  BY <1>1, <1>2, <1>3, RemovedBook
<1>6. StopsUntriggered'
  BY <1>1, <1>2, <1>3, RemovedStops
<1>7. QED BY <1>4, <1>5, <1>6, IdleCall

LEMMA CancelStep ==
  ASSUME IInv, NEW x \in Ids, Cancel(x)
  PROVE IInv'
<1>1. reply' \in Replies
  BY DEF Cancel, Replies
<1>2. QED BY <1>1, GoneStep DEF Cancel

LEMMA ReplaceCollapseStep ==
  ASSUME IInv, NEW x \in Ids, NEW d, NEW p, ReplaceCollapse(x, d, p)
  PROVE IInv'
<1>1. reply' \in Replies
  BY DEF ReplaceCollapse, Replies
<1>2. tree[x] \in Trees
  BY DEF ReplaceCollapse, Trees
<1>3. QED BY <1>1, <1>2, GoneStep DEF ReplaceCollapse

\* A modified order: quantities wrap, fills and flags stay.
LEMMA ModifiedFacts ==
  ASSUME NEW o \in Order, NEW d \in Int, NEW p \in Prices \cup {0}
  PROVE /\ Modified(o, d, p) \in Order
        /\ Modified(o, d, p).qty = (o.qty + d) % WordSize
        /\ Modified(o, d, p).filled = o.filled
        /\ Modified(o, d, p).buy = o.buy
        /\ Modified(o, d, p).stop = o.stop
        /\ Modified(o, d, p).aon = o.aon
        /\ Modified(o, d, p).ioc = o.ioc
        /\ p = 0 => Modified(o, d, p).price = o.price
<1>1. (o.qty + d) % WordSize \in Word
  <2>1. o.qty \in Nat
    BY OrderFields
  <2>2. o.qty + d \in Int
    BY <2>1
  <2>3. QED BY <2>2, WordMod, Zenon
<1> DEFINE q == (o.qty + d) % WordSize
           np == IF p = 0 THEN o.price ELSE p
<1>2. np \in Prices \cup {0}
  BY DEF Order
<1>3. Modified(o, d, p) = [o EXCEPT !.qty = q, !.price = np]
  BY DEF Modified, Order
<1>4. q \in Word
  BY <1>1
<1> HIDE DEF q, np
<1>5. [o EXCEPT !.qty = q, !.price = np] \in Order
  BY <1>2, <1>4 DEF Order
<1>6. QED BY <1>3, <1>5 DEF q, np, Order

LEMMA ReplaceInPlaceStep ==
  ASSUME IInv, NEW x \in Ids, NEW d \in Deltas, NEW p,
         ReplaceInPlace(x, d, p)
  PROVE IInv'
<1>1. /\ TypeOK /\ BookType /\ BookInv /\ StopsUntriggered /\ pc = "idle"
      /\ order[x] \in Order /\ d \in Int
  BY QuietNow, ConstantsAssumption
  DEF IInv, ReplaceInPlace, BookType, ConstantsAssumption
<1>2. /\ tree[x] \in {"bids", "asks"}
      /\ ~Collapses(x, d)
      /\ order' = [order EXCEPT ![x] = Modified(@, d, 0)]
      /\ level' = LevelPlus(tree[x], Key(x), d, 0)
      /\ reply' = "replace"
      /\ UNCHANGED <<tree, ahead, marketPrice, loop>>
  BY DEF ReplaceInPlace
<1> DEFINE o == Modified(order[x], d, 0)
<1>3. /\ o \in Order
      /\ o.qty = (order[x].qty + d) % WordSize
      /\ o.filled = order[x].filled /\ o.buy = order[x].buy
      /\ o.stop = order[x].stop /\ o.aon = order[x].aon
      /\ o.ioc = order[x].ioc /\ o.price = order[x].price
  BY <1>1, ModifiedFacts
<1> HIDE DEF o
<1>4. /\ order' \in [Ids -> Order]
      /\ order'[x] = o /\ \A y \in Ids \ {x} : order'[y] = order[y]
  BY <1>1, <1>2, <1>3 DEF BookType, o
<1>5. x \in Resting
  BY <1>2, InTrees
<1>7. BookType'
  <2>1. level' \in Levels
    BY <1>1, <1>2, LevelType
  <2>2. QED BY <1>1, <1>2, <1>4, <2>1 DEF BookType
<1>8. Kept
  BY <1>2, <1>3, <1>4 DEF Kept, Same
<1>9. BookInv'
  <2>1. Resized(x)
    BY <1>1, <1>2, <1>3, <1>4, <1>5 DEF Resized, BookInv, WholeInTree
  <2>2. QED BY <1>1, <1>4, <1>8, <2>1, KeptBook
<1>10. StopsUntriggered'
  <2>1. Parked' = Parked
    BY <1>2 DEF Parked, InTree
  <2>2. x \notin Parked
    BY <1>2, InTrees
  <2>3. \A y \in Parked : order'[y] = order[y]
    BY <1>4, <2>2 DEF Parked, InTree
  <2>4. QED BY <1>1, <1>2, <2>1, <2>3 DEF StopsUntriggered, Triggered
<1>11. reply' \in Replies
  BY <1>2 DEF Replies
<1>12. QED BY <1>1, <1>2, <1>7, <1>9, <1>10, <1>11, IdleCall

LEMMA ReplaceRepriceStep ==
  ASSUME IInv, NEW x \in Ids, NEW d \in Deltas, NEW p \in Prices \cup {0},
         ReplaceReprice(x, d, p)
  PROVE IInv'
<1>1. /\ TypeOK /\ BookType /\ BookInv /\ pc = "idle"
      /\ order[x] \in Order /\ d \in Int
  BY QuietNow, ConstantsAssumption
  DEF IInv, ReplaceReprice, BookType, ConstantsAssumption
<1> DEFINE o == Modified(order[x], d, p)
<1>2. /\ tree[x] \in {"bids", "asks"} /\ tree[x] \in Trees
      /\ Erase(x)
      /\ IF OpenQty(o) = 0
         THEN order' = [order EXCEPT ![x] = Blank] /\ UNCHANGED <<pc, cur>>
         ELSE /\ order' = [order EXCEPT ![x] = o]
              /\ pc' = "submit"
              /\ cur' = x
      /\ reply' = "replace"
      /\ UNCHANGED <<marketPrice, it, plan, planned, fired>>
  BY DEF ReplaceReprice, Trees
<1>3. /\ o \in Order /\ o.filled = order[x].filled /\ o.aon = order[x].aon
  BY <1>1, ModifiedFacts
<1> HIDE DEF o
<1>4. reply' \in Replies
  BY <1>2 DEF Replies
<1>5. CASE OpenQty(o) = 0
  BY <1>1, <1>2, <1>4, <1>5, GoneStep DEF loop
<1>6. CASE OpenQty(o) # 0
  <2>1. /\ order' \in [Ids -> Order]
        /\ order'[x] = o /\ \A y \in Ids \ {x} : order'[y] = order[y]
    BY <1>1, <1>2, <1>3, <1>6 DEF BookType
  <2>2. /\ Removed(x)
        /\ tree' \in [Ids -> Trees \cup {"out"}]
        /\ ahead' \in [Ids -> SUBSET Ids]
        /\ level' \in Levels
    BY <1>1, <1>2, <2>1, EraseFacts
  <2>3. BookType'
    BY <1>1, <1>2, <2>1, <2>2 DEF BookType
  <2>4. BookInv'
    BY <1>1, <2>1, <2>2, RemovedBook
  <2>5. tree'[x] = "out"
    BY <1>1, <2>2 DEF Removed, BookType
  <2>6. o.filled < o.qty
    <3>1. o.qty \in Nat /\ o.filled \in Nat
      BY <1>3, OrderFields
    <3>2. QED BY <1>6, <3>1 DEF OpenQty
  <2>7. o.aon => o.filled = 0
    BY <1>1, <1>2, <1>3, InTrees DEF BookInv, WholeInTree
  <2>8. QED
    BY <1>1, <1>2, <1>4, <1>6, <2>1, <2>3, <2>4, <2>5, <2>6, <2>7, SubmitCall
<1>7. QED BY <1>5, <1>6

LEMMA SetMarketPriceStep ==
  ASSUME IInv, NEW px \in MarketPrices, SetMarketPrice(px)
  PROVE IInv'
<1>1. /\ TypeOK /\ BookType /\ BookInv /\ pc = "idle" /\ reply \in Replies
      /\ it = None /\ plan = <<>> /\ planned = 0 /\ cur = None /\ fired = <<>>
  BY QuietNow DEF SetMarketPrice, TypeOK
<1>2. /\ marketPrice' = px /\ pc' = "scanBids"
      /\ UNCHANGED <<order, tree, ahead, level, cur, it, plan, planned, fired,
                     reply>>
  BY DEF SetMarketPrice
<1>3. BookType'
  BY <1>1, <1>2, ConstantsAssumption DEF BookType, ConstantsAssumption
<1>4. BookInv'
  <2>1. Kept
    BY <1>2 DEF Kept, Same
  <2>2. QED BY <1>1, <1>2, <2>1, KeptBook
<1>5. FlightQuiet'
  BY <1>1, <1>2 DEF FlightQuiet, InFlight, Pending, Distinct
<1>6. ScannedBids' /\ StopsUntriggered'
  BY <1>2 DEF ScannedBids, StopsUntriggered
<1>7. fired' \in Seq(Ids)
  BY <1>1, <1>2
<1>8. QED BY <1>1, <1>2, <1>3, <1>4, <1>5, <1>6, <1>7, QuietStep

-----------------------------------------------------------------------------
(* process_triggered.                                                      *)

\* A stop leaves its tree for the list of fired stops.
LEMMA FireStep ==
  ASSUME IInv, pc \in {"scanBids", "scanAsks"}, NEW x \in Ids,
         tree[x] \in {"stopBids", "stopAsks"}, Erase(x),
         fired' = Append(fired, x),
         UNCHANGED <<order, marketPrice, pc, cur, it, plan, planned, reply>>,
         pc = "scanAsks" => tree[x] # "stopBids"
  PROVE IInv'
<1>a. tree[x] \in Trees
  BY DEF Trees
<1>1. /\ TypeOK /\ BookType /\ BookInv /\ FlightQuiet /\ reply \in Replies
      /\ it = None /\ plan = <<>> /\ planned = 0 /\ cur = None
      /\ ScannedBids
  BY QuietNow DEF IInv, TypeOK
<1>2. /\ Removed(x)
      /\ tree' \in [Ids -> Trees \cup {"out"}]
      /\ ahead' \in [Ids -> SUBSET Ids]
      /\ level' \in Levels
  BY <1>1, <1>a, EraseFacts
<1>3. BookType'
  BY <1>1, <1>2 DEF BookType
<1>4. BookInv'
  BY <1>1, <1>2, RemovedBook
<1>5. /\ fired' \in Seq(Ids) /\ Distinct(fired')
      /\ Pending' = Pending \cup {x}
  <2>1. x \notin Pending
    BY <1>1 DEF FlightQuiet, InFlight
  <2>2. QED BY <1>1, <2>1, FiredAppend DEF FlightQuiet
<1>6. FlightQuiet'
  <2>1. InFlight' = Pending \cup {x}
    BY <1>1, <1>5 DEF InFlight
  <2>2. x \in Parked
    BY InTrees
  <2>3. /\ order[x].filled < order[x].qty
        /\ order[x].aon => order[x].filled = 0
    BY <1>1, <2>2 DEF BookInv, Residents, WholeInTree
  <2>4. \A y \in Pending : /\ tree[y] = "out"
                           /\ order[y].filled < order[y].qty
                           /\ order[y].aon => order[y].filled = 0
    BY <1>1 DEF FlightQuiet, InFlight
  <2>5. /\ tree'[x] = "out"
        /\ \A y \in Pending : tree'[y] = "out"
    BY <1>1, <1>2, <2>4 DEF Removed, BookType, Pending, TypeOK
  <2>6. cur' \notin Pending'
    BY <1>1, <1>5, ConstantsAssumption
    DEF FlightQuiet, ConstantsAssumption
  <2>7. QED BY <1>5, <2>1, <2>3, <2>4, <2>5, <2>6 DEF FlightQuiet
<1>7. ScannedBids'
  <2>1. SUFFICES ASSUME pc = "scanAsks"
                 PROVE \A y \in InTree("stopBids")' : ~Triggered(order[y])'
    BY DEF ScannedBids
  <2>2. InTree("stopBids")' = InTree("stopBids") \ {x}
    BY <1>1, <1>2, RemovedFacts DEF BookInv, Trees
  <2>3. QED BY <1>1, <2>1, <2>2 DEF ScannedBids, Triggered
<1>8. StopsUntriggered'
  BY DEF StopsUntriggered
<1>9. QED BY <1>1, <1>3, <1>4, <1>5, <1>6, <1>7, <1>8, QuietStep

LEMMA FireBidStep ==
  ASSUME IInv, NEW x \in Ids, FireBid(x)
  PROVE IInv'
<1>1. x # None
  BY DEF FireBid, Fires
<1>2. tree[x] = "stopBids"
  BY <1>1, FirstIs, InTrees DEF FireBid
<1>3. QED BY <1>2, FireStep DEF FireBid

LEMMA FireAskStep ==
  ASSUME IInv, NEW x \in Ids, FireAsk(x)
  PROVE IInv'
<1>1. x # None
  BY DEF FireAsk, Fires
<1>2. tree[x] = "stopAsks"
  BY <1>1, FirstIs, InTrees DEF FireAsk
<1>3. QED BY <1>2, FireStep DEF FireAsk

\* A sweep of the stops that ends at x has fired all it could: the stops
\* behind x are further from the market.
LEMMA Scanned ==
  ASSUME TypeOK, Sides, Arrival, NEW t \in {"stopBids", "stopAsks"},
         NEW x \in First(InTree(t)), ~Fires(x)
  PROVE \A y \in InTree(t) : ~Triggered(order[y])
<1>1. SUFFICES ASSUME NEW y \in InTree(t)
               PROVE ~Triggered(order[y])
  OBVIOUS
<1>2. y \in Ids /\ tree[y] = t
  BY <1>1 DEF InTree
<1>3. /\ x \in InTree(t)
      /\ y = x \/ Before(x, y)
  BY <1>1, FirstIs
<1>4. x \in Ids /\ tree[x] = t /\ x # None
  BY <1>3, ConstantsAssumption DEF InTree, ConstantsAssumption
<1>5. ~Triggered(order[x])
  BY <1>4 DEF Fires
<1>6. /\ order[x].stop \in Nat /\ order[y].stop \in Nat /\ marketPrice \in Nat
  BY <1>2, <1>4, OrderFields DEF TypeOK
<1>7. /\ Key(x) = order[x].stop /\ Key(y) = order[y].stop
  BY <1>2, <1>4 DEF Key, KeyIn
<1>8. CASE t = "stopBids"
  <2>1. order[x].buy /\ order[y].buy
    BY <1>2, <1>4, <1>8 DEF Sides
  <2>2. order[x].stop <= order[y].stop
    BY <1>3, <1>4, <1>6, <1>7, <1>8 DEF Before, Better
  <2>3. QED BY <1>5, <1>6, <2>1, <2>2 DEF Triggered
<1>9. CASE t = "stopAsks"
  <2>1. ~order[x].buy /\ ~order[y].buy
    BY <1>2, <1>4, <1>9 DEF Sides
  <2>2. order[y].stop <= order[x].stop
    BY <1>3, <1>4, <1>6, <1>7, <1>9 DEF Before, Better
  <2>3. QED BY <1>5, <1>6, <2>1, <2>2 DEF Triggered
<1>10. QED BY <1>8, <1>9

LEMMA BidsScannedStep ==
  ASSUME IInv, BidsScanned
  PROVE IInv'
<1>1. /\ pc = "scanBids" /\ pc' = "scanAsks"
      /\ UNCHANGED <<book, cur, it, plan, planned, fired, reply>>
      /\ UNCHANGED <<order, tree, ahead, level, marketPrice>>
  BY DEF BidsScanned, book
<1>2. /\ TypeOK /\ BookType /\ BookInv /\ FlightQuiet /\ reply \in Replies
      /\ it = None /\ plan = <<>> /\ planned = 0 /\ cur = None
      /\ fired \in Seq(Ids)
  BY <1>1, QuietNow DEF TypeOK
<1>3. \A y \in InTree("stopBids") : ~Triggered(order[y])
  BY <1>2, Scanned DEF BidsScanned, BookInv
<1>4. ScannedBids'
  BY <1>1, <1>3 DEF ScannedBids, InTree, Triggered
<1>5. BookType'
  BY <1>1, <1>2 DEF BookType
<1>6. BookInv'
  <2>1. Kept
    BY <1>1 DEF Kept, Same
  <2>2. QED BY <1>1, <1>2, <2>1, KeptBook
<1>7. FlightQuiet'
  BY <1>1, <1>2 DEF FlightQuiet, InFlight, Pending, Distinct
<1>8. StopsUntriggered'
  BY <1>1 DEF StopsUntriggered
<1>9. QED BY <1>1, <1>2, <1>4, <1>5, <1>6, <1>7, <1>8, QuietStep

\* The next fired stop is taken for submission.
LEMMA TakeNext ==
  ASSUME TypeOK, Distinct(fired), fired # <<>>,
         cur' = Head(fired), fired' = Tail(fired),
         \A x \in Pending : /\ tree'[x] = "out"
                            /\ order'[x].filled < order'[x].qty
                            /\ order'[x].aon => order'[x].filled = 0
  PROVE FlightQuiet' /\ cur' \in Ids /\ cur' # None /\ fired' \in Seq(Ids)
<1>1. /\ fired' \in Seq(Ids) /\ Distinct(fired')
      /\ Pending' \subseteq Pending
      /\ cur' \in Pending /\ cur' \in Ids
      /\ cur' \notin Pending'
  BY FiredTail
<1>2. InFlight' \subseteq Pending
  BY <1>1 DEF InFlight
<1>3. None \notin Ids
  BY ConstantsAssumption DEF ConstantsAssumption
<1>4. QED BY <1>1, <1>2, <1>3 DEF FlightQuiet

LEMMA ContinueFacts ==
  ASSUME TypeOK, Distinct(fired), Continue,
         \A x \in Pending : /\ tree'[x] = "out"
                            /\ order'[x].filled < order'[x].qty
                            /\ order'[x].aon => order'[x].filled = 0
  PROVE /\ FlightQuiet' /\ cur' \in Ids \cup {None} /\ fired' \in Seq(Ids)
        /\ pc' \in {"submit", "scanBids"}
        /\ cur' = None <=> pc' # "submit"
<1>1. CASE fired # <<>>
  <2>1. pc' = "submit" /\ cur' = Head(fired) /\ fired' = Tail(fired)
    BY <1>1 DEF Continue
  <2>2. QED BY <1>1, <2>1, TakeNext
<1>2. CASE fired = <<>>
  <2>1. pc' = "scanBids" /\ cur' = None /\ fired' = <<>>
    BY <1>2 DEF Continue
  <2>2. FlightQuiet'
    BY <2>1 DEF FlightQuiet, InFlight, Pending, Distinct
  <2>3. QED BY <2>1, <2>2
<1>3. QED BY <1>1, <1>2

LEMMA AsksScannedStep ==
  ASSUME IInv, AsksScanned
  PROVE IInv'
<1>1. /\ pc = "scanAsks"
      /\ IF fired = <<>>
         THEN pc' = "idle" /\ UNCHANGED <<cur, fired>>
         ELSE pc' = "submit" /\ cur' = Head(fired) /\ fired' = Tail(fired)
      /\ UNCHANGED <<order, tree, ahead, level, marketPrice>>
      /\ UNCHANGED <<it, plan, planned, reply>>
  BY DEF AsksScanned, book
<1>2. /\ TypeOK /\ BookType /\ BookInv /\ FlightQuiet /\ reply \in Replies
      /\ it = None /\ plan = <<>> /\ planned = 0 /\ cur = None
      /\ fired \in Seq(Ids) /\ ScannedBids
  BY <1>1, QuietNow DEF IInv, TypeOK
<1>3. \A y \in InTree("stopAsks") : ~Triggered(order[y])
  BY <1>2, Scanned DEF AsksScanned, BookInv
<1>4. StopsUntriggered'
  BY <1>1, <1>2, <1>3
  DEF ScannedBids, StopsUntriggered, Parked, InTree, Triggered
<1>5. ScannedBids'
  BY <1>1 DEF ScannedBids
<1>6. BookType'
  BY <1>1, <1>2 DEF BookType
<1>7. BookInv'
  <2>1. Kept
    BY <1>1 DEF Kept, Same
  <2>2. QED BY <1>1, <1>2, <2>1, KeptBook
<1>8. CASE fired = <<>>
  <2>1. FlightQuiet'
    BY <1>1, <1>2, <1>8 DEF FlightQuiet, InFlight, Pending, Distinct
  <2>2. QED
    BY <1>1, <1>2, <1>4, <1>5, <1>6, <1>7, <1>8, <2>1, QuietStep
<1>9. CASE fired # <<>>
  <2>1. Distinct(fired)
    BY <1>2 DEF FlightQuiet
  <2>2. \A x \in Pending : /\ tree'[x] = "out"
                           /\ order'[x].filled < order'[x].qty
                           /\ order'[x].aon => order'[x].filled = 0
    BY <1>1, <1>2 DEF FlightQuiet, InFlight
  <2>3. FlightQuiet' /\ cur' \in Ids /\ cur' # None /\ fired' \in Seq(Ids)
    BY <1>1, <1>2, <1>9, <2>1, <2>2, TakeNext
  <2>4. QED
    BY <1>1, <1>2, <1>4, <1>5, <1>6, <1>7, <1>9, <2>3, QuietStep
<1>10. QED BY <1>8, <1>9

-----------------------------------------------------------------------------
(* The end of submit.                                                      *)

\* What is known of the order being submitted and of the other side.
LEMMA SweepNow ==
  ASSUME IInv, pc \in {"submit", "match", "plan", "commit", "rest"}
  PROVE /\ TypeOK /\ BookType /\ BookInv /\ Distinct(fired)
        /\ cur \in Ids /\ order[cur] \in Order /\ tree[cur] = "out"
        /\ order[cur].filled <= order[cur].qty
        /\ order[cur].filled \in Nat /\ order[cur].qty \in Nat
        /\ Open(cur) \in Nat
        /\ Open(cur) = order[cur].qty - order[cur].filled
        /\ cur \notin Pending
        /\ Opposite \in Trees /\ Opposite \in {"bids", "asks"}
        /\ \A x \in Pending : /\ x \in Ids
                              /\ tree[x] = "out"
                              /\ order[x].filled < order[x].qty
                              /\ order[x].aon => order[x].filled = 0
<1>1. TypeOK /\ Control /\ OnePlace /\ FlightOpen /\ BookInv
  BY BookInvNow DEF IInv
<1>2. cur # None /\ cur \in Ids
  BY <1>1 DEF Control, TypeOK
<1>3. order[cur] \in Order
  BY <1>1, <1>2 DEF TypeOK
<1>4. order[cur].filled \in Nat /\ order[cur].qty \in Nat
  BY <1>3, OrderFields
<1>5. order[cur].filled <= order[cur].qty
  BY <1>1, <1>2 DEF FlightOpen
<1>6. /\ Open(cur) \in Nat
      /\ Open(cur) = order[cur].qty - order[cur].filled
  BY <1>4, <1>5 DEF Open, OpenQty
<1>7. tree[cur] = "out"
  BY <1>1, <1>2 DEF OnePlace, InFlight
<1>8. \A x \in Pending : /\ x \in Ids
                         /\ tree[x] = "out"
                         /\ order[x].filled < order[x].qty
                         /\ order[x].aon => order[x].filled = 0
  BY <1>1 DEF OnePlace, FlightOpen, InFlight, Pending, TypeOK
<1>9. BookType
  BY <1>1 DEF TypeOK, BookType, Levels
<1>10. Opposite \in Trees /\ Opposite \in {"bids", "asks"}
  BY DEF Opposite, Trees
<1>11. Distinct(fired) /\ cur \notin Pending
  BY <1>1 DEF OnePlace, Distinct
<1>12. QED
  BY <1>1, <1>2, <1>3, <1>4, <1>5, <1>6, <1>7, <1>8, <1>9, <1>10, <1>11

LEMMA RestStep ==
  ASSUME IInv, Rest
  PROVE IInv'
<1> DEFINE o == order[cur]
           t == BookTree(order[cur])
<1>1. /\ pc = "rest" /\ Rests(o)
      /\ Insert(t, cur, o)
      /\ Continue
      /\ UNCHANGED <<marketPrice, it, plan, planned, reply>>
  BY DEF Rest
<1>2. /\ TypeOK /\ BookType /\ BookInv /\ Distinct(fired)
      /\ cur \in Ids /\ o \in Order /\ tree[cur] = "out"
      /\ o.filled \in Nat /\ o.qty \in Nat
      /\ Open(cur) = o.qty - o.filled
      /\ cur \notin Pending
      /\ \A x \in Pending : /\ x \in Ids
                            /\ tree[x] = "out"
                            /\ order[x].filled < order[x].qty
                            /\ order[x].aon => order[x].filled = 0
      /\ it = None /\ plan = <<>> /\ planned = 0 /\ reply \in Replies
      /\ AllOrNone /\ SweepDone
  BY <1>1, SweepNow DEF IInv, Control, TypeOK
<1>3. /\ t \in Trees /\ t \in {"bids", "asks"}
      /\ t \in {"bids", "stopBids"} <=> o.buy
  BY DEF BookTree, Trees
<1>4. /\ o.price # 0 /\ ~o.ioc /\ Open(cur) > 0
  BY <1>1 DEF Rests, Open
<1>6. o.aon => o.filled = 0
  BY <1>1, <1>2, <1>4 DEF AllOrNone
<1>7. /\ t = "bids" => \A a \in InTree("asks") :
                         o.price >= order[a].price => o.aon \/ order[a].aon
      /\ t = "asks" => \A b \in InTree("bids") :
                         order[b].price >= o.price => order[b].aon \/ o.aon
  <2>1. SUFFICES ASSUME ~o.aon
                 PROVE /\ t = "bids" => \A a \in InTree("asks") :
                            o.price >= order[a].price => order[a].aon
                       /\ t = "asks" => \A b \in InTree("bids") :
                            order[b].price >= o.price => order[b].aon
    OBVIOUS
  <2>2. \A c \in InTree(Opposite) : Crosses(c) => order[c].aon
    BY <1>1, <1>2, <1>4, <2>1 DEF SweepDone
  <2>3. \A c \in Ids : order[c].price \in Nat
    BY <1>2, OrderFields DEF BookType
  <2>4. o.price \in Nat
    BY <1>2, OrderFields
  <2>5. CASE t = "bids"
    <3>1. o.buy /\ Opposite = "asks"
      BY <1>3, <2>5 DEF Opposite
    <3>2. QED BY <2>2, <2>3, <2>4, <2>5, <3>1 DEF Crosses, CrossesAt, InTree
  <2>6. CASE t = "asks"
    <3>1. ~o.buy /\ Opposite = "bids"
      BY <1>3, <2>6 DEF Opposite
    <3>2. QED BY <2>2, <2>3, <2>4, <2>6, <3>1 DEF Crosses, CrossesAt, InTree
  <2>7. QED BY <1>3, <2>5, <2>6
<1> HIDE DEF o, t
<1>8. /\ Added(cur, t) /\ order' = [order EXCEPT ![cur] = o]
      /\ order' \in [Ids -> Order]
      /\ tree' \in [Ids -> Trees \cup {"out"}]
      /\ ahead' \in [Ids -> SUBSET Ids]
      /\ level' \in Levels
  BY <1>1, <1>2, <1>3, InsertFacts
<1>9. BookType'
  BY <1>1, <1>2, <1>8 DEF BookType
<1>10. BookInv'
  BY <1>2, <1>3, <1>4, <1>6, <1>7, <1>8, AddedBook
<1>11. \A x \in Pending : /\ tree'[x] = "out"
                          /\ order'[x].filled < order'[x].qty
                          /\ order'[x].aon => order'[x].filled = 0
  <2>1. \A x \in Ids \ {cur} : tree'[x] = tree[x] /\ order'[x] = order[x]
    BY <1>2, <1>8 DEF Added, BookType
  <2>2. QED BY <1>2, <2>1
<1>12. /\ FlightQuiet' /\ cur' \in Ids \cup {None} /\ fired' \in Seq(Ids)
       /\ pc' \in {"submit", "scanBids"}
       /\ cur' = None <=> pc' # "submit"
  BY <1>1, <1>2, <1>11, ContinueFacts
<1>13. ScannedBids' /\ StopsUntriggered'
  BY <1>12 DEF ScannedBids, StopsUntriggered
<1>14. QED BY <1>1, <1>2, <1>9, <1>10, <1>12, <1>13, QuietStep

LEMMA DiscardStep ==
  ASSUME IInv, Discard
  PROVE IInv'
<1>1. /\ pc = "rest"
      /\ order' = [order EXCEPT ![cur] = Blank]
      /\ Continue
      /\ UNCHANGED <<tree, ahead, level, marketPrice, it, plan, planned, reply>>
  BY DEF Discard
<1>2. /\ TypeOK /\ BookType /\ BookInv /\ Distinct(fired)
      /\ cur \in Ids /\ tree[cur] = "out"
      /\ cur \notin Pending
      /\ \A x \in Pending : /\ x \in Ids
                            /\ tree[x] = "out"
                            /\ order[x].filled < order[x].qty
                            /\ order[x].aon => order[x].filled = 0
      /\ it = None /\ plan = <<>> /\ planned = 0 /\ reply \in Replies
  BY <1>1, SweepNow DEF IInv, Control, TypeOK
<1>3. /\ order' \in [Ids -> Order]
      /\ \A x \in Ids \ {cur} : order'[x] = order[x]
  BY <1>1, <1>2, BlankOrder DEF BookType
<1>4. BookType'
  BY <1>1, <1>2, <1>3 DEF BookType
<1>5. BookInv'
  <2>1. \A x \in Ids : tree[x] \in Trees => order'[x] = order[x]
    BY <1>2, <1>3 DEF Trees
  <2>2. Kept
    BY <1>1, <2>1 DEF Kept, Same
  <2>3. QED BY <1>2, <2>1, <2>2, KeptBook
<1>6. \A x \in Pending : /\ tree'[x] = "out"
                         /\ order'[x].filled < order'[x].qty
                         /\ order'[x].aon => order'[x].filled = 0
  BY <1>1, <1>2, <1>3
<1>7. /\ FlightQuiet' /\ cur' \in Ids \cup {None} /\ fired' \in Seq(Ids)
      /\ pc' \in {"submit", "scanBids"}
      /\ cur' = None <=> pc' # "submit"
  BY <1>1, <1>2, <1>6, ContinueFacts
<1>8. ScannedBids' /\ StopsUntriggered'
  BY <1>7 DEF ScannedBids, StopsUntriggered
<1>9. QED BY <1>1, <1>2, <1>4, <1>5, <1>7, <1>8, QuietStep

-----------------------------------------------------------------------------
(* The sweeps.                                                             *)

\* A step of a sweep: what is left to show of it.
LEMMA SweepStep ==
  ASSUME IInv, pc \in {"submit", "match", "plan", "commit", "rest"},
         pc' \in {"match", "plan", "commit", "rest"},
         BookType', BookInv', UNCHANGED <<cur, fired, reply>>,
         \A x \in Pending : tree'[x] = "out" /\ order'[x] = order[x],
         tree'[cur] = "out",
         order'[cur].filled <= order'[cur].qty,
         it' \in Ids \cup {None}, planned' \in Nat,
         plan' \in Seq([id : Ids, qty : Nat]),
         it' # None => pc' \in {"match", "plan"} /\ tree'[it'] = Opposite',
         pc' \notin {"plan", "commit"} => plan' = <<>>,
         pc' # "plan" => planned' = 0,
         pc' \in {"plan", "commit"} => order'[cur].aon,
         pc' = "match" => ~order'[cur].aon,
         pc' = "plan" => order'[cur].filled = 0,
         pc' = "rest" /\ order'[cur].aon =>
           order'[cur].filled = 0 \/ Open(cur)' = 0,
         MatchSweep', SweepDone', Planned'
  PROVE IInv'
<1>1. /\ cur \in Ids /\ cur' = cur /\ cur' # None
      /\ Pending' = Pending /\ cur \notin Pending /\ Distinct(fired)
      /\ \A x \in Pending : /\ order[x].filled < order[x].qty
                            /\ order[x].aon => order[x].filled = 0
  BY SweepNow, PendingSame, ConstantsAssumption DEF ConstantsAssumption
<1>2. TypeOK'
  <2>1. /\ fired \in Seq(Ids) /\ reply \in Replies
    BY DEF IInv, TypeOK
  <2>2. QED BY <1>1, <2>1 DEF TypeOK, BookType, Levels, Steps
<1>3. Control'
  BY <1>1 DEF Control
<1>4. OnePlace'
  <2>1. \A x \in InFlight' : tree'[x] = "out"
    BY <1>1 DEF InFlight
  <2>2. fired' = fired
    OBVIOUS
  <2>3. QED BY <1>1, <2>1, <2>2 DEF OnePlace, Distinct
<1>5. FlightOpen'
  BY <1>1 DEF FlightOpen
<1>6. AllOrNone'
  BY <1>1 DEF AllOrNone, BookInv, WholeInTree
<1>7. ScannedBids' /\ StopsUntriggered'
  BY DEF ScannedBids, StopsUntriggered
<1>8. QED BY <1>2, <1>3, <1>4, <1>5, <1>6, <1>7 DEF IInv, BookInv

\* A step of a sweep that only looks.
LEMMA LookStep ==
  ASSUME IInv, pc \in {"submit", "match", "plan", "commit", "rest"},
         pc' \in {"match", "plan", "commit", "rest"},
         UNCHANGED book, UNCHANGED <<cur, fired, reply>>,
         it' \in Ids \cup {None}, planned' \in Nat,
         plan' \in Seq([id : Ids, qty : Nat]),
         it' # None => pc' \in {"match", "plan"} /\ tree[it'] = Opposite,
         pc' \notin {"plan", "commit"} => plan' = <<>>,
         pc' # "plan" => planned' = 0,
         pc' \in {"plan", "commit"} => order[cur].aon,
         pc' = "match" => ~order[cur].aon,
         pc' = "plan" => order[cur].filled = 0,
         pc' = "rest" /\ order[cur].aon =>
           order[cur].filled = 0 \/ Open(cur) = 0,
         MatchSweep', SweepDone', Planned'
  PROVE IInv'
<1>1. UNCHANGED <<order, tree, ahead, level, marketPrice, cur>>
  BY DEF book
<1>2. /\ TypeOK /\ BookType /\ BookInv
      /\ \A x \in Pending : tree[x] = "out"
      /\ tree[cur] = "out" /\ order[cur].filled <= order[cur].qty
  BY SweepNow
<1>3. BookType'
  BY <1>1, <1>2 DEF BookType
<1>4. BookInv'
  <2>1. Kept
    BY <1>1 DEF Kept, Same
  <2>2. QED BY <1>1, <1>2, <2>1, KeptBook
<1>5. Opposite' = Opposite /\ Open(cur)' = Open(cur)
  BY <1>1 DEF Opposite, Open
<1>6. QED BY <1>1, <1>2, <1>3, <1>4, <1>5, SweepStep

\* The iterator moves to the next maker: everything in front of it has been
\* visited.
LEMMA Advance ==
  ASSUME TypeOK, Arrival, it \in Ids, tree[it] = Opposite,
         it' \in First(After(it))
  PROVE /\ it' \in Ids \cup {None}
        /\ it' # None => /\ tree[it'] = Opposite /\ it' # it
                         /\ Before(it, it')
        /\ \A c \in InTree(Opposite) :
             Unvisited(c) =>
               c = it \/ (it' # None /\ (c = it' \/ Before(it', c)))
<1>1. Opposite \in Trees
  BY DEF Opposite, Trees
<1>2. After(it) = {y \in InTree(Opposite) : Before(it, y)}
  BY DEF After
<1>3. it' # None => it' \in Ids /\ tree[it'] = Opposite /\ Before(it, it')
  BY <1>2, FirstIs DEF InTree
<1>4. it' # it
  <2>1. it # None
    BY ConstantsAssumption DEF ConstantsAssumption
  <2>2. ~Before(it, it)
    BY <1>1, BeforeIsOrder
  <2>3. QED BY <1>3, <2>1, <2>2
<1>5. ASSUME NEW c \in InTree(Opposite), Unvisited(c), c # it
      PROVE it' # None /\ (c = it' \/ Before(it', c))
  <2>1. c \in After(it)
    BY <1>2, <1>5 DEF Unvisited
  <2>2. \A y \in After(it) : y # None
    BY ConstantsAssumption DEF After, InTree, ConstantsAssumption
  <2>3. QED BY <2>1, <2>2, FirstIs
<1>6. QED BY <1>3, <1>4, <1>5

\* If a maker is out of reach, so is everyone behind it.
LEMMA CrossesAhead ==
  ASSUME TypeOK, cur \in Ids, NEW m \in Ids, NEW c \in Ids,
         tree[m] = Opposite, tree[c] = Opposite, Before(m, c), Crosses(c)
  PROVE Crosses(m)
<1>1. /\ order[m].price \in Nat /\ order[c].price \in Nat
      /\ order[cur].price \in Nat
  BY OrderFields DEF TypeOK
<1>2. Key(m) = order[m].price /\ Key(c) = order[c].price
  BY DEF Opposite, Key, KeyIn
<1>3. QED BY <1>1, <1>2 DEF Before, Better, Crosses, CrossesAt, Opposite

LEMMA SubmitStep ==
  ASSUME IInv, Submit
  PROVE IInv'
<1>1. /\ pc = "submit"
      /\ pc' = IF order[cur].aon THEN "plan" ELSE "match"
      /\ it' \in First(InTree(Opposite))
      /\ UNCHANGED book /\ UNCHANGED <<cur, fired, reply>>
      /\ plan' = plan /\ planned' = planned
      /\ UNCHANGED <<order, tree, ahead>>
  BY DEF Submit, book
<1>2. /\ TypeOK /\ cur \in Ids /\ plan = <<>> /\ planned = 0
      /\ order[cur].aon \in BOOLEAN /\ Open(cur) \in Nat
      /\ order[cur].aon => order[cur].filled = 0
  <2>1. order[cur] \in Order
    BY <1>1, SweepNow
  <2>2. order[cur].aon \in BOOLEAN
    BY <2>1, OrderFields
  <2>3. QED BY <1>1, <2>2, SweepNow DEF IInv, Control, FlightOpen
<1>3. it' # None => it' \in Ids /\ tree[it'] = Opposite
  BY <1>1, FirstIs DEF InTree
<1>4. \A c \in InTree(Opposite) : it' # None /\ (c = it' \/ Before(it', c))
  <2>1. None \notin InTree(Opposite)
    BY ConstantsAssumption DEF InTree, ConstantsAssumption
  <2>2. QED BY <1>1, <2>1, FirstIs
<1>5. /\ Opposite' = Opposite /\ InTree(Opposite)' = InTree(Opposite)
      /\ \A c, d : Before(c, d)' <=> Before(c, d)
  BY <1>1 DEF Opposite, InTree, Before, Key
<1>6. \A c \in InTree(Opposite)' : Unvisited(c)'
  BY <1>4, <1>5 DEF Unvisited
<1>7. MatchSweep'
  BY <1>6 DEF MatchSweep
<1>8. SweepDone'
  BY <1>1 DEF SweepDone
<1>9. Planned'
  <2>1. plan' = <<>> /\ planned' = 0 /\ Len(plan') = 0
    BY <1>1, <1>2
  <2>2. PlanOrdered'
    BY <2>1 DEF PlanOrdered
  <2>3. PlanSweep'
    BY <1>6, <2>1 DEF PlanSweep
  <2>4. Open(cur)' \in Nat
    BY <1>1, <1>2 DEF Open
  <2>5. [i \in 0 .. Len(plan') |-> 0] \in PlanSums'
    BY <2>1, <2>4 DEF PlanSums
  <2>6. PICK f \in PlanSums' : f[Len(plan')] = 0
    BY <2>1, <2>5
  <2>7. \A i \in 1 .. Len(plan') : PlanEntry(f, i)' /\ PlanPriority(f, i)'
    BY <2>1
  <2>8. pc' # "commit"
    BY <1>1
  <2>9. QED BY <2>1, <2>2, <2>3, <2>6, <2>7, <2>8 DEF Planned
<1>10. plan' \in Seq([id : Ids, qty : Nat]) /\ planned' \in Nat
  BY <1>1, <1>2
<1>11. QED
  BY <1>1, <1>2, <1>3, <1>7, <1>8, <1>9, <1>10, LookStep

LEMMA MatchEndStep ==
  ASSUME IInv, MatchEnd
  PROVE IInv'
<1>1. /\ pc = "match" /\ ~Matching /\ pc' = "rest" /\ it' = None
      /\ UNCHANGED book /\ UNCHANGED <<cur, plan, planned, fired, reply>>
      /\ UNCHANGED <<order, tree, ahead>>
  BY DEF MatchEnd, book
<1>2. /\ TypeOK /\ cur \in Ids /\ plan = <<>> /\ planned = 0
      /\ ~order[cur].aon /\ MatchSweep /\ Open(cur) \in Nat
      /\ Opposite \in Trees
      /\ it # None => it \in Ids /\ tree[it] = Opposite
  BY <1>1, SweepNow DEF IInv, Control, TypeOK
<1>3. SweepDone'
  <2>1. ASSUME Open(cur) > 0, NEW c \in InTree(Opposite), Crosses(c)
        PROVE order[c].aon
    <3>1. c \in Ids /\ tree[c] = Opposite
      BY <2>1 DEF InTree
    <3>2. Unvisited(c) \/ TooLarge(c)
      BY <1>1, <1>2, <2>1 DEF MatchSweep
    <3>3. ~Unvisited(c)
      <4>1. SUFFICES ASSUME Unvisited(c) PROVE FALSE
        OBVIOUS
      <4>2. it # None /\ (c = it \/ Before(it, c))
        BY <4>1 DEF Unvisited
      <4>3. Crosses(it)
        BY <1>2, <2>1, <3>1, <4>2, CrossesAhead
      <4>4. QED BY <1>1, <2>1, <4>2, <4>3 DEF Matching
    <3>4. QED BY <3>2, <3>3 DEF TooLarge
  <2>2. QED
    BY <1>1, <2>1 DEF SweepDone, Open, InTree, Opposite, Crosses
<1>4. MatchSweep' /\ Planned'
  BY <1>1 DEF MatchSweep, Planned
<1>5. plan' \in Seq([id : Ids, qty : Nat]) /\ planned' \in Nat
  BY <1>1, <1>2
<1>6. QED BY <1>1, <1>2, <1>3, <1>4, <1>5, LookStep

LEMMA MatchSkipStep ==
  ASSUME IInv, MatchSkip
  PROVE IInv'
<1>1. /\ pc = "match" /\ Matching /\ TooLarge(it) /\ it' \in First(After(it))
      /\ pc' = "match"
      /\ UNCHANGED book /\ UNCHANGED <<cur, plan, planned, fired, reply>>
      /\ UNCHANGED <<order, tree, ahead>>
  BY DEF MatchSkip, book
<1>2. /\ TypeOK /\ cur \in Ids /\ plan = <<>> /\ planned = 0 /\ Arrival
      /\ ~order[cur].aon /\ MatchSweep /\ Open(cur) \in Nat
      /\ it # None /\ it \in Ids /\ tree[it] = Opposite
  BY <1>1, SweepNow DEF IInv, Control, TypeOK, Matching
<1>3. /\ it' \in Ids \cup {None}
      /\ it' # None => tree[it'] = Opposite
      /\ \A c \in InTree(Opposite) :
           Unvisited(c) =>
             c = it \/ (it' # None /\ (c = it' \/ Before(it', c)))
  BY <1>1, <1>2, Advance
<1>4. /\ Opposite' = Opposite /\ InTree(Opposite)' = InTree(Opposite)
      /\ \A c, d : Before(c, d)' <=> Before(c, d)
      /\ \A c : TooLarge(c)' <=> TooLarge(c)
      /\ Open(cur)' = Open(cur)
  BY <1>1 DEF Opposite, InTree, Before, Key, TooLarge, Open
<1>5. MatchSweep'
  <2>1. SUFFICES ASSUME Open(cur) > 0, NEW c \in InTree(Opposite)
                 PROVE Unvisited(c)' \/ TooLarge(c)
    BY <1>4 DEF MatchSweep
  <2>2. Unvisited(c) \/ TooLarge(c)
    BY <1>1, <1>2, <2>1 DEF MatchSweep
  <2>3. QED BY <1>1, <1>3, <1>4, <2>1, <2>2 DEF Unvisited
<1>6. SweepDone' /\ Planned'
  BY <1>1 DEF SweepDone, Planned
<1>7. plan' \in Seq([id : Ids, qty : Nat]) /\ planned' \in Nat
  BY <1>1, <1>2
<1>8. QED BY <1>1, <1>2, <1>3, <1>5, <1>6, <1>7, LookStep

\* A trade of the order being submitted, of the size of the smaller of what
\* the two still have or less, with an all-or-none maker served whole.
LEMMA TradeStep ==
  ASSUME IInv, pc \in {"match", "commit"},
         NEW m \in Ids, tree[m] = Opposite,
         NEW q \in Nat, q <= Open(cur), q <= Open(m), Trade(m, q),
         order[m].aon => q = Open(m),
         UNCHANGED cur
  PROVE /\ BookType' /\ BookInv'
        /\ \A x \in Pending : tree'[x] = "out" /\ order'[x] = order[x]
        /\ tree'[cur] = "out"
        /\ order'[cur] = Filled(order[cur], q)
        /\ order'[cur].filled <= order'[cur].qty
        /\ Open(cur)' = Open(cur) - q
        /\ Opposite' = Opposite
        /\ \A x \in Ids \ {cur, m} : order'[x] = order[x]
        /\ q = Open(m) => Removed(m)
        /\ q # Open(m) => Kept
        /\ InTree(Opposite)' =
             IF q = Open(m) THEN InTree(Opposite) \ {m} ELSE InTree(Opposite)
        /\ \A x, y \in Ids :
             /\ tree[x] = Opposite /\ tree[y] = Opposite
             /\ q = Open(m) => x # m /\ y # m
             => (Before(x, y)' <=> Before(x, y))
<1>1. /\ TypeOK /\ BookType /\ BookInv /\ cur \in Ids /\ order[cur] \in Order
      /\ tree[cur] = "out" /\ order[cur].filled <= order[cur].qty
      /\ Opposite \in Trees /\ Opposite \in {"bids", "asks"}
      /\ cur \notin Pending
      /\ \A x \in Pending : x \in Ids /\ tree[x] = "out"
  BY SweepNow
<1>2. m \in Resting /\ order[m] \in Order
  BY <1>1, InTrees DEF BookType
<1>3. tree[m] \in {"bids", "asks"}
  BY <1>1
<1>4. /\ BookType'
      /\ m # cur
      /\ \A x \in Ids \ {cur, m} : order'[x] = order[x]
      /\ order'[cur] = Filled(order[cur], q)
      /\ q = Open(m) => Removed(m) /\ order'[m] = Blank
      /\ q # Open(m) => Kept /\ order'[m] = Filled(order[m], q)
  BY <1>1, TradeFacts
<1>5. /\ order'[cur].filled <= order'[cur].qty
      /\ OpenQty(order'[cur]) = Open(cur) - q
      /\ order'[cur].buy = order[cur].buy
  BY <1>1, <1>4, FilledType DEF Open
<1>6. \A x \in Ids \ {m} : tree[x] \in Trees => order'[x] = order[x]
  BY <1>1, <1>4 DEF Trees
<1>7. \A x \in Pending : tree'[x] = "out" /\ order'[x] = order[x]
  <2>1. SUFFICES ASSUME NEW x \in Pending
                 PROVE tree'[x] = "out" /\ order'[x] = order[x]
    OBVIOUS
  <2>2. x \in Ids /\ tree[x] = "out" /\ x # cur /\ x # m
    BY <1>1, <2>1 DEF Trees
  <2>3. QED BY <1>1, <1>4, <2>2 DEF Removed, Kept, BookType
<1>8. tree'[cur] = "out"
  BY <1>1, <1>4 DEF Removed, Kept, BookType
<1>9. Open(cur)' = Open(cur) - q /\ Opposite' = Opposite
  BY <1>5 DEF Open, Opposite
<1>10. CASE q = Open(m)
  <2>1. Removed(m)
    BY <1>4, <1>10
  <2>2. BookInv'
    BY <1>1, <1>6, <2>1, RemovedBook
  <2>3. /\ InTree(Opposite)' = InTree(Opposite) \ {m}
        /\ \A x, y \in Ids \ {m} :
             tree[x] \in Trees /\ tree[y] = tree[x] =>
               (Before(x, y)' <=> Before(x, y))
    <3>1. \A t \in Trees : InTree(t)' = InTree(t) \ {m}
      BY <1>1, <2>1, RemovedFacts DEF BookInv
    <3>2. InTree(Opposite)' = {x \in Ids : tree'[x] = Opposite'}
      BY DEF InTree
    <3>3. InTree(Opposite)' = InTree(Opposite) \ {m}
      BY <1>1, <1>9, <3>1, <3>2 DEF InTree
    <3>4. QED
      BY <1>1, <1>9, <2>1, <3>3, RemovedFacts DEF BookInv
  <2>4. QED
    BY <1>1, <1>4, <1>5, <1>7, <1>8, <1>9, <1>10, <2>1, <2>2, <2>3
<1>11. CASE q # Open(m)
  <2>1. Kept /\ order'[m] = Filled(order[m], q)
    BY <1>4, <1>11
  <2>2. Resized(m)
    <3>1. Open(m) \in Nat /\ q < Open(m)
      BY <1>2, <1>11, OrderFields, OpenFacts DEF Open
    <3>2. q < OpenQty(order[m])
      BY <3>1 DEF Open
    <3>3. /\ order'[m].filled = order[m].filled + q
          /\ order'[m].qty = order[m].qty
          /\ order'[m].aon = order[m].aon
          /\ order'[m].ioc = order[m].ioc
          /\ order[m].filled + q < order[m].qty
      BY <1>2, <2>1, <3>2, FilledType DEF Open
    <3>4. QED BY <1>3, <1>11, <3>3 DEF Resized
  <2>3. BookInv'
    BY <1>1, <1>6, <2>1, <2>2, KeptBook
  <2>4. /\ InTree(Opposite)' = InTree(Opposite)
        /\ \A x, y \in Ids :
             tree[x] \in Trees /\ tree[y] = tree[x] =>
               (Before(x, y)' <=> Before(x, y))
    BY <1>1, <1>9, <2>1, KeptFacts DEF BookInv, InTree, Kept
  <2>5. QED
    BY <1>1, <1>4, <1>5, <1>7, <1>8, <1>9, <1>11, <2>1, <2>3, <2>4
<1>12. QED BY <1>10, <1>11

LEMMA MatchTradeStep ==
  ASSUME IInv, MatchTrade
  PROVE IInv'
<1> DEFINE q == Smaller(Open(cur), Open(it))
<1>1. /\ pc = "match" /\ pc' = "match" /\ Matching /\ ~TooLarge(it)
      /\ Trade(it, q) /\ it' \in First(After(it))
      /\ UNCHANGED <<cur, plan, planned, fired, reply>>
  BY DEF MatchTrade
<1>2. /\ TypeOK /\ cur \in Ids /\ order[cur] \in Order
      /\ plan = <<>> /\ planned = 0 /\ Arrival
      /\ ~order[cur].aon /\ MatchSweep
      /\ it # None /\ it \in Ids /\ tree[it] = Opposite
      /\ Open(cur) \in Nat /\ Open(cur) > 0
      /\ Opposite \in Trees /\ BookInv
  BY <1>1, SweepNow DEF IInv, Control, TypeOK, Matching
<1>3. Open(it) \in Nat
  <2>1. order[it] \in Order
    BY <1>2 DEF TypeOK
  <2>2. QED BY <2>1, OrderFields, OpenFacts DEF Open
<1>4. /\ q \in Nat /\ q <= Open(cur) /\ q <= Open(it)
      /\ q = Open(cur) \/ q = Open(it)
      /\ order[it].aon => q = Open(it)
  BY <1>1, <1>2, <1>3 DEF Smaller, TooLarge
<1> HIDE DEF q
<1>5. /\ BookType' /\ BookInv'
      /\ \A x \in Pending : tree'[x] = "out" /\ order'[x] = order[x]
      /\ tree'[cur] = "out"
      /\ order'[cur] = Filled(order[cur], q)
      /\ order'[cur].filled <= order'[cur].qty
      /\ Open(cur)' = Open(cur) - q
      /\ Opposite' = Opposite
      /\ \A x \in Ids \ {cur, it} : order'[x] = order[x]
      /\ q = Open(it) => Removed(it)
      /\ q # Open(it) => Kept
      /\ InTree(Opposite)' =
           IF q = Open(it) THEN InTree(Opposite) \ {it} ELSE InTree(Opposite)
      /\ \A x, y \in Ids :
           /\ tree[x] = Opposite /\ tree[y] = Opposite
           /\ q = Open(it) => x # it /\ y # it
           => (Before(x, y)' <=> Before(x, y))
  BY <1>1, <1>2, <1>4, TradeStep
<1>6. /\ it' \in Ids \cup {None}
      /\ it' # None => tree[it'] = Opposite /\ it' # it
      /\ \A c \in InTree(Opposite) :
           Unvisited(c) =>
             c = it \/ (it' # None /\ (c = it' \/ Before(it', c)))
  BY <1>1, <1>2, Advance
<1>7. it' # None => tree'[it'] = Opposite
  BY <1>2, <1>5, <1>6 DEF Removed, Kept, TypeOK
<1>8. ~order'[cur].aon
  <2>1. q <= OpenQty(order[cur])
    BY <1>4 DEF Open
  <2>2. QED BY <1>2, <1>4, <1>5, <2>1, FilledType
<1>9. MatchSweep'
  <2>1. SUFFICES ASSUME Open(cur)' > 0, NEW c \in InTree(Opposite)'
                 PROVE Unvisited(c)' \/ TooLarge(c)'
    BY DEF MatchSweep
  <2>2. q = Open(it)
    BY <1>2, <1>4, <1>5, <2>1
  <2>3. c \in InTree(Opposite) /\ c # it
    BY <1>5, <2>1, <2>2
  <2>4. c \in Ids /\ tree[c] = Opposite /\ c # cur
    BY <1>1, <2>3, SweepNow DEF InTree, Trees
  <2>5. Unvisited(c) \/ TooLarge(c)
    BY <1>1, <1>2, <2>3 DEF MatchSweep
  <2>6. CASE Unvisited(c)
    BY <1>5, <1>6, <2>2, <2>3, <2>4, <2>6 DEF Unvisited
  <2>7. CASE TooLarge(c)
    <3>1. order'[c] = order[c]
      BY <1>5, <2>3, <2>4
    <3>2. Open(c) \in Nat
      <4>1. order[c] \in Order
        BY <1>2, <2>4 DEF TypeOK
      <4>2. QED BY <4>1, OrderFields, OpenFacts DEF Open
    <3>3. Open(c)' = Open(c)
      BY <3>1 DEF Open
    <3>4. Open(c)' > Open(cur)'
      BY <1>2, <1>4, <1>5, <2>7, <3>2, <3>3 DEF TooLarge
    <3>5. QED BY <2>7, <3>1, <3>4 DEF TooLarge
  <2>8. QED BY <2>5, <2>6, <2>7
<1>10. SweepDone' /\ Planned'
  BY <1>1 DEF SweepDone, Planned
<1>11. plan' \in Seq([id : Ids, qty : Nat]) /\ planned' \in Nat
  BY <1>1, <1>2
<1>12. QED
  BY <1>1, <1>2, <1>5, <1>6, <1>7, <1>8, <1>9, <1>10, <1>11, SweepStep

LEMMA SeqElement ==
  ASSUME NEW T, NEW s \in Seq(T), NEW i \in 1 .. Len(s)
  PROVE s[i] \in T
OBVIOUS

\* A plan is made of makers and quantities.
LEMMA PlanType ==
  ASSUME TypeOK, NEW i \in 1 .. Len(plan)
  PROVE plan[i].id \in Ids /\ plan[i].qty \in Nat
<1> DEFINE T == [id : Ids, qty : Nat]
<1>1. plan \in Seq(T)
  BY DEF TypeOK
<1>2. plan[i] \in T
  <2> HIDE DEF T
  <2>1. QED BY <1>1, SeqElement
<1>3. QED BY <1>2

\* In a step that leaves the book and the order being submitted alone, all
\* that is computed from them stays.
LEMMA LookFrame ==
  ASSUME UNCHANGED <<order, tree, ahead, cur>>
  PROVE /\ Opposite' = Opposite /\ InTree(Opposite)' = InTree(Opposite)
        /\ \A c, d : Before(c, d)' <=> Before(c, d)
        /\ \A c : Crosses(c)' <=> Crosses(c)
        /\ \A c : Open(c)' = Open(c)
BY DEF Opposite, InTree, Before, Key, Crosses, Open

LEMMA PlanEndStep ==
  ASSUME IInv, PlanEnd
  PROVE IInv'
<1>1. /\ pc = "plan" /\ ~Planning
      /\ IF planned < Open(cur)
         THEN pc' = "rest" /\ plan' = <<>>
         ELSE pc' = "commit" /\ UNCHANGED plan
      /\ planned' = 0 /\ it' = None
      /\ UNCHANGED book /\ UNCHANGED <<cur, fired, reply>>
      /\ UNCHANGED <<order, tree, ahead>>
  BY DEF PlanEnd, book
<1>2. /\ TypeOK /\ order[cur].aon /\ order[cur].filled = 0 /\ Planned
      /\ plan \in Seq([id : Ids, qty : Nat]) /\ planned \in Nat
      /\ Open(cur) \in Nat
  BY <1>1, SweepNow DEF IInv, Control, FlightOpen, TypeOK
<1>3. plan' \in Seq([id : Ids, qty : Nat])
  <2>1. <<>> \in Seq([id : Ids, qty : Nat])
    OBVIOUS
  <2>2. plan' = <<>> \/ plan' = plan
    BY <1>1
  <2>3. QED BY <1>2, <2>1, <2>2
<1>4. MatchSweep' /\ SweepDone'
  BY <1>1, <1>2 DEF MatchSweep, SweepDone
<1>5. Planned'
  <2>1. SUFFICES ASSUME pc' = "commit" PROVE Planned'
    BY <1>1 DEF Planned
  <2>2. plan' = plan /\ planned >= Open(cur)
    BY <1>1, <1>2, <2>1
  <2>3. PlanOrdered
    BY <1>1, <1>2 DEF Planned
  <2>4. PICK f \in PlanSums :
          /\ f[Len(plan)] = planned
          /\ \A i \in 1 .. Len(plan) : PlanEntry(f, i) /\ PlanPriority(f, i)
    BY <1>1, <1>2 DEF Planned
  <2>5. f[Len(plan)] = Open(cur)
    <3>1. Len(plan) \in 0 .. Len(plan)
      BY <1>2
    <3>2. f[Len(plan)] \in 0 .. Open(cur)
      BY <3>1 DEF PlanSums
    <3>3. QED BY <1>2, <2>2, <2>4, <3>2
  <2>6. PlanOrdered'
    BY <1>1, <2>2, <2>3, LookFrame DEF PlanOrdered
  <2>7. f \in PlanSums'
    BY <1>1, <2>2, LookFrame DEF PlanSums
  <2>8. \A i \in 1 .. Len(plan') : PlanEntry(f, i)' /\ PlanPriority(f, i)'
    BY <1>1, <2>2, <2>4, LookFrame DEF PlanEntry, PlanPriority
  <2>9. f[Len(plan')] = Open(cur)'
    BY <1>1, <2>2, <2>5, LookFrame
  <2>10. QED BY <2>1, <2>6, <2>7, <2>8, <2>9 DEF Planned
<1>6. QED BY <1>1, <1>2, <1>3, <1>4, <1>5, LookStep

LEMMA CommitEndStep ==
  ASSUME IInv, CommitEnd
  PROVE IInv'
<1>1. /\ pc = "commit" /\ plan = <<>> /\ pc' = "rest"
      /\ UNCHANGED book /\ UNCHANGED <<cur, it, plan, planned, fired, reply>>
      /\ UNCHANGED <<order, tree, ahead>>
  BY DEF CommitEnd, book
<1>2. /\ order[cur].aon /\ Planned /\ planned = 0 /\ it = None
  BY <1>1 DEF IInv, Control
<1>3. Open(cur) = 0
  <2>1. PICK f \in PlanSums : f[Len(plan)] = Open(cur)
    BY <1>1, <1>2 DEF Planned
  <2>2. Len(plan) = 0 /\ f[0] = 0
    BY <1>1 DEF PlanSums
  <2>3. QED BY <2>1, <2>2
<1>4. MatchSweep' /\ SweepDone' /\ Planned'
  BY <1>1, <1>2 DEF MatchSweep, SweepDone, Planned
<1>5. plan' \in Seq([id : Ids, qty : Nat]) /\ planned' \in Nat
  BY <1>1, <1>2
<1>6. QED BY <1>1, <1>2, <1>3, <1>4, <1>5, LookStep

\* The planning sweep looks at one more maker.
LEMMA PlanVisitStep ==
  ASSUME IInv, PlanVisit
  PROVE IInv'
<1> DEFINE left == Open(cur) - planned
           fits == ~order[it].aon \/ Open(it) <= left
           take == Smaller(Open(it), left)
<1>1. /\ pc = "plan" /\ pc' = "plan" /\ Planning
      /\ plan' = IF fits THEN Append(plan, [id |-> it, qty |-> take]) ELSE plan
      /\ planned' = IF fits THEN planned + take ELSE planned
      /\ it' \in First(After(it))
      /\ UNCHANGED book /\ UNCHANGED <<cur, fired, reply>>
      /\ UNCHANGED <<order, tree, ahead>>
  BY DEF PlanVisit, book
<1>2. /\ TypeOK /\ Arrival /\ cur \in Ids /\ order[cur].aon
      /\ order[cur].filled = 0
      /\ plan \in Seq([id : Ids, qty : Nat]) /\ planned \in Nat
      /\ Open(cur) \in Nat /\ Opposite \in Trees
      /\ it # None /\ it \in Ids /\ tree[it] = Opposite
      /\ planned < Open(cur) /\ Crosses(it)
      /\ PlanOrdered /\ PlanSweep
  BY <1>1, SweepNow DEF IInv, Control, FlightOpen, TypeOK, Planning, Planned
<1>0. PICK n \in Nat : n = Len(plan)
  <2>1. Len(plan) \in Nat
    BY <1>2
  <2>2. QED BY <2>1
<1>3. PICK f \in PlanSums :
        /\ f[n] = planned
        /\ \A i \in 1 .. n : PlanEntry(f, i) /\ PlanPriority(f, i)
  BY <1>0, <1>1 DEF IInv, Planned
<1>4. Open(it) \in Nat
  <2>1. order[it] \in Order
    BY <1>2 DEF TypeOK
  <2>2. QED BY <2>1, OrderFields, OpenFacts DEF Open
<1>5. /\ take \in Nat /\ take <= Open(it) /\ take <= left
      /\ take = 0 => Open(it) = 0
      /\ fits => (take < Open(it) => ~order[it].aon /\ take = left)
  BY <1>2, <1>4 DEF Smaller
<1>6. /\ it' \in Ids \cup {None}
      /\ it' # None => /\ tree[it'] = Opposite /\ it' # it
                       /\ Before(it, it')
      /\ \A c \in InTree(Opposite) :
           Unvisited(c) =>
             c = it \/ (it' # None /\ (c = it' \/ Before(it', c)))
  BY <1>1, <1>2, Advance
<1>7. ~Before(it, it)
      /\ \A c \in InTree(Opposite) : Before(c, it) => c # it /\ ~Before(it, c)
  BY <1>2, BeforeIsOrder DEF InTree
<1>8. \A c \in InTree(Opposite) :
        \/ Unvisited(c)
        \/ \E j \in 1 .. n : plan[j].id = c
        \/ order[c].aon /\ Open(c) > Open(cur) - planned
  BY <1>0, <1>2 DEF PlanSweep
<1>9. \A i \in 1 .. n : /\ plan[i].id \in Ids /\ tree[plan[i].id] = Opposite
                        /\ Before(plan[i].id, it)
                        /\ it' # None => Before(plan[i].id, it')
  <2>1. SUFFICES ASSUME NEW i \in 1 .. n
                 PROVE /\ plan[i].id \in Ids /\ tree[plan[i].id] = Opposite
                       /\ Before(plan[i].id, it)
                       /\ it' # None => Before(plan[i].id, it')
    OBVIOUS
  <2>3. plan[i].id \in Ids
    BY <1>0, <1>2, <2>1, PlanType
  <2>4. tree[plan[i].id] = Opposite
    BY <1>3, <2>1 DEF PlanEntry
  <2>5. Before(plan[i].id, it)
    BY <1>0, <1>2, <2>1 DEF PlanSweep
  <2>6. it' # None => Before(plan[i].id, it')
    BY <1>2, <1>6, <2>3, <2>4, <2>5, BeforeIsOrder
  <2>7. QED BY <2>3, <2>4, <2>5, <2>6
<1>10. \A c \in InTree(Opposite) : c \in Ids /\ Open(c) \in Nat
  <2>1. ASSUME NEW c \in Ids PROVE Open(c) \in Nat
    <3>1. order[c] \in Order
      BY <1>2 DEF TypeOK
    <3>2. QED BY <3>1, OrderFields, OpenFacts DEF Open
  <2>2. QED BY <2>1 DEF InTree
<1>11. /\ Opposite' = Opposite /\ InTree(Opposite)' = InTree(Opposite)
       /\ \A c, d : Before(c, d)' <=> Before(c, d)
       /\ \A c : Crosses(c)' <=> Crosses(c)
       /\ \A c : Open(c)' = Open(c)
       /\ order' = order /\ tree' = tree /\ cur' = cur
  BY <1>1, LookFrame
<1> HIDE DEF fits, take
<1>12. CASE fits
  <2>1. /\ plan' = Append(plan, [id |-> it, qty |-> take])
        /\ planned' = planned + take
    BY <1>1, <1>12
  <2>2. /\ plan' \in Seq([id : Ids, qty : Nat])
        /\ Len(plan') = n + 1
        /\ plan'[n + 1].id = it /\ plan'[n + 1].qty = take
        /\ \A i \in 1 .. n : plan'[i] = plan[i]
    BY <1>0, <1>2, <1>5, <2>1
  <2>3. planned' \in Nat /\ planned' <= Open(cur)
    BY <1>2, <1>5, <2>1
  <2>4. /\ f \in [0 .. n -> 0 .. Open(cur)] /\ f[0] = 0
        /\ \A i \in 1 .. n : f[i] = f[i - 1] + plan[i].qty
        /\ \A i, j \in 0 .. n : i <= j => f[i] <= f[j]
    BY <1>0 DEF PlanSums
  <2>5. PICK g \in [0 .. n + 1 -> 0 .. Open(cur)] :
          /\ g[n + 1] = planned'
          /\ \A i \in 0 .. n : g[i] = f[i]
    <3> DEFINE w == [i \in 0 .. n + 1 |-> IF i = n + 1 THEN planned' ELSE f[i]]
    <3>1. w \in [0 .. n + 1 -> 0 .. Open(cur)]
      BY <1>2, <2>3, <2>4
    <3>2. w[n + 1] = planned' /\ \A i \in 0 .. n : w[i] = f[i]
      BY <1>2
    <3> HIDE DEF w
    <3>3. QED BY <3>1, <3>2
  <2>6. g \in PlanSums'
    <3>1. g[0] = 0
      BY <1>2, <2>4, <2>5
    <3>2. \A i \in 1 .. n + 1 : g[i] = g[i - 1] + plan'[i].qty
      <4>1. ASSUME NEW i \in 1 .. n PROVE g[i] = g[i - 1] + plan'[i].qty
        <5>1. i \in 0 .. n /\ i - 1 \in 0 .. n
          BY <1>2
        <5>2. QED BY <2>2, <2>4, <2>5, <5>1
      <4>3. \A i \in 1 .. n + 1 : i \in 1 .. n \/ i = n + 1
        BY <1>2
      <4>4. ASSUME NEW i \in 1 .. n + 1
            PROVE g[i] = g[i - 1] + plan'[i].qty
        <5>1. CASE i \in 1 .. n
          BY <4>1, <5>1
        <5>2. CASE i = n + 1
          <6>1. i - 1 = n /\ n \in 0 .. n
            BY <1>2, <5>2
          <6>2. g[i - 1] = planned
            BY <1>0, <1>3, <2>5, <6>1
          <6>3. g[i] = planned + take /\ plan'[i].qty = take
            BY <2>1, <2>2, <2>5, <5>2
          <6>4. QED BY <6>2, <6>3
        <5>3. QED BY <4>3, <5>1, <5>2
      <4>5. QED BY <4>4
    <3>3. \A i, j \in 0 .. n + 1 : i <= j => g[i] <= g[j]
      <4>1. ASSUME NEW i \in 0 .. n + 1, NEW j \in 0 .. n + 1, i <= j
            PROVE g[i] <= g[j]
        <5>1. CASE j = n + 1 /\ i = n + 1
          BY <2>5, <5>1
        <5>2. CASE j = n + 1 /\ i # n + 1
          <6>1. i \in 0 .. n /\ n \in 0 .. n /\ i <= n
            BY <1>2, <5>2
          <6>2. f[i] <= f[n]
            BY <2>4, <6>1
          <6>3. f[i] \in Nat
            BY <1>2, <2>4, <6>1
          <6>4. g[i] = f[i] /\ f[n] = planned
            BY <1>3, <2>5, <6>1
          <6>5. g[j] = planned + take
            BY <2>1, <2>5, <5>2
          <6>6. QED BY <1>2, <1>5, <6>2, <6>3, <6>4, <6>5, SMTT(20)
        <5>3. CASE j # n + 1
          <6>1. i \in 0 .. n /\ j \in 0 .. n
            BY <1>2, <4>1, <5>3
          <6>2. QED BY <2>4, <2>5, <4>1, <6>1
        <5>4. QED BY <5>1, <5>2, <5>3
      <4>2. QED BY <4>1
    <3>4. QED BY <1>11, <2>2, <2>5, <3>1, <3>2, <3>3 DEF PlanSums
  <2>7. \A i \in 1 .. n : PlanEntry(g, i)' /\ PlanPriority(g, i)'
    <3>1. SUFFICES ASSUME NEW i \in 1 .. n
                   PROVE PlanEntry(g, i)' /\ PlanPriority(g, i)'
      OBVIOUS
    <3>2. /\ plan'[i] = plan[i] /\ g[i] = f[i] /\ g[i - 1] = f[i - 1]
          /\ \A j \in 1 .. i - 1 : plan'[j] = plan[j]
      <4>1. i \in 0 .. n /\ i - 1 \in 0 .. n
        BY <1>2, <3>1
      <4>2. \A j \in 1 .. i - 1 : j \in 1 .. n
        BY <1>2, <3>1
      <4>3. QED BY <2>2, <2>5, <3>1, <4>1, <4>2
    <3>3. PlanEntry(f, i) /\ PlanPriority(f, i)
      BY <1>0, <1>3, <3>1
    <3>4. PlanEntry(g, i)'
      BY <1>11, <3>2, <3>3 DEF PlanEntry
    <3>5. PlanPriority(g, i)'
      BY <1>11, <3>2, <3>3 DEF PlanPriority
    <3>6. QED BY <3>4, <3>5
  <2>8. PlanEntry(g, n + 1)'
    <3>1. take \in 0 .. Open(it)
      BY <1>4, <1>5
    <3>2. take < Open(it) => ~order[it].aon /\ g[n + 1] = Open(cur)
      BY <1>2, <1>5, <1>12, <2>1, <2>5
    <3>3. PICK m : m = plan'[n + 1].id
      OBVIOUS
    <3>4. m = it
      BY <2>2, <3>3
    <3>5. g[n + 1 - 1] < Open(cur)'
      <4>1. n + 1 - 1 = n /\ n \in 0 .. n
        BY <1>2
      <4>2. g[n] = planned
        BY <1>3, <2>5, <4>1
      <4>3. QED BY <1>2, <1>11, <4>1, <4>2
    <3>6. plan'[n + 1].qty = 0 => Open(m)' = 0
      BY <1>5, <1>11, <2>2, <3>4
    <3>7. /\ tree'[m] = Opposite' /\ Crosses(m)'
          /\ plan'[n + 1].qty \in 0 .. Open(m)'
          /\ plan'[n + 1].qty < Open(m)' =>
               ~order'[m].aon /\ g[n + 1] = Open(cur)'
      BY <1>2, <1>11, <2>2, <3>1, <3>2, <3>4
    <3>8. QED
      BY <3>3, <3>5, <3>6, <3>7 DEF PlanEntry, Crosses, Open, Opposite
  <2>9. PlanPriority(g, n + 1)'
    <3>1. g[n] = planned /\ n + 1 - 1 = n
      BY <1>0, <1>2, <1>3, <2>5
    <3>2. SUFFICES ASSUME NEW c \in InTree(Opposite), Before(c, it)
                   PROVE \/ \E j \in 1 .. n : plan'[j].id = c
                         \/ order[c].aon /\ Open(c) > Open(cur) - planned
      <4>1. plan'[n + 1].id = it
        BY <2>2
      <4>2. QED BY <1>11, <3>1, <4>1 DEF PlanPriority
    <3>3. ~Unvisited(c)
      BY <1>7, <3>2 DEF Unvisited
    <3>4. QED BY <1>0, <1>8, <2>2, <3>2, <3>3
  <2>10. PlanOrdered'
    <3>1. SUFFICES ASSUME NEW i \in 1 .. n + 1, NEW j \in 1 .. n + 1, i < j
                   PROVE Before(plan'[i].id, plan'[j].id)
      BY <1>11, <2>2 DEF PlanOrdered
    <3>2. i \in 1 .. n /\ plan'[i] = plan[i]
      BY <1>2, <2>2, <3>1, SMTT(20)
    <3>3. CASE j = n + 1
      BY <1>0, <1>9, <2>2, <3>2, <3>3
    <3>4. CASE j # n + 1
      <4>1. j \in 1 .. n /\ plan'[j] = plan[j]
        BY <1>2, <2>2, <3>1, <3>4, SMTT(20)
      <4>2. QED BY <1>0, <1>2, <3>1, <3>2, <4>1 DEF PlanOrdered
    <3>5. QED BY <3>3, <3>4
  <2>11. PlanSweep'
    <3>1. it' # None => \A i \in 1 .. n + 1 : Before(plan'[i].id, it')
      <4>1. ASSUME it' # None, NEW i \in 1 .. n + 1
            PROVE Before(plan'[i].id, it')
        <5>1. CASE i = n + 1
          BY <1>6, <2>2, <4>1, <5>1
        <5>2. CASE i # n + 1
          <6>1. i \in 1 .. n
            BY <1>2, <4>1, <5>2
          <6>2. QED BY <1>0, <1>9, <2>2, <4>1, <6>1
        <5>3. QED BY <5>1, <5>2
      <4>2. QED BY <4>1
    <3>2. ASSUME NEW c \in InTree(Opposite)
          PROVE \/ Unvisited(c)'
                \/ \E j \in 1 .. n + 1 : plan'[j].id = c
                \/ order[c].aon /\ Open(c) > Open(cur) - planned'
      <4>1. CASE Unvisited(c)
        <5>1. CASE c = it
          <6>1. n + 1 \in 1 .. n + 1
            BY <1>2
          <6>2. QED BY <2>2, <5>1, <6>1
        <5>2. CASE c # it
          BY <1>6, <1>11, <3>2, <4>1, <5>2 DEF Unvisited
        <5>3. QED BY <5>1, <5>2
      <4>2. CASE \E j \in 1 .. n : plan[j].id = c
        <5>1. PICK j \in 1 .. n : plan[j].id = c
          BY <4>2
        <5>2. j \in 1 .. n + 1
          BY <1>2, <5>1
        <5>3. plan'[j].id = c
          BY <2>2, <5>1
        <5>4. QED BY <5>2, <5>3
      <4>3. CASE order[c].aon /\ Open(c) > Open(cur) - planned
        <5>1. Open(c) \in Nat
          BY <1>10, <3>2
        <5>2. QED BY <1>2, <1>5, <2>1, <4>3, <5>1, SMTT(20)
      <4>4. QED BY <1>0, <1>8, <3>2, <4>1, <4>2, <4>3
    <3>3. QED BY <1>11, <2>2, <3>1, <3>2 DEF PlanSweep
  <2>12. Planned'
    <3>1. \A i \in 1 .. Len(plan') : PlanEntry(g, i)' /\ PlanPriority(g, i)'
      <4>1. \A i \in 1 .. Len(plan') : i \in 1 .. n \/ i = n + 1
        BY <1>2, <2>2
      <4>2. QED BY <2>7, <2>8, <2>9, <4>1
    <3>2. g[Len(plan')] = planned'
      BY <2>2, <2>5
    <3>3. QED BY <1>1, <2>6, <2>10, <2>11, <3>1, <3>2 DEF Planned
  <2>13. MatchSweep' /\ SweepDone'
    BY <1>1 DEF MatchSweep, SweepDone
  <2>14. QED
    BY <1>1, <1>2, <1>6, <2>2, <2>3, <2>12, <2>13, LookStep
<1>13. CASE ~fits
  <2>1. plan' = plan /\ planned' = planned
    BY <1>1, <1>13
  <2>2. f \in PlanSums'
    BY <1>11, <2>1 DEF PlanSums
  <2>3. \A i \in 1 .. Len(plan') : PlanEntry(f, i)' /\ PlanPriority(f, i)'
    BY <1>0, <1>3, <1>11, <2>1 DEF PlanEntry, PlanPriority
  <2>4. PlanOrdered'
    BY <1>2, <1>11, <2>1 DEF PlanOrdered
  <2>5. PlanSweep'
    <3>1. it' # None => \A i \in 1 .. n : Before(plan[i].id, it')
      BY <1>9
    <3>2. ASSUME NEW c \in InTree(Opposite)
          PROVE \/ Unvisited(c)'
                \/ \E j \in 1 .. n : plan[j].id = c
                \/ order[c].aon /\ Open(c) > Open(cur) - planned
      <4>1. CASE Unvisited(c)
        <5>1. CASE c = it
          BY <1>2, <1>4, <1>13, <5>1 DEF fits
        <5>2. CASE c # it
          BY <1>6, <1>11, <3>2, <4>1, <5>2 DEF Unvisited
        <5>3. QED BY <5>1, <5>2
      <4>2. QED BY <1>0, <1>8, <3>2, <4>1
    <3>3. QED BY <1>0, <1>11, <2>1, <3>1, <3>2 DEF PlanSweep
  <2>6. Planned'
    BY <1>0, <1>1, <1>3, <2>1, <2>2, <2>3, <2>4, <2>5 DEF Planned
  <2>7. MatchSweep' /\ SweepDone'
    BY <1>1 DEF MatchSweep, SweepDone
  <2>8. QED
    BY <1>1, <1>2, <1>6, <2>1, <2>6, <2>7, LookStep
<1>14. QED BY <1>12, <1>13

\* What is left of a plan when its head is taken off.
LEMMA TailOfPlan ==
  ASSUME NEW T, NEW n \in Nat, NEW p \in Seq(T), Len(p) = n + 1
  PROVE  /\ Tail(p) \in Seq(T) /\ Len(Tail(p)) = n
         /\ \A i \in 1 .. n : Tail(p)[i] = p[i + 1]
         /\ Head(p) = p[1]
OBVIOUS

\* Where an entry of the rest stood in the plan.
LEMMA Shifted ==
  ASSUME NEW n \in Nat, NEW i \in 1 .. n
  PROVE  /\ i \in 0 .. n /\ i - 1 \in 0 .. n /\ i - 1 + 1 = i
         /\ i + 1 \in 1 .. n + 1 /\ i + 1 - 1 = i
         /\ i \in 0 .. n + 1 /\ i + 1 \in 0 .. n + 1
OBVIOUS

\* Taking the same quantity off two sums keeps their order and their distance.
LEMMA LessBoth ==
  ASSUME NEW a \in Nat, NEW b \in Nat, NEW q \in Nat
  PROVE  /\ (a - q) - (b - q) = a - b
         /\ a <= b => a - q <= b - q
         /\ (a + b) - q = (a - q) + b
OBVIOUS

\* Committing a plan: its first maker is there, trades what was planned, and
\* the rest of the plan is a plan for what is still open.
LEMMA CommitStep ==
  ASSUME IInv, Commit
  PROVE IInv'
<1>1. /\ pc = "commit" /\ pc' = "commit" /\ plan # <<>>
      /\ IF tree[Head(plan).id] = Opposite
         THEN Trade(Head(plan).id, Head(plan).qty)
         ELSE UNCHANGED book
      /\ plan' = Tail(plan)
      /\ UNCHANGED <<cur, it, planned, fired, reply>>
  BY DEF Commit
<1>2. /\ TypeOK /\ Arrival /\ cur \in Ids /\ order[cur] \in Order
      /\ tree[cur] = "out"
      /\ order[cur].aon
      /\ plan \in Seq([id : Ids, qty : Nat]) /\ planned = 0 /\ it = None
      /\ Open(cur) \in Nat /\ Opposite \in Trees
      /\ PlanOrdered
  <2>1. TypeOK /\ cur \in Ids /\ order[cur] \in Order /\ tree[cur] = "out"
        /\ Open(cur) \in Nat /\ Opposite \in Trees
    BY <1>1, SweepNow
  <2>2. Arrival /\ order[cur].aon /\ planned = 0 /\ it = None
    BY <1>1 DEF IInv, Control
  <2>3. plan \in Seq([id : Ids, qty : Nat])
    BY <2>1 DEF TypeOK
  <2>4. PlanOrdered
    BY <1>1 DEF IInv, Planned
  <2>5. QED BY <2>1, <2>2, <2>3, <2>4
<1>3. PICK n \in Nat : n + 1 = Len(plan)
  <2>1. Len(plan) \in Nat /\ Len(plan) # 0
    BY <1>1, <1>2
  <2>2. Len(plan) - 1 \in Nat /\ Len(plan) - 1 + 1 = Len(plan)
    BY <2>1
  <2>3. QED BY <2>2, Zenon
<1>4. PICK f \in PlanSums :
        /\ f[n + 1] = Open(cur)
        /\ \A i \in 1 .. n + 1 : PlanEntry(f, i) /\ PlanPriority(f, i)
  BY <1>1, <1>3 DEF IInv, Planned
<1>5. /\ plan' \in Seq([id : Ids, qty : Nat])
      /\ Len(plan') = n
      /\ \A i \in 1 .. n : plan'[i] = plan[i + 1]
      /\ Head(plan) = plan[1]
  <2> DEFINE T == [id : Ids, qty : Nat]
  <2>1. plan \in Seq(T) /\ Len(plan) = n + 1 /\ plan' = Tail(plan)
    BY <1>1, <1>2, <1>3
  <2> HIDE DEF T
  <2>2. /\ plan' \in Seq(T) /\ Len(plan') = n
        /\ \A i \in 1 .. n : plan'[i] = plan[i + 1]
        /\ Head(plan) = plan[1]
    BY <2>1, TailOfPlan
  <2>3. QED BY <2>2 DEF T
<1>6. /\ f \in [0 .. n + 1 -> 0 .. Open(cur)] /\ f[0] = 0
      /\ \A i \in 1 .. n + 1 : f[i] = f[i - 1] + plan[i].qty
      /\ \A i, j \in 0 .. n + 1 : i <= j => f[i] <= f[j]
      /\ \A i \in 0 .. n + 1 : f[i] \in Nat /\ f[i] <= Open(cur)
  <2>1. /\ f \in [0 .. n + 1 -> 0 .. Open(cur)] /\ f[0] = 0
        /\ \A i \in 1 .. n + 1 : f[i] = f[i - 1] + plan[i].qty
        /\ \A i, j \in 0 .. n + 1 : i <= j => f[i] <= f[j]
    BY <1>3, Zenon DEF PlanSums
  <2>2. \A i \in 0 .. n + 1 : f[i] \in 0 .. Open(cur)
    BY <2>1
  <2>3. \A i \in 0 .. n + 1 : f[i] \in Nat /\ f[i] <= Open(cur)
    <3>1. \A x \in 0 .. Open(cur) : x \in Nat /\ x <= Open(cur)
      BY <1>2
    <3>2. QED BY <2>2, <3>1
  <2>4. QED BY <2>1, <2>3
<1>7. PICK m \in Ids, q \in Nat : m = plan[1].id /\ q = plan[1].qty
  BY <1>2, <1>3, PlanType
<1>8. /\ tree[m] = Opposite /\ Crosses(m)
      /\ q <= Open(m)
      /\ q # Open(m) => ~order[m].aon /\ f[1] = Open(cur)
      /\ f[1] = q
  <2>1. 1 \in 1 .. n + 1 /\ 1 - 1 = 0
    BY <1>3
  <2>2. PlanEntry(f, 1)
    BY <1>4, <2>1
  <2>3. /\ tree[m] = Opposite /\ Crosses(m) /\ q \in 0 .. Open(m)
        /\ q < Open(m) => ~order[m].aon /\ f[1] = Open(cur)
    BY <1>7, <2>2 DEF PlanEntry
  <2>4. Open(m) \in Nat
    <3>1. order[m] \in Order
      BY <1>2 DEF TypeOK
    <3>2. QED BY <3>1, OrderFields, OpenFacts DEF Open
  <2>5. f[1] = 0 + q
    BY <1>6, <1>7, <2>1
  <2>6. QED BY <2>3, <2>4, <2>5
<1>9. q <= Open(cur)
  <2>1. 1 \in 0 .. n + 1
    OBVIOUS
  <2>2. QED BY <1>6, <1>8, <2>1
<1>10. Trade(m, q)
  BY <1>1, <1>5, <1>7, <1>8
<1>11. order[m].aon => q = Open(m)
  BY <1>8
<1>12. /\ BookType' /\ BookInv'
       /\ \A x \in Pending : tree'[x] = "out" /\ order'[x] = order[x]
       /\ tree'[cur] = "out"
       /\ order'[cur] = Filled(order[cur], q)
       /\ order'[cur].filled <= order'[cur].qty
       /\ Open(cur)' = Open(cur) - q
       /\ Opposite' = Opposite
       /\ \A x \in Ids \ {cur, m} : order'[x] = order[x]
       /\ q = Open(m) => Removed(m)
       /\ q # Open(m) => Kept
       /\ InTree(Opposite)' =
            IF q = Open(m) THEN InTree(Opposite) \ {m} ELSE InTree(Opposite)
       /\ \A x, y \in Ids :
            /\ tree[x] = Opposite /\ tree[y] = Opposite
            /\ q = Open(m) => x # m /\ y # m
            => (Before(x, y)' <=> Before(x, y))
  BY <1>1, <1>8, <1>9, <1>10, <1>11, TradeStep
<1>13. /\ order'[cur].aon = order[cur].aon
       /\ order'[cur].buy = order[cur].buy
       /\ order'[cur].price = order[cur].price
  <2>1. q <= OpenQty(order[cur]) /\ order[cur] \in Order /\ q \in Nat
    BY <1>2, <1>9 DEF Open
  <2>2. order'[cur] = Filled(order[cur], q)
    BY <1>12
  <2>3. QED BY <2>1, <2>2, FilledType
<1>14. ASSUME n > 0
       PROVE q = Open(m)
  <2>1. SUFFICES ASSUME q # Open(m) PROVE FALSE
    OBVIOUS
  <2>2. 2 \in 1 .. n + 1 /\ 2 \in 0 .. n + 1 /\ 2 - 1 = 1
    BY <1>14
  <2>3. PlanEntry(f, 2)
    BY <1>4, <2>2
  <2>4. f[1] < Open(cur)
    BY <2>2, <2>3 DEF PlanEntry
  <2>5. QED BY <1>2, <1>8, <2>1, <2>4
<1>15. \A i \in 1 .. n :
         /\ plan'[i].id \in Ids /\ plan'[i].id # m /\ plan'[i].id # cur
         /\ tree[plan'[i].id] = Opposite
         /\ order'[plan'[i].id] = order[plan'[i].id]
         /\ i + 1 \in 1 .. n + 1
         /\ plan'[i] = plan[i + 1]
         /\ PlanEntry(f, i + 1) /\ PlanPriority(f, i + 1)
  <2>1. SUFFICES ASSUME NEW i \in 1 .. n
                 PROVE /\ plan'[i].id \in Ids /\ plan'[i].id # m
                       /\ plan'[i].id # cur
                       /\ tree[plan'[i].id] = Opposite
                       /\ order'[plan'[i].id] = order[plan'[i].id]
                       /\ i + 1 \in 1 .. n + 1
                       /\ plan'[i] = plan[i + 1]
                       /\ PlanEntry(f, i + 1) /\ PlanPriority(f, i + 1)
    OBVIOUS
  <2>2. i + 1 \in 1 .. n + 1 /\ 1 \in 1 .. n + 1 /\ 1 < i + 1
    BY <2>1
  <2>3. plan'[i] = plan[i + 1] /\ PlanEntry(f, i + 1) /\ PlanPriority(f, i + 1)
    BY <1>4, <1>5, <2>1, <2>2
  <2>4. plan[i + 1].id \in Ids
    BY <1>2, <1>3, <2>2, PlanType
  <2>5. tree[plan[i + 1].id] = Opposite
    BY <2>3 DEF PlanEntry
  <2>6. plan[i + 1].id # m
    <3>1. Before(m, plan[i + 1].id)
      BY <1>2, <1>3, <1>7, <2>2 DEF PlanOrdered
    <3>2. QED BY <1>2, <1>8, <3>1, BeforeIsOrder
  <2>7. plan[i + 1].id # cur
    BY <1>2, <2>5 DEF Trees
  <2>8. QED BY <1>12, <2>2, <2>3, <2>4, <2>5, <2>6, <2>7
<1>16. PlanOrdered'
  <2>1. SUFFICES ASSUME NEW i \in 1 .. n, NEW j \in 1 .. n, i < j
                 PROVE Before(plan[i].id, plan[j].id)'
    BY <1>5 DEF PlanOrdered
  <2>2. /\ i + 1 \in 1 .. n + 1 /\ j + 1 \in 1 .. n + 1 /\ i + 1 < j + 1
    BY <2>1
  <2>3. Before(plan[i + 1].id, plan[j + 1].id)
    BY <1>2, <1>3, <2>2 DEF PlanOrdered
  <2>4. PICK x \in Ids, y \in Ids : x = plan'[i].id /\ y = plan'[j].id
    BY <1>15, <2>1
  <2>5. /\ x # m /\ y # m /\ tree[x] = Opposite /\ tree[y] = Opposite
        /\ Before(x, y)
    BY <1>15, <2>1, <2>3, <2>4
  <2>6. Before(x, y)'
    BY <1>12, <2>5
  <2>7. QED BY <2>4, <2>6
<1>17. PICK g \in [0 .. n -> 0 .. Open(cur)'] :
         \A i \in 0 .. n : g[i] = f[i + 1] - q
  <2> DEFINE w == [i \in 0 .. n |-> f[i + 1] - q]
  <2>1. ASSUME NEW i \in 0 .. n PROVE f[i + 1] - q \in 0 .. Open(cur)'
    <3>1. i + 1 \in 0 .. n + 1 /\ 1 \in 0 .. n + 1 /\ 1 <= i + 1
      BY <2>1
    <3>2. f[1] <= f[i + 1] /\ f[i + 1] \in Nat /\ f[i + 1] <= Open(cur)
      BY <1>6, <3>1
    <3>3. QED BY <1>2, <1>8, <1>9, <1>12, <3>2
  <2>2. w \in [0 .. n -> 0 .. Open(cur)'] /\ \A i \in 0 .. n : w[i] = f[i + 1] - q
    BY <2>1
  <2> HIDE DEF w
  <2>3. QED BY <2>2
<1>18. g \in PlanSums'
  <2>1. g[0] = 0
    <3>1. 0 \in 0 .. n /\ 0 + 1 = 1
      OBVIOUS
    <3>2. g[0] = f[1] - q
      BY <1>17, <3>1
    <3>3. QED BY <1>8, <3>2
  <2>2. ASSUME NEW i \in 1 .. n PROVE g[i] = g[i - 1] + plan'[i].qty
    <3>1. /\ i \in 0 .. n /\ i - 1 \in 0 .. n /\ i - 1 + 1 = i
          /\ i + 1 \in 1 .. n + 1 /\ i + 1 - 1 = i
          /\ i \in 0 .. n + 1 /\ i + 1 \in 0 .. n + 1
      BY Shifted
    <3>2. g[i] = f[i + 1] - q /\ g[i - 1] = f[i] - q
      <4>1. g[i] = f[i + 1] - q
        BY <1>17, <3>1
      <4>2. g[i - 1] = f[i - 1 + 1] - q
        BY <1>17, <3>1
      <4>3. QED BY <4>1, <4>2, <3>1
    <3>3. f[i + 1] = f[i] + plan[i + 1].qty
      <4>1. \A k \in 1 .. n + 1 : f[k] = f[k - 1] + plan[k].qty
        BY <1>6
      <4>2. f[i + 1] = f[i + 1 - 1] + plan[i + 1].qty
        BY <4>1, <3>1
      <4>3. QED BY <4>2, <3>1
    <3>4. plan'[i] = plan[i + 1] /\ plan[i + 1].qty \in Nat /\ f[i] \in Nat
      BY <1>2, <1>3, <1>5, <1>6, <2>2, <3>1, PlanType
    <3>5. PICK a \in Nat, d \in Nat : a = f[i] /\ d = plan[i + 1].qty
      BY <3>4
    <3>6. f[i + 1] = a + d
      BY <3>3, <3>5
    <3>7. g[i] = a + d - q
      BY <3>2, <3>6
    <3>8. g[i - 1] = a - q
      BY <3>2, <3>5
    <3>9. plan'[i].qty = d
      BY <3>4, <3>5
    <3>10. a + d - q = a - q + d
      BY LessBoth
    <3>11. QED BY <3>7, <3>8, <3>9, <3>10
  <2>3. ASSUME NEW i \in 0 .. n, NEW j \in 0 .. n, i <= j
        PROVE g[i] <= g[j]
    <3>1. i + 1 \in 0 .. n + 1 /\ j + 1 \in 0 .. n + 1 /\ i + 1 <= j + 1
      BY <2>3
    <3>2. f[i + 1] <= f[j + 1] /\ f[i + 1] \in Nat /\ f[j + 1] \in Nat
      BY <1>6, <3>1
    <3>3. f[i + 1] - q <= f[j + 1] - q
      BY <3>2, LessBoth
    <3>4. g[i] = f[i + 1] - q
      BY <1>17, <2>3, Zenon
    <3>5. g[j] = f[j + 1] - q
      BY <1>17, <2>3, Zenon
    <3>6. QED BY <3>3, <3>4, <3>5, Zenon
  <2>4. QED BY <1>5, <1>17, <2>1, <2>2, <2>3 DEF PlanSums
<1>19. g[n] = Open(cur)'
  <2>1. n \in 0 .. n
    OBVIOUS
  <2>2. QED BY <1>4, <1>12, <1>17, <2>1
<1>20. ASSUME NEW i \in 1 .. n PROVE PlanEntry(g, i)'
  <2>1. PICK p \in Ids : p = plan'[i].id
    BY <1>15, <1>20
  <2>2. /\ tree[p] = Opposite /\ Crosses(p) /\ order'[p] = order[p] /\ p # m
        /\ plan'[i].qty \in 0 .. Open(p)
        /\ plan'[i].qty = 0 => Open(p) = 0
        /\ f[i + 1 - 1] < Open(cur)
        /\ plan'[i].qty < Open(p) => ~order[p].aon /\ f[i + 1] = Open(cur)
    <3>1. /\ PlanEntry(f, i + 1) /\ plan'[i] = plan[i + 1]
          /\ order'[p] = order[p] /\ p # m
      BY <1>15, <1>20, <2>1
    <3>2. p = plan[i + 1].id
      BY <2>1, <3>1
    <3>3. QED BY <3>1, <3>2 DEF PlanEntry
  <2>3. tree'[p] = Opposite'
    BY <1>2, <1>12, <2>2 DEF Removed, Kept, TypeOK
  <2>4. Open(p)' = Open(p) /\ order'[p].aon = order[p].aon
    BY <2>2 DEF Open
  <2>5. Crosses(p)'
    BY <1>1, <1>13, <2>2 DEF Crosses, CrossesAt
  <2>6. /\ i \in 0 .. n /\ i - 1 \in 0 .. n /\ i - 1 + 1 = i
        /\ i + 1 - 1 = i /\ i \in 0 .. n + 1
    BY <1>20, Shifted
  <2>7. f[i + 1] = Open(cur) => g[i] = Open(cur)'
    BY <1>12, <1>17, <2>6
  <2>8. g[i - 1] < Open(cur)'
    <3>1. f[i] < Open(cur) /\ f[i] \in Nat
      BY <1>6, <2>2, <2>6
    <3>2. g[i - 1] = f[i] - q
      BY <1>17, <2>6
    <3>3. QED BY <1>2, <1>12, <3>1, <3>2, SMTT(20)
  <2>9. QED
    BY <2>1, <2>2, <2>3, <2>4, <2>5, <2>7, <2>8 DEF PlanEntry
<1>21. ASSUME NEW i \in 1 .. n PROVE PlanPriority(g, i)'
  <2>1. PICK p \in Ids : p = plan'[i].id
    BY <1>15, <1>21
  <2>2. SUFFICES ASSUME NEW c \in InTree(Opposite)', Before(c, p)'
                 PROVE \/ \E j \in 1 .. i - 1 : plan'[j].id = c
                       \/ order'[c].aon /\ Open(c)' > Open(cur)' - g[i - 1]
    BY <2>1 DEF PlanPriority
  <2>3. q = Open(m)
    BY <1>14, <1>21
  <2>4. c \in InTree(Opposite) /\ c # m /\ c \in Ids /\ tree[c] = Opposite
    BY <1>12, <2>2, <2>3 DEF InTree
  <2>5. c # cur
    BY <1>2, <2>4 DEF Trees
  <2>6. p # m /\ tree[p] = Opposite /\ p = plan[i + 1].id
    BY <1>15, <1>21, <2>1
  <2>7. Before(c, p)
    BY <1>12, <2>2, <2>3, <2>4, <2>6
  <2>8. \/ \E j \in 1 .. i + 1 - 1 : plan[j].id = c
        \/ order[c].aon /\ Open(c) > Open(cur) - f[i + 1 - 1]
    BY <1>15, <1>21, <2>4, <2>6, <2>7 DEF PlanPriority
  <2>9. i + 1 - 1 = i /\ i \in 0 .. n + 1 /\ i - 1 \in 0 .. n /\ i - 1 + 1 = i
    BY <1>21
  <2>10. CASE \E j \in 1 .. i : plan[j].id = c
    <3>1. PICK j \in 1 .. i : plan[j].id = c
      BY <2>10
    <3>2. j # 1
      BY <1>7, <2>4, <3>1
    <3>3. j - 1 \in 1 .. i - 1 /\ j - 1 \in 1 .. n /\ j - 1 + 1 = j
      BY <1>21, <3>1, <3>2
    <3>4. plan'[j - 1].id = c
      BY <1>5, <3>1, <3>3
    <3>5. QED BY <3>3, <3>4
  <2>11. CASE order[c].aon /\ Open(c) > Open(cur) - f[i]
    <3>1. order'[c] = order[c]
      BY <1>12, <2>4, <2>5
    <3>2. Open(c)' = Open(c)
      BY <3>1 DEF Open
    <3>3. g[i - 1] = f[i] - q
      BY <1>17, <2>9
    <3>4. f[i] \in Nat
      BY <1>6, <2>9
    <3>5. Open(cur)' - g[i - 1] = Open(cur) - f[i]
      <4>1. PICK a \in Nat, b \in Nat : a = Open(cur) /\ b = f[i]
        BY <1>2, <3>4
      <4>2. a - q - (b - q) = a - b
        BY LessBoth
      <4>3. Open(cur)' = a - q /\ g[i - 1] = b - q
        BY <1>12, <3>3, <4>1
      <4>4. QED BY <4>1, <4>2, <4>3
    <3>6. QED BY <2>11, <3>1, <3>2, <3>5
  <2>12. QED BY <2>8, <2>9, <2>10, <2>11
<1>22. Planned'
  BY <1>1, <1>5, <1>16, <1>18, <1>19, <1>20, <1>21 DEF Planned
<1>23. MatchSweep' /\ SweepDone'
  BY <1>1 DEF MatchSweep, SweepDone
<1>24. QED
  BY <1>1, <1>2, <1>5, <1>12, <1>13, <1>22, <1>23, SweepStep

-----------------------------------------------------------------------------
(* The inductive invariant.                                                *)

LEMMA InitIInv == Init => IInv
<1>1. SUFFICES ASSUME Init PROVE IInv
  OBVIOUS
<1>2. /\ \A x \in Ids : order[x] = Blank /\ tree[x] = "out" /\ ahead[x] = {}
      /\ pc = "idle" /\ cur = None /\ it = None /\ plan = <<>> /\ planned = 0
      /\ fired = <<>> /\ marketPrice = 0 /\ reply = "none"
  BY <1>1 DEF Init
<1>3. TypeOK
  <2>1. level \in [Trees -> [Prices -> [qty : Word, count : Int]]]
    BY <1>1, WordFacts DEF Init
  <2>2. order \in [Ids -> Order]
    BY <1>1, BlankOrder DEF Init
  <2>3. /\ plan \in Seq([id : Ids, qty : Nat]) /\ fired \in Seq(Ids)
    BY <1>2
  <2>4. /\ tree \in [Ids -> Trees \cup {"out"}] /\ ahead \in [Ids -> SUBSET Ids]
    BY <1>1 DEF Init
  <2>5. QED BY <1>2, <2>1, <2>2, <2>3, <2>4 DEF TypeOK, Steps, Replies
<1>4. \A t \in Trees : InTree(t) = {}
  BY <1>2 DEF InTree, Trees
<1>5. /\ InTree("bids") = {} /\ InTree("asks") = {}
      /\ InTree("stopBids") = {} /\ InTree("stopAsks") = {}
  BY <1>4 DEF Trees
<1>6. Resting = {} /\ Parked = {} /\ Pending = {} /\ InFlight = {}
  BY <1>2, <1>5 DEF Resting, Parked, Pending, InFlight
<1>7. Sides /\ Arrival
  BY <1>2 DEF Sides, Arrival, Trees
<1>8. Control /\ OnePlace /\ FlightOpen
  BY <1>2, <1>6 DEF Control, OnePlace, FlightOpen
<1>9. Residents /\ AllOrNone /\ StopsUntriggered
  BY <1>2, <1>6 DEF Residents, AllOrNone, StopsUntriggered
<1>10. Uncrossed
  BY <1>5 DEF Uncrossed
<1>11. MatchSweep /\ SweepDone /\ Planned /\ ScannedBids
  BY <1>2 DEF MatchSweep, SweepDone, Planned, ScannedBids
<1>12. QED
  BY <1>3, <1>7, <1>8, <1>9, <1>10, <1>11 DEF IInv

LEMMA CallIInv == IInv /\ Call => IInv'
<1>1. SUFFICES ASSUME IInv, Call PROVE IInv'
  OBVIOUS
<1>2. CASE \E o \in NewOrders : AddReject(o)
  BY <1>1, <1>2, RejectStep DEF AddReject, Replies
<1>3. CASE \E x \in Ids, o \in NewOrders : AddPark(x, o)
  BY <1>1, <1>3, AddParkStep
<1>4. CASE \E x \in Ids, o \in NewOrders : AddSubmit(x, o)
  BY <1>1, <1>4, AddSubmitStep
<1>5. CASE \E x \in Ids : Cancel(x)
  BY <1>1, <1>5, CancelStep
<1>6. CASE \E x \in Ids : CancelReject(x)
  BY <1>1, <1>6, RejectStep DEF CancelReject, Replies
<1>7. CASE \E x \in Ids : ReplaceReject(x)
  BY <1>1, <1>7, RejectStep DEF ReplaceReject, Replies
<1>8. CASE \E x \in Ids, d \in Deltas, p \in Prices \cup {0} :
             ReplaceCollapse(x, d, p)
  BY <1>1, <1>8, ReplaceCollapseStep
<1>9. CASE \E x \in Ids, d \in Deltas, p \in Prices \cup {0} :
             ReplaceInPlace(x, d, p)
  BY <1>1, <1>9, ReplaceInPlaceStep
<1>10. CASE \E x \in Ids, d \in Deltas, p \in Prices \cup {0} :
              ReplaceReprice(x, d, p)
  BY <1>1, <1>10, ReplaceRepriceStep
<1>11. CASE \E px \in MarketPrices : SetMarketPrice(px)
  BY <1>1, <1>11, SetMarketPriceStep
<1>12. QED
  BY <1>1, <1>2, <1>3, <1>4, <1>5, <1>6, <1>7, <1>8, <1>9, <1>10, <1>11
  DEF Call

LEMMA StepIInv == IInv /\ Step => IInv'
<1>1. SUFFICES ASSUME IInv, Step PROVE IInv'
  OBVIOUS
<1>2. CASE Submit       BY <1>1, <1>2, SubmitStep
<1>3. CASE MatchEnd     BY <1>1, <1>3, MatchEndStep
<1>4. CASE MatchSkip    BY <1>1, <1>4, MatchSkipStep
<1>5. CASE MatchTrade   BY <1>1, <1>5, MatchTradeStep
<1>6. CASE PlanVisit    BY <1>1, <1>6, PlanVisitStep
<1>7. CASE PlanEnd      BY <1>1, <1>7, PlanEndStep
<1>8. CASE Commit       BY <1>1, <1>8, CommitStep
<1>9. CASE CommitEnd    BY <1>1, <1>9, CommitEndStep
<1>10. CASE Rest        BY <1>1, <1>10, RestStep
<1>11. CASE Discard     BY <1>1, <1>11, DiscardStep
<1>12. CASE \E x \in Ids : FireBid(x)  BY <1>1, <1>12, FireBidStep
<1>13. CASE BidsScanned BY <1>1, <1>13, BidsScannedStep
<1>14. CASE \E x \in Ids : FireAsk(x)  BY <1>1, <1>14, FireAskStep
<1>15. CASE AsksScanned BY <1>1, <1>15, AsksScannedStep
<1>16. QED
  BY <1>1, <1>2, <1>3, <1>4, <1>5, <1>6, <1>7, <1>8, <1>9, <1>10, <1>11,
     <1>12, <1>13, <1>14, <1>15 DEF Step

LEMMA StutterIInv == IInv /\ UNCHANGED vars => IInv'
<1>1. SUFFICES ASSUME IInv, UNCHANGED vars PROVE IInv'
  OBVIOUS
<1>2. UNCHANGED <<order, tree, ahead, level, marketPrice, pc, cur, it, plan,
                  planned, fired, reply>>
  BY <1>1 DEF vars, book, loop
<1>3. TypeOK' /\ Sides' /\ Arrival' /\ Control' /\ OnePlace' /\ FlightOpen'
  BY <1>1, <1>2
  DEF IInv, TypeOK, Sides, Arrival, Control, OnePlace, FlightOpen, Key,
      InFlight, Pending, Opposite
<1>4. /\ Resting' = Resting /\ Parked' = Parked
      /\ \A t : InTree(t)' = InTree(t)
      /\ \A c, d : Before(c, d)' <=> Before(c, d)
      /\ \A c : Crosses(c)' <=> Crosses(c)
      /\ \A c : Open(c)' = Open(c)
      /\ \A o : Triggered(o)' <=> Triggered(o)
      /\ Opposite' = Opposite
  BY <1>2
  DEF Resting, Parked, InTree, Before, Key, Crosses, Open, Triggered, Opposite
<1>5. Residents' /\ AllOrNone' /\ StopsUntriggered' /\ ScannedBids'
      /\ Uncrossed'
  BY <1>1, <1>2, <1>4
  DEF IInv, Residents, AllOrNone, StopsUntriggered, ScannedBids, Uncrossed,
      Triggered, InTree, Resting, Parked, Open
<1>6. MatchSweep' /\ SweepDone'
  BY <1>1, <1>2
  DEF IInv, MatchSweep, SweepDone, Unvisited, TooLarge, Before, Key, Crosses,
      InTree, Opposite, Open
<1>7. Planned'
  BY <1>1, <1>2
  DEF IInv, Planned, PlanOrdered, PlanSums, PlanEntry, PlanPriority, PlanSweep,
      Unvisited, Before, Key, Crosses, InTree, Opposite, Open
<1>8. QED BY <1>3, <1>5, <1>6, <1>7 DEF IInv

\* Between any two steps of any call the book, the order in flight and the
\* loop variables are consistent: IInv is inductive, for every set of orders,
\* prices and deltas.
THEOREM Inductive == Spec => []IInv
<1>1. IInv /\ [Next]_vars => IInv'
  BY CallIInv, StepIInv, StutterIInv DEF Next
<1>2. QED BY InitIInv, <1>1, PTL DEF Spec

\* Every variable keeps its type: no fill exceeds the width of a quantity.
THEOREM TypeCorrect == Spec => []TypeOK
<1>1. IInv => TypeOK
  BY DEF IInv
<1>2. QED BY Inductive, <1>1, PTL

\* No order is in two places, or twice among the fired stops.
THEOREM InOnePlace == Spec => []OnePlace
<1>1. IInv => OnePlace
  BY DEF IInv
<1>2. QED BY Inductive, <1>1, PTL

\* The book is never crossed by two regular orders.
THEOREM NeverCrossed == Spec => []Uncrossed
<1>1. IInv => Uncrossed
  BY DEF IInv
<1>2. QED BY Inductive, <1>1, PTL

\* Between calls no parked stop is triggered.
THEOREM StopsWait == Spec => []StopsUntriggered
<1>1. IInv => StopsUntriggered
  BY DEF IInv
<1>2. QED BY Inductive, <1>1, PTL

\* An all-or-none order never waits with a partial fill.
THEOREM WholeOrNothing == Spec => []AllOrNone
<1>1. IInv => AllOrNone
  BY DEF IInv
<1>2. QED BY Inductive, <1>1, PTL

-----------------------------------------------------------------------------
(* What no step of the book may do, proved from the inductive invariant:   *)
(* trades respect price-time priority and both limits, planned makers stay *)
(* available, and priority inside the trees is never lost.                 *)

LEMMA OpenType ==
  ASSUME TypeOK, NEW x \in Ids
  PROVE Open(x) \in Nat
<1>1. order[x] \in Order
  BY DEF TypeOK
<1>2. QED BY <1>1, OrderFields, OpenFacts DEF Open

\* The makers of a plan are still there, each once, with what was planned.
LEMMA PlanHoldsNow == IInv => PlanHolds
<1>1. SUFFICES ASSUME IInv PROVE PlanHolds
  OBVIOUS
<1>2. CASE pc \notin {"plan", "commit"}
  <2>1. plan = <<>>
    BY <1>1, <1>2 DEF IInv, Control
  <2>2. QED BY <2>1 DEF PlanHolds
<1>3. CASE pc \in {"plan", "commit"}
  <2>1. TypeOK /\ Arrival /\ Planned
    BY <1>1 DEF IInv
  <2>2. PICK f \in PlanSums :
          \A i \in 1 .. Len(plan) : PlanEntry(f, i) /\ PlanPriority(f, i)
    BY <1>3, <2>1 DEF Planned
  <2>3. DOMAIN plan = 1 .. Len(plan) /\ Len(plan) \in Nat
    BY <2>1 DEF TypeOK
  <2>4. ASSUME NEW i \in 1 .. Len(plan)
        PROVE /\ tree[plan[i].id] = Opposite
              /\ plan[i].qty \in 0 .. Open(plan[i].id)
              /\ plan[i].qty = 0 => Open(plan[i].id) = 0
              /\ plan[i].id \in Ids
    BY <2>1, <2>2, PlanType DEF PlanEntry
  <2>5. ASSUME NEW i \in 1 .. Len(plan), NEW j \in 1 .. Len(plan),
               plan[i].id = plan[j].id
        PROVE i = j
    <3>1. ~Before(plan[i].id, plan[i].id)
      <4>1. Opposite \in Trees
        BY DEF Opposite, Trees
      <4>2. QED BY <2>1, <2>4, <4>1, BeforeIsOrder
    <3>2. ~(i < j) /\ ~(j < i)
      BY <1>3, <2>1, <2>5, <3>1 DEF Planned, PlanOrdered
    <3>3. QED BY <2>3, <3>2
  <2>6. ASSUME NEW i \in 1 .. Len(plan), plan[i].qty = 0
        PROVE plan[i].id \in Starved
    <3>1. /\ plan[i].id \in Ids /\ plan[i].id \in Resting
          /\ OpenQty(order[plan[i].id]) = 0
      BY <2>4, <2>6, InTrees DEF Opposite, Open
    <3>2. order[plan[i].id] \in Order
      BY <2>1, <3>1 DEF TypeOK
    <3>3. QED BY <3>1, <3>2, OrderFields DEF OpenQty, Starved
  <2>7. QED BY <2>3, <2>4, <2>5, <2>6 DEF PlanHolds
<1>4. QED BY <1>2, <1>3

\* The commit loop never meets a maker that has gone or has less than planned,
\* and trades nothing only with a maker that has nothing.
THEOREM PlansHold == Spec => []PlanHolds
BY Inductive, PlanHoldsNow, PTL

\* A step that trades with a maker is a trade of the sweep or of the plan.
LEMMA TradingStep ==
  ASSUME IInv, [Next]_vars, NEW m \in Resting, TradedWith(m)
  PROVE \/ pc = "match" /\ MatchTrade /\ m = it
        \/ pc = "commit" /\ Commit /\ plan # <<>> /\ m = plan[1].id
           /\ tree[m] = Opposite
<1>1. /\ m \in Ids /\ tree[m] \in {"bids", "asks"} /\ order'[m] # order[m]
      /\ pc \in {"match", "commit"}
  BY DEF Resting, InTree, TradedWith
<1>2. /\ TypeOK /\ cur \in Ids /\ tree[cur] = "out" /\ m # cur
  BY <1>1, SweepNow
<1>3. MatchTrade \/ Commit
  <2>1. order' # order
    BY <1>1
  <2>2. pc # "idle" /\ pc # "rest" /\ pc # "submit" /\ pc # "plan"
        /\ pc # "scanBids" /\ pc # "scanAsks"
    BY <1>1
  <2>3. ~Call
    BY <2>2
    DEF Call, AddReject, AddPark, AddSubmit, Cancel, CancelReject,
        ReplaceReject, ReplaceCollapse, ReplaceInPlace, ReplaceReprice,
        SetMarketPrice
  <2>4. Step
    BY <2>1, <2>3 DEF Next, vars, book
  <2>5. QED
    BY <2>1, <2>2, <2>4
    DEF Step, Submit, MatchEnd, MatchSkip, PlanVisit, PlanEnd, CommitEnd, Rest,
        Discard, FireBid, BidsScanned, FireAsk, AsksScanned, book
<1>4. CASE MatchTrade
  <2>1. pc = "match" /\ it \in Ids /\ it # None
        /\ Trade(it, Smaller(Open(cur), Open(it)))
    BY <1>2, <1>4 DEF MatchTrade, Matching, TypeOK
  <2>2. m = it
    BY <1>1, <1>2, <2>1 DEF Trade, TypeOK
  <2>3. QED BY <1>4, <2>1, <2>2
<1>5. CASE Commit
  <2>1. pc = "commit" /\ plan # <<>> /\ plan \in Seq([id : Ids, qty : Nat])
    BY <1>2, <1>5 DEF Commit, TypeOK
  <2>2. Head(plan) = plan[1] /\ 1 \in 1 .. Len(plan)
    BY <2>1
  <2>3. tree[plan[1].id] = Opposite
    <3>1. UNCHANGED book => order' = order
      BY DEF book
    <3>2. QED BY <1>1, <1>5, <2>2, <3>1 DEF Commit
  <2>4. Trade(plan[1].id, plan[1].qty) /\ plan[1].id \in Ids
    BY <1>2, <1>5, <2>2, <2>3, PlanType DEF Commit
  <2>5. m = plan[1].id
    BY <1>1, <1>2, <2>4 DEF Trade, TypeOK
  <2>6. QED BY <1>5, <2>1, <2>3, <2>5
<1>6. QED BY <1>3, <1>4, <1>5

\* What is known of the first planned maker.
LEMMA FirstPlanned ==
  ASSUME IInv, pc = "commit", plan # <<>>
  PROVE /\ plan[1].id \in Ids /\ plan[1].qty \in Nat
        /\ tree[plan[1].id] = Opposite
        /\ Crosses(plan[1].id)
        /\ plan[1].qty <= Open(plan[1].id)
        /\ plan[1].qty = 0 => Open(plan[1].id) = 0
        /\ plan[1].qty <= Open(cur)
        /\ order[plan[1].id].aon => plan[1].qty = Open(plan[1].id)
        /\ \A c \in InTree(Opposite) :
             Before(c, plan[1].id) => order[c].aon /\ Open(c) > Open(cur)
<1>1. TypeOK /\ Planned /\ cur \in Ids /\ Open(cur) \in Nat
  BY SweepNow DEF IInv
<1>2. PICK n \in Nat : n = Len(plan) /\ n > 0
  <2>1. Len(plan) \in Nat /\ Len(plan) # 0
    BY <1>1 DEF TypeOK
  <2>2. QED BY <2>1
<1>3. PICK f \in PlanSums :
        \A i \in 1 .. n : PlanEntry(f, i) /\ PlanPriority(f, i)
  BY <1>1, <1>2 DEF Planned
<1>4. 1 \in 1 .. n /\ 1 - 1 = 0 /\ 1 \in 0 .. n
  BY <1>2
<1>5. plan[1].id \in Ids /\ plan[1].qty \in Nat
  BY <1>1, <1>2, <1>4, PlanType
<1>6. /\ f[0] = 0 /\ f[1] = f[1 - 1] + plan[1].qty /\ f[1] \in 0 .. Open(cur)
  BY <1>2, <1>4 DEF PlanSums
<1>7. plan[1].qty <= Open(cur)
  BY <1>1, <1>4, <1>5, <1>6
<1>8. Open(plan[1].id) \in Nat
  BY <1>1, <1>5, OpenType
<1>9. /\ tree[plan[1].id] = Opposite /\ Crosses(plan[1].id)
      /\ plan[1].qty \in 0 .. Open(plan[1].id)
      /\ plan[1].qty = 0 => Open(plan[1].id) = 0
      /\ plan[1].qty < Open(plan[1].id) => ~order[plan[1].id].aon
  BY <1>3, <1>4 DEF PlanEntry
<1>10. \A c \in InTree(Opposite) :
         Before(c, plan[1].id) => order[c].aon /\ Open(c) > Open(cur)
  <2>1. PlanPriority(f, 1)
    BY <1>3, <1>4
  <2>2. f[1 - 1] = 0 /\ 1 .. 1 - 1 = {}
    BY <1>4, <1>6
  <2>3. QED BY <1>1, <2>1, <2>2 DEF PlanPriority
<1>11. QED BY <1>5, <1>7, <1>8, <1>9, <1>10

\* Whoever is swept before the maker of a trade is passed over with reason.
LEMMA PriorityStep ==
  ASSUME IInv, [Next]_vars, NEW m \in Resting, TradedWith(m)
  PROVE \A c \in InTree(tree[m]) :
          Before(c, m) => order[c].aon /\ Open(c) > Open(cur)
<1>1. CASE pc = "match" /\ MatchTrade /\ m = it
  <2>1. /\ TypeOK /\ Arrival /\ MatchSweep /\ it \in Ids /\ it # None
        /\ tree[it] = Opposite /\ Open(cur) > 0 /\ Opposite \in Trees
    BY <1>1, SweepNow DEF IInv, Control, TypeOK, MatchTrade, Matching
  <2>2. SUFFICES ASSUME NEW c \in InTree(Opposite), Before(c, it)
                 PROVE order[c].aon /\ Open(c) > Open(cur)
    BY <1>1, <2>1
  <2>3. c # it /\ ~Before(it, c)
    BY <2>1, <2>2, BeforeIsOrder DEF InTree
  <2>4. TooLarge(c)
    BY <1>1, <2>1, <2>2, <2>3 DEF MatchSweep, Unvisited
  <2>5. QED BY <2>4 DEF TooLarge
<1>2. CASE pc = "commit" /\ plan # <<>> /\ m = plan[1].id /\ tree[m] = Opposite
  BY <1>2, FirstPlanned
<1>3. QED BY <1>1, <1>2, TradingStep

\* Price-time priority, for every order book and every mix of order types.
THEOREM PriorityRespected == Spec => PriceTimePriority
<1>1. IInv /\ [Next]_vars =>
        [\A m \in Resting : TradedWith(m) =>
           \A c \in InTree(tree[m]) :
             Before(c, m) => order[c].aon /\ Open(c) > Open(cur)]_vars
  BY PriorityStep
<1>2. QED BY Inductive, <1>1, PTL DEF Spec, PriceTimePriority

\* The trade of a step: its size, and what it leaves of the taker.
LEMMA LimitStep ==
  ASSUME IInv, [Next]_vars, NEW m \in Resting, TradedWith(m)
  PROVE /\ Crosses(m) /\ tree[m] = Opposite
        /\ marketPrice' = order[m].price
        /\ order'[cur].filled <= order[cur].qty
<1>0. pc \in {"match", "commit"}
  BY DEF TradedWith
<1>1. /\ TypeOK /\ cur \in Ids /\ order[cur] \in Order /\ tree[cur] = "out"
      /\ Open(cur) \in Nat /\ order[cur].filled <= order[cur].qty
      /\ m \in Ids
  BY <1>0, SweepNow DEF Resting, InTree
<1>2. PICK q \in Nat : /\ Trade(m, q) /\ q <= Open(cur)
                       /\ Crosses(m) /\ tree[m] = Opposite
  <2>1. CASE pc = "match" /\ MatchTrade /\ m = it
    <3>1. /\ it # None /\ Crosses(it) /\ tree[it] = Opposite
          /\ Trade(it, Smaller(Open(cur), Open(it)))
      BY <2>1 DEF MatchTrade, Matching, IInv, Control
    <3>2. Open(it) \in Nat
      BY <1>1, <2>1, OpenType
    <3>3. /\ Smaller(Open(cur), Open(it)) \in Nat
          /\ Smaller(Open(cur), Open(it)) <= Open(cur)
      BY <1>1, <3>2 DEF Smaller
    <3>4. QED BY <2>1, <3>1, <3>3
  <2>2. CASE pc = "commit" /\ Commit /\ plan # <<>> /\ m = plan[1].id
             /\ tree[m] = Opposite
    <3>1. plan \in Seq([id : Ids, qty : Nat])
      BY <1>1 DEF TypeOK
    <3>2. Head(plan) = plan[1]
      BY <2>2, <3>1
    <3>3. Trade(m, plan[1].qty)
      BY <2>2, <3>2 DEF Commit
    <3>4. QED BY <2>2, <3>3, FirstPlanned
  <2>3. QED BY <2>1, <2>2, TradingStep
<1>3. marketPrice' = order[m].price
  BY <1>2 DEF Trade
<1>4. order'[cur].filled <= order[cur].qty
  <2>1. m # cur
    BY <1>1, <1>2 DEF Opposite
  <2>2. order'[cur] = Filled(order[cur], q)
    BY <1>1, <1>2, <2>1 DEF Trade, TypeOK
  <2>3. q <= OpenQty(order[cur])
    BY <1>2 DEF Open
  <2>4. QED BY <1>1, <2>2, <2>3, FilledType
<1>5. QED BY <1>2, <1>3, <1>4

\* No order trades through its limit or beyond its quantity.
THEOREM LimitsRespected == Spec => TradesWithinLimits
<1>1. IInv /\ [Next]_vars =>
        [\A m \in Resting : TradedWith(m) =>
           /\ Crosses(m)
           /\ tree[m] = Opposite
           /\ marketPrice' = order[m].price
           /\ order'[cur].filled <= order[cur].qty]_vars
  BY LimitStep
<1>2. QED BY Inductive, <1>1, PTL DEF Spec, TradesWithinLimits

\* FairTrades: a trade passes nobody over, and is within both limits.
THEOREM TradesAreFair == Spec => FairTrades
BY PriorityRespected, LimitsRespected, PTL DEF FairTrades

-----------------------------------------------------------------------------
(* Priority inside the trees.                                              *)

\* No tree loses an order to a lower priority.
OrderKept ==
  \A x, y \in Ids :
    /\ tree[x] \in Trees /\ tree[y] = tree[x] /\ Before(x, y)
    /\ tree'[x] = tree[x] /\ tree'[y] = tree[y]
    => Before(x, y)'

LEMMA KeptOrder ==
  ASSUME TypeOK, BookInv, Kept
  PROVE OrderKept
BY KeptFacts DEF OrderKept, BookInv

LEMMA RemovedOrder ==
  ASSUME TypeOK, BookInv, NEW m \in Ids, Removed(m)
  PROVE OrderKept
<1>1. tree'[m] # tree[m]
  BY DEF Removed, TypeOK, Trees
<1>2. QED BY <1>1, RemovedFacts DEF OrderKept, BookInv

LEMMA AddedOrder ==
  ASSUME TypeOK, BookInv, NEW m \in Ids, NEW t, Added(m, t)
  PROVE OrderKept
<1>1. tree[m] \notin Trees
  BY DEF Added, Trees
<1>2. QED BY <1>1, AddedFacts DEF OrderKept, BookInv

LEMMA UnchangedOrder ==
  ASSUME TypeOK, BookInv, UNCHANGED <<tree, ahead>>,
         \A x \in Ids : tree[x] \in Trees => order'[x] = order[x]
  PROVE OrderKept
<1>1. Kept
  BY DEF Kept, Same
<1>2. QED BY <1>1, KeptOrder

LEMMA ErasedOrder ==
  ASSUME TypeOK, BookInv, NEW m \in Ids, tree[m] \in Trees, Erase(m),
         \A x \in Ids \ {m} : order'[x] = order[x]
  PROVE OrderKept
BY EraseFacts, RemovedOrder

LEMMA TradeOrder ==
  ASSUME IInv, pc \in {"match", "commit"}, NEW m \in Ids, tree[m] = Opposite,
         NEW q \in Nat, q <= Open(cur), q <= Open(m), Trade(m, q)
  PROVE OrderKept
<1>1. /\ TypeOK /\ BookInv /\ cur \in Ids /\ tree[cur] = "out"
      /\ Opposite \in {"bids", "asks"}
  BY SweepNow
<1>2. Kept \/ Removed(m)
  BY <1>1, TradeFacts
<1>3. QED BY <1>1, <1>2, KeptOrder, RemovedOrder

LEMMA CallOrder == IInv /\ Call => OrderKept
<1>1. SUFFICES ASSUME IInv, Call PROVE OrderKept
  OBVIOUS
<1>2. /\ TypeOK /\ BookInv /\ order \in [Ids -> Order]
  BY <1>1, BookInvNow DEF IInv, TypeOK
<1>3. CASE (\E o \in NewOrders : AddReject(o)) \/ (\E x \in Ids : CancelReject(x))
             \/ (\E x \in Ids : ReplaceReject(x))
             \/ (\E px \in MarketPrices : SetMarketPrice(px))
  <2>1. UNCHANGED <<order, tree, ahead>>
    BY <1>3 DEF AddReject, CancelReject, ReplaceReject, SetMarketPrice, book
  <2>2. QED BY <1>2, <2>1, UnchangedOrder
<1>4. ASSUME NEW x \in Ids, NEW o \in NewOrders, AddPark(x, o) PROVE OrderKept
  <2>1. /\ tree[x] = "out" /\ Insert(StopTree(o), x, o) /\ o \in Order
        /\ StopTree(o) \in Trees
        /\ StopTree(o) \in {"bids", "stopBids"} <=> o.buy
    BY <1>4, NewOrderFacts DEF AddPark, Fresh, StopTree, Trees
  <2>2. QED BY <1>2, <2>1, InsertFacts, AddedOrder
<1>5. ASSUME NEW x \in Ids, NEW o \in NewOrders, AddSubmit(x, o)
      PROVE OrderKept
  <2>1. /\ tree[x] = "out" /\ order' = [order EXCEPT ![x] = o]
        /\ UNCHANGED <<tree, ahead>>
    BY <1>5 DEF AddSubmit, Fresh
  <2>2. \A y \in Ids : tree[y] \in Trees => order'[y] = order[y]
    BY <1>2, <2>1 DEF Trees
  <2>3. QED BY <1>2, <2>1, <2>2, UnchangedOrder
<1>6. ASSUME NEW x \in Ids, Cancel(x) PROVE OrderKept
  BY <1>2, <1>6, ErasedOrder DEF Cancel
<1>7. ASSUME NEW x \in Ids, NEW d, NEW p, ReplaceCollapse(x, d, p)
      PROVE OrderKept
  BY <1>2, <1>7, ErasedOrder DEF ReplaceCollapse, Trees
<1>8. ASSUME NEW x \in Ids, NEW d \in Deltas, NEW p, ReplaceInPlace(x, d, p)
      PROVE OrderKept
  <2>1. /\ UNCHANGED <<tree, ahead>>
        /\ order' = [order EXCEPT ![x] = Modified(order[x], d, 0)]
    BY <1>8 DEF ReplaceInPlace
  <2>2. d \in Int /\ order[x] \in Order
    BY <1>2, ConstantsAssumption DEF ConstantsAssumption
  <2>3. /\ Modified(order[x], d, 0).buy = order[x].buy
        /\ Modified(order[x], d, 0).stop = order[x].stop
        /\ Modified(order[x], d, 0).price = order[x].price
    BY <2>2, ModifiedFacts
  <2>4. Kept
    BY <1>2, <2>1, <2>3 DEF Kept, Same
  <2>5. QED BY <1>2, <2>4, KeptOrder
<1>9. ASSUME NEW x \in Ids, NEW d, NEW p, ReplaceReprice(x, d, p)
      PROVE OrderKept
  <2>1. /\ tree[x] \in Trees /\ Erase(x)
        /\ \A y \in Ids \ {x} : order'[y] = order[y]
    BY <1>2, <1>9 DEF ReplaceReprice, Trees
  <2>2. QED BY <1>2, <2>1, ErasedOrder
<1>10. QED
  BY <1>1, <1>3, <1>4, <1>5, <1>6, <1>7, <1>8, <1>9 DEF Call

LEMMA StepOrder == IInv /\ Step => OrderKept
<1>1. SUFFICES ASSUME IInv, Step PROVE OrderKept
  OBVIOUS
<1>2. /\ TypeOK /\ BookInv /\ order \in [Ids -> Order]
  BY <1>1, BookInvNow DEF IInv, TypeOK
<1>3. CASE Submit \/ MatchEnd \/ MatchSkip \/ PlanVisit \/ PlanEnd \/ CommitEnd
             \/ BidsScanned \/ AsksScanned
  <2>1. UNCHANGED <<order, tree, ahead>>
    BY <1>3 DEF Submit, MatchEnd, MatchSkip, PlanVisit, PlanEnd, CommitEnd,
                BidsScanned, AsksScanned, book
  <2>2. QED BY <1>2, <2>1, UnchangedOrder
<1>4. CASE MatchTrade
  <2>1. /\ pc = "match" /\ it \in Ids /\ tree[it] = Opposite
        /\ Trade(it, Smaller(Open(cur), Open(it))) /\ cur \in Ids
    BY <1>1, <1>2, <1>4, SweepNow
    DEF MatchTrade, Matching, IInv, Control, TypeOK
  <2>2. Open(cur) \in Nat /\ Open(it) \in Nat
    BY <1>2, <2>1, OpenType
  <2>3. /\ Smaller(Open(cur), Open(it)) \in Nat
        /\ Smaller(Open(cur), Open(it)) <= Open(cur)
        /\ Smaller(Open(cur), Open(it)) <= Open(it)
    BY <2>2 DEF Smaller
  <2>4. QED BY <1>1, <2>1, <2>3, TradeOrder
<1>5. CASE Commit
  <2>1. /\ pc = "commit" /\ plan # <<>> /\ plan \in Seq([id : Ids, qty : Nat])
    BY <1>2, <1>5 DEF Commit, TypeOK
  <2>2. Head(plan) = plan[1]
    BY <2>1
  <2>3. /\ plan[1].id \in Ids /\ plan[1].qty \in Nat
        /\ tree[plan[1].id] = Opposite
        /\ plan[1].qty <= Open(plan[1].id)
        /\ plan[1].qty <= Open(cur)
    BY <1>1, <2>1, FirstPlanned
  <2>4. Trade(plan[1].id, plan[1].qty)
    BY <1>5, <2>2, <2>3 DEF Commit
  <2>5. QED BY <1>1, <2>1, <2>3, <2>4, TradeOrder
<1>6. CASE Rest
  <2>1. /\ cur \in Ids /\ tree[cur] = "out" /\ order[cur] \in Order
        /\ Insert(BookTree(order[cur]), cur, order[cur])
        /\ BookTree(order[cur]) \in Trees
        /\ BookTree(order[cur]) \in {"bids", "stopBids"} <=> order[cur].buy
    BY <1>1, <1>6, SweepNow DEF Rest, BookTree, Trees
  <2>2. QED BY <1>2, <2>1, InsertFacts, AddedOrder
<1>7. CASE Discard
  <2>1. /\ cur \in Ids /\ tree[cur] = "out" /\ UNCHANGED <<tree, ahead>>
        /\ order' = [order EXCEPT ![cur] = Blank]
    BY <1>1, <1>7, SweepNow DEF Discard
  <2>2. \A y \in Ids : tree[y] \in Trees => order'[y] = order[y]
    BY <1>2, <2>1 DEF Trees
  <2>3. QED BY <1>2, <2>1, <2>2, UnchangedOrder
<1>8. ASSUME NEW x \in Ids, FireBid(x) \/ FireAsk(x) PROVE OrderKept
  <2>1. x # None
    BY <1>8 DEF FireBid, FireAsk, Fires
  <2>2. tree[x] \in Trees
    BY <1>8, <2>1, FirstIs, InTrees DEF FireBid, FireAsk, Trees
  <2>3. QED BY <1>2, <1>8, <2>2, ErasedOrder DEF FireBid, FireAsk
<1>9. QED BY <1>1, <1>3, <1>4, <1>5, <1>6, <1>7, <1>8 DEF Step

\* Once ahead, always ahead: no order falls behind another in its tree.
THEOREM PriorityNeverLost == Spec => PriorityKept
<1>1. IInv /\ Next => OrderKept
  BY CallOrder, StepOrder DEF Next
<1>2. IInv /\ [Next]_vars => [OrderKept]_vars
  BY <1>1
<1>3. [OrderKept]_vars =>
        [\A x, y \in Ids :
           /\ tree[x] \in Trees /\ tree[y] = tree[x] /\ Before(x, y)
           /\ tree'[x] = tree[x] /\ tree'[y] = tree[y]
           => Before(x, y)']_vars
  BY DEF OrderKept
<1>4. QED BY Inductive, <1>2, <1>3, PTL DEF Spec, PriorityKept

-----------------------------------------------------------------------------
(* Who is left in a tree with nothing to trade: nobody, but for overruns.  *)

LEMMA StarvedIs ==
  /\ Starved =
       {x \in Ids : tree[x] \in Trees /\ order[x].filled >= order[x].qty}
  /\ Starved' =
       {x \in Ids : tree'[x] \in Trees /\ order'[x].filled >= order'[x].qty}
BY DEF Starved, Resting, Parked, InTree, Trees

\* Orders that stay as they are starve no more than they did.
LEMMA OpenStays ==
  ASSUME \A x \in Ids : tree'[x] \in Trees =>
           \/ tree'[x] = tree[x] /\ order'[x] = order[x]
           \/ ~(order'[x].filled >= order'[x].qty)
  PROVE Starved' \subseteq Starved
BY StarvedIs

LEMMA SameStarved ==
  ASSUME TypeOK, UNCHANGED tree,
         \A x \in Ids : tree[x] \in Trees => order'[x] = order[x]
  PROVE Starved' \subseteq Starved
BY OpenStays

\* An order that leaves its tree.
LEMMA ErasedStarved ==
  ASSUME TypeOK, NEW m \in Ids, Erase(m),
         \A x \in Ids \ {m} : order'[x] = order[x]
  PROVE Starved' \subseteq Starved
<1>1. /\ tree'[m] \notin Trees
      /\ \A x \in Ids \ {m} : tree'[x] = tree[x]
  BY DEF Erase, TypeOK, Trees
<1>2. QED BY <1>1, OpenStays

\* An order that joins a tree with something open.
LEMMA AddedStarved ==
  ASSUME TypeOK, NEW m \in Ids, NEW o \in Order, NEW t, Insert(t, m, o),
         o.filled < o.qty
  PROVE Starved' \subseteq Starved
<1>1. /\ order'[m] = o
      /\ \A x \in Ids \ {m} : tree'[x] = tree[x] /\ order'[x] = order[x]
  BY DEF Insert, TypeOK
<1>2. ~(o.filled >= o.qty)
  BY OrderFields
<1>3. QED BY <1>1, <1>2, OpenStays

\* A maker that a trade leaves in its tree has something left.
LEMMA TradeStarved ==
  ASSUME IInv, pc \in {"match", "commit"}, NEW m \in Ids, tree[m] = Opposite,
         NEW q \in Nat, q <= Open(cur), q <= Open(m), Trade(m, q)
  PROVE Starved' \subseteq Starved
<1>1. /\ TypeOK /\ cur \in Ids /\ tree[cur] = "out" /\ order[m] \in Order
      /\ Open(m) \in Nat
  BY SweepNow, OpenType DEF TypeOK
<1>2. /\ \A x \in Ids \ {cur, m} : order'[x] = order[x]
      /\ q = Open(m) => Removed(m)
      /\ q # Open(m) => Kept /\ order'[m] = Filled(order[m], q)
  BY <1>1, TradeFacts
<1>3. /\ tree'[cur] \notin Trees
      /\ \A x \in Ids \ {m} : tree'[x] = tree[x]
      /\ q = Open(m) => tree'[m] \notin Trees
  BY <1>1, <1>2 DEF Removed, Kept, TypeOK, Trees, Opposite
<1>4. q # Open(m) => ~(order'[m].filled >= order'[m].qty)
  <2>1. SUFFICES ASSUME q # Open(m) PROVE ~(order'[m].filled >= order'[m].qty)
    OBVIOUS
  <2>2. q < OpenQty(order[m]) /\ q <= OpenQty(order[m])
    BY <1>1, <2>1 DEF Open
  <2>3. /\ order'[m].filled = order[m].filled + q
        /\ order'[m].qty = order[m].qty
        /\ order[m].filled + q < order[m].qty
    BY <1>1, <1>2, <2>1, <2>2, FilledType
  <2>4. order[m].qty \in Nat /\ order[m].filled \in Nat
    BY <1>1, OrderFields
  <2>5. QED BY <2>3, <2>4
<1>5. QED BY <1>2, <1>3, <1>4, OpenStays

\* An order resized in place starves by an overrun only.
LEMMA ResizedStarved ==
  ASSUME TypeOK, NEW x \in Ids, NEW d \in Deltas, NEW p,
         ReplaceInPlace(x, d, p)
  PROVE \A y \in Starved' \ Starved : y = x /\ Overruns(x, d)
<1>1. /\ order[x] \in Order /\ d \in Int /\ tree[x] \in Trees
      /\ ~Collapses(x, d) /\ tree' = tree
      /\ order' = [order EXCEPT ![x] = Modified(order[x], d, 0)]
  BY ConstantsAssumption
  DEF TypeOK, ReplaceInPlace, Trees, ConstantsAssumption
<1> DEFINE o == Modified(order[x], d, 0)
<1>2. /\ order'[x] = o
      /\ \A y \in Ids \ {x} : order'[y] = order[y]
  BY <1>1 DEF TypeOK
<1>3. /\ o.qty = (order[x].qty + d) % WordSize
      /\ o.filled = order[x].filled
  BY <1>1, ModifiedFacts
<1>4. /\ order[x].qty \in Nat /\ order[x].filled \in Nat
      /\ order[x].qty < WordSize
  BY <1>1, OrderFields
<1> HIDE DEF o
<1>5. ASSUME o.filled >= o.qty, ~(order[x].filled >= order[x].qty)
      PROVE Overruns(x, d)
  <2>1. d > 0
    <3>1. SUFFICES ASSUME d <= 0 PROVE FALSE
      BY <1>1
    <3>2. -d < order[x].qty - order[x].filled \/ d = 0
      BY <1>1, <1>4, <1>5, <3>1 DEF Collapses, Open, OpenQty
    <3>3. order[x].qty + d \in Nat /\ order[x].qty + d < WordSize
      <4>1. order[x].qty + d <= order[x].qty /\ order[x].qty + d \in Int
        BY <1>1, <1>4, <3>1
      <4>2. order[x].qty + d >= 0
        BY <1>1, <1>4, <3>2
      <4> QED BY <1>4, <4>1, <4>2, WordFacts
    <3>4. o.qty = order[x].qty + d
      <4>1. order[x].qty + d \in Word
        BY <3>3, WordFacts
      <4>2. QED BY <1>3, <4>1, WordMod
    <3>5. QED BY <1>1, <1>3, <1>4, <1>5, <3>1, <3>2, <3>4
  <2>2. OpenQty(o) = 0
    BY <1>5 DEF OpenQty
  <2>3. QED BY <2>1, <2>2 DEF Overruns, o
<1>6. QED BY <1>1, <1>2, <1>5, StarvedIs

\* No call but an overrunning replace starves an order.
LEMMA CallStarved ==
  ASSUME IInv, Call, NEW y \in Starved' \ Starved
  PROVE \E d \in Deltas, p \in Prices \cup {0} :
          ReplaceInPlace(y, d, p) /\ Overruns(y, d)
<1>1. /\ TypeOK /\ order \in [Ids -> Order]
  BY DEF IInv, TypeOK
<1>2. CASE (\E o \in NewOrders : AddReject(o)) \/ (\E x \in Ids : CancelReject(x))
             \/ (\E x \in Ids : ReplaceReject(x))
             \/ (\E px \in MarketPrices : SetMarketPrice(px))
  <2>1. UNCHANGED <<order, tree>>
    BY <1>2 DEF AddReject, CancelReject, ReplaceReject, SetMarketPrice, book
  <2>2. QED BY <1>1, <2>1, SameStarved
<1>3. ASSUME NEW x \in Ids, NEW o \in NewOrders, AddPark(x, o) PROVE FALSE
  <2>1. Insert(StopTree(o), x, o) /\ o \in Order /\ o.filled < o.qty
    BY <1>3, NewOrderFacts DEF AddPark
  <2>2. QED BY <1>1, <2>1, AddedStarved
<1>4. ASSUME NEW x \in Ids, NEW o \in NewOrders, AddSubmit(x, o) PROVE FALSE
  <2>1. /\ tree[x] = "out" /\ order' = [order EXCEPT ![x] = o] /\ tree' = tree
    BY <1>4 DEF AddSubmit, Fresh
  <2>2. \A z \in Ids : tree[z] \in Trees => order'[z] = order[z]
    BY <1>1, <2>1 DEF Trees
  <2>3. QED BY <1>1, <2>1, <2>2, SameStarved
<1>5. ASSUME NEW x \in Ids, Cancel(x) PROVE FALSE
  BY <1>1, <1>5, ErasedStarved DEF Cancel
<1>6. ASSUME NEW x \in Ids, NEW d, NEW p, ReplaceCollapse(x, d, p) PROVE FALSE
  BY <1>1, <1>6, ErasedStarved DEF ReplaceCollapse
<1>7. ASSUME NEW x \in Ids, NEW d, NEW p, ReplaceReprice(x, d, p) PROVE FALSE
  <2>1. Erase(x) /\ \A z \in Ids \ {x} : order'[z] = order[z]
    BY <1>1, <1>7 DEF ReplaceReprice
  <2>2. QED BY <1>1, <2>1, ErasedStarved
<1>8. ASSUME NEW x \in Ids, NEW d \in Deltas, NEW p \in Prices \cup {0},
             ReplaceInPlace(x, d, p)
      PROVE \E e \in Deltas, r \in Prices \cup {0} :
              ReplaceInPlace(y, e, r) /\ Overruns(y, e)
  <2>1. y = x /\ Overruns(x, d)
    BY <1>1, <1>8, ResizedStarved
  <2>2. QED BY <1>8, <2>1
<1>9. QED BY <1>2, <1>3, <1>4, <1>5, <1>6, <1>7, <1>8 DEF Call

\* The loops starve nobody.
LEMMA StepStarved ==
  ASSUME IInv, Step
  PROVE Starved' \subseteq Starved
<1>1. /\ TypeOK /\ order \in [Ids -> Order]
  BY DEF IInv, TypeOK
<1>2. CASE Submit \/ MatchEnd \/ MatchSkip \/ PlanVisit \/ PlanEnd \/ CommitEnd
             \/ BidsScanned \/ AsksScanned
  <2>1. UNCHANGED <<order, tree>>
    BY <1>2 DEF Submit, MatchEnd, MatchSkip, PlanVisit, PlanEnd, CommitEnd,
                BidsScanned, AsksScanned, book
  <2>2. QED BY <1>1, <2>1, SameStarved
<1>3. CASE MatchTrade
  <2>1. /\ pc = "match" /\ it \in Ids /\ tree[it] = Opposite
        /\ Trade(it, Smaller(Open(cur), Open(it))) /\ cur \in Ids
    BY <1>1, <1>3, SweepNow DEF MatchTrade, Matching, IInv, Control, TypeOK
  <2>2. Open(cur) \in Nat /\ Open(it) \in Nat
    BY <1>1, <2>1, OpenType
  <2>3. /\ Smaller(Open(cur), Open(it)) \in Nat
        /\ Smaller(Open(cur), Open(it)) <= Open(cur)
        /\ Smaller(Open(cur), Open(it)) <= Open(it)
    BY <2>2 DEF Smaller
  <2>4. QED BY <2>1, <2>3, TradeStarved
<1>4. CASE Commit
  <2>1. /\ pc = "commit" /\ plan # <<>> /\ plan \in Seq([id : Ids, qty : Nat])
    BY <1>1, <1>4 DEF Commit, TypeOK
  <2>2. Head(plan) = plan[1]
    BY <2>1
  <2>3. /\ plan[1].id \in Ids /\ plan[1].qty \in Nat
        /\ tree[plan[1].id] = Opposite
        /\ plan[1].qty <= Open(plan[1].id)
        /\ plan[1].qty <= Open(cur)
    BY <2>1, FirstPlanned
  <2>4. Trade(plan[1].id, plan[1].qty)
    BY <1>4, <2>2, <2>3 DEF Commit
  <2>5. QED BY <2>1, <2>3, <2>4, TradeStarved
<1>5. CASE Rest
  <2>1. /\ cur \in Ids /\ order[cur] \in Order /\ OpenQty(order[cur]) > 0
        /\ Insert(BookTree(order[cur]), cur, order[cur])
    BY <1>5, SweepNow DEF Rest, Rests
  <2>2. order[cur].filled < order[cur].qty
    BY <2>1, OrderFields, OpenFacts
  <2>3. QED BY <1>1, <2>1, <2>2, AddedStarved
<1>6. CASE Discard
  <2>1. /\ cur \in Ids /\ tree[cur] = "out" /\ tree' = tree
        /\ order' = [order EXCEPT ![cur] = Blank]
    BY <1>6, SweepNow DEF Discard
  <2>2. \A y \in Ids : tree[y] \in Trees => order'[y] = order[y]
    BY <1>1, <2>1 DEF Trees
  <2>3. QED BY <1>1, <2>1, <2>2, SameStarved
<1>7. ASSUME NEW x \in Ids, FireBid(x) \/ FireAsk(x)
      PROVE Starved' \subseteq Starved
  BY <1>1, <1>7, ErasedStarved DEF FireBid, FireAsk
<1>8. QED BY <1>2, <1>3, <1>4, <1>5, <1>6, <1>7 DEF Step

\* What a step does to the starved orders, in the words of the property.
LEMMA StarvedStep ==
  ASSUME IInv, Next
  PROVE \A x \in Starved' \ Starved :
          \E d \in Deltas, p \in Prices \cup {0} :
            ReplaceInPlace(x, d, p) /\ Overruns(x, d)
BY CallStarved, StepStarved DEF Next

\* OnlyOverrunsStarve: whatever is traded, planned, reduced, repriced or
\* triggered, an order stays in a tree only as long as something of it can be
\* traded, unless its owner's increase overran it.
THEOREM StarvedByOverrun == Spec => OnlyOverrunsStarve
<1>1. IInv /\ [Next]_vars =>
        [\A x \in Starved' \ Starved :
           \E d \in Deltas, p \in Prices \cup {0} :
             ReplaceInPlace(x, d, p) /\ Overruns(x, d)]_vars
  BY StarvedStep
<1>2. QED BY Inductive, <1>1, PTL DEF Spec, OnlyOverrunsStarve

\* No increase overruns the order it is for.
Restrained ==
  \A x \in Ids, d \in Deltas, p \in Prices \cup {0} :
    ReplaceInPlace(x, d, p) => ~Overruns(x, d)

LEMMA OpenIsUnstarved ==
  IInv /\ Starved = {} => ResidentsOpen
<1>1. SUFFICES ASSUME IInv, Starved = {} PROVE ResidentsOpen
  OBVIOUS
<1>2. TypeOK /\ Residents
  BY <1>1 DEF IInv
<1>3. ASSUME NEW x \in Resting \cup Parked
      PROVE order[x].filled < order[x].qty
  <2>1. x \in Ids /\ ~(order[x].filled >= order[x].qty)
    BY <1>1, <1>3 DEF Starved, Resting, Parked, InTree
  <2>2. order[x].filled \in Nat /\ order[x].qty \in Nat
    BY <1>2, <2>1, OrderFields DEF TypeOK
  <2>3. QED BY <2>1, <2>2
<1>4. QED BY <1>2, <1>3 DEF Residents, ResidentsOpen

\* As long as no caller overruns an order, every order in a tree is open.
LEMMA NobodyStarves == Spec /\ NoOverrun => [](Starved = {})
<1>1. Init => Starved = {}
  BY DEF Init, Starved, Resting, Parked, InTree
<1>2. IInv /\ Starved = {} /\ [Next]_vars /\ [Restrained]_vars
        => (Starved = {})'
  <2>1. SUFFICES ASSUME IInv, Starved = {}, [Next]_vars, [Restrained]_vars
                 PROVE Starved' = {}
    OBVIOUS
  <2>2. CASE UNCHANGED vars
    BY <2>1, <2>2 DEF vars, book, Starved, Resting, Parked, InTree
  <2>3. CASE Next /\ Restrained
    <3>1. ASSUME NEW y \in Starved' PROVE FALSE
      <4>1. PICK d \in Deltas, p \in Prices \cup {0} :
              ReplaceInPlace(y, d, p) /\ Overruns(y, d)
        BY <2>1, <2>3, <3>1, StarvedStep
      <4>2. y \in Ids
        BY <3>1, StarvedIs
      <4>3. QED BY <2>3, <4>1, <4>2 DEF Restrained
    <3>2. QED BY <3>1
  <2>4. QED BY <2>1, <2>2, <2>3
<1>3. NoOverrun => [][Restrained]_vars
  BY PTL DEF NoOverrun, Restrained
<1>4. QED BY Inductive, <1>1, <1>2, <1>3, PTL DEF Spec

\* No filled order, market order or IOC order is ever left behind in a tree by
\* the book itself: without an overrun every order there is open and may wait.
THEOREM OnlyOpenResidents == Spec /\ NoOverrun => []ResidentsOpen
BY Inductive, NobodyStarves, OpenIsUnstarved, PTL

\* Without an overrun every order is in one place, and open where it waits.
THEOREM StaysWellPlaced == Spec /\ NoOverrun => []WellPlaced
<1>1. OnePlace /\ ResidentsOpen => WellPlaced
  BY DEF WellPlaced
<1>2. QED BY InOnePlace, OnlyOpenResidents, <1>1, PTL

-----------------------------------------------------------------------------
(* Every step of the book is one step of Exchange or none: the loops of    *)
(* matching_book.h, iteration by iteration, do nothing to an order that    *)
(* its owner and the rules of trading do not cover.                        *)

LEMMA StatusIs ==
  ASSUME NEW x \in Ids
  PROVE /\ tree[x] \in {"stopBids", "stopAsks"} => Status[x] = "parked"
        /\ tree[x] \in {"bids", "asks"} => Status[x] = "live"
        /\ x \in InFlight /\ tree[x] = "out" => Status[x] = "live"
        /\ x \notin InFlight /\ tree[x] = "out" => Status[x] = "out"
BY InTrees DEF Status

\* The status of an order does not change with anything but its tree and
\* whether it is in flight.
LEMMA StatusSame ==
  ASSUME TypeOK, TypeOK', OnePlace, OnePlace', NEW x \in Ids,
         tree'[x] = tree[x], x \in InFlight' <=> x \in InFlight
  PROVE Status'[x] = Status[x]
BY DEF Status, Parked, Resting, InTree

LEMMA InitRefines == Init => Promise!Init
<1>1. SUFFICES ASSUME Init PROVE Promise!Init
  OBVIOUS
<1>2. \A x \in Ids : tree[x] = "out"
  BY <1>1 DEF Init
<1>3. InFlight = {}
  BY <1>1 DEF Init, InFlight, Pending
<1>4. \A x \in Ids : Status[x] = "out"
  BY <1>2, <1>3, StatusIs
<1>5. Status = [x \in Ids |-> "out"]
  BY <1>4 DEF Status
<1>6. QED BY <1>1, <1>5 DEF Promise!Init, Promise!Blank, Init, Blank

\* Nothing happens to any order.
LEMMA StutterRefines ==
  ASSUME TypeOK, TypeOK', OnePlace, OnePlace', UNCHANGED <<order, marketPrice>>,
         \A x \in Ids : \/ tree'[x] = tree[x] /\ (x \in InFlight' <=> x \in InFlight)
                        \/ x \in InFlight /\ tree'[x] \in {"bids", "asks"}
  PROVE UNCHANGED Promise!vars
<1>1. ASSUME NEW x \in Ids PROVE Status'[x] = Status[x]
  <2>1. CASE tree'[x] = tree[x] /\ (x \in InFlight' <=> x \in InFlight)
    BY <2>1, StatusSame
  <2>2. CASE x \in InFlight /\ tree'[x] \in {"bids", "asks"}
    <3>1. tree[x] = "out"
      BY <2>2 DEF OnePlace
    <3>2. Status[x] = "live"
      BY <2>2, <3>1, StatusIs
    <3>3. Status'[x] = "live"
      BY <2>2 DEF Status, Resting, Parked, InTree
    <3>4. QED BY <3>2, <3>3
  <2>3. QED BY <2>1, <2>2
<1>2. Status' = Status
  BY <1>1 DEF Status
<1>3. QED BY <1>2 DEF Promise!vars

LEMMA InvBoth ==
  ASSUME IInv, IInv'
  PROVE /\ TypeOK /\ TypeOK' /\ OnePlace /\ OnePlace'
        /\ Residents /\ Residents' /\ None \notin Ids
        /\ order \in [Ids -> Order] /\ order' \in [Ids -> Order]
        /\ tree \in [Ids -> Trees \cup {"out"}]
        /\ tree' \in [Ids -> Trees \cup {"out"}]
BY ConstantsAssumption DEF IInv, TypeOK, ConstantsAssumption

LEMMA LookRefines ==
  ASSUME IInv, IInv', UNCHANGED <<order, tree, marketPrice, cur, fired>>
  PROVE UNCHANGED Promise!vars
<1>1. InFlight' = InFlight
  BY DEF InFlight, Pending
<1>2. QED BY <1>1, InvBoth, StutterRefines

\* While the book is idle nothing is in flight.
LEMMA IdleStatus ==
  ASSUME IInv, pc = "idle"
  PROVE /\ InFlight = {} /\ cur = None /\ fired = <<>>
        /\ \A x \in Ids : Status[x] = IF tree[x] = "out" THEN "out"
                                      ELSE IF tree[x] \in {"bids", "asks"}
                                      THEN "live" ELSE "parked"
<1>1. cur = None /\ fired = <<>>
  BY DEF IInv, Control
<1>2. InFlight = {}
  BY <1>1 DEF InFlight, Pending
<1>3. tree \in [Ids -> Trees \cup {"out"}]
  BY DEF IInv, TypeOK
<1>4. QED BY <1>1, <1>2, <1>3, StatusIs DEF Trees

\* An order enters.
LEMMA AddParkRefines ==
  ASSUME IInv, IInv', NEW x \in Ids, NEW o \in NewOrders, AddPark(x, o)
  PROVE Promise!Enter(x, o)
<1>1. /\ pc = "idle" /\ tree[x] = "out" /\ o.qty > 0 /\ Stopped(o)
      /\ Insert(StopTree(o), x, o)
      /\ UNCHANGED <<marketPrice, cur, fired>>
  BY DEF AddPark, Fresh, loop
<1>2. /\ InFlight = {} /\ InFlight' = {} /\ Status[x] = "out"
  BY <1>1, IdleStatus DEF InFlight, Pending
<1>3. /\ tree' = [tree EXCEPT ![x] = StopTree(o)]
      /\ order' = [order EXCEPT ![x] = o]
  BY <1>1 DEF Insert
<1>4. Status'[x] = "parked"
  BY <1>3, InvBoth DEF Status, Parked, InTree, StopTree
<1>5. \A y \in Ids \ {x} : Status'[y] = Status[y]
  <2>1. ASSUME NEW y \in Ids \ {x} PROVE Status'[y] = Status[y]
    <3>1. tree'[y] = tree[y] /\ (y \in InFlight' <=> y \in InFlight)
      BY <1>2, <1>3, InvBoth
    <3>2. QED BY <3>1, InvBoth, StatusSame
  <2>2. QED BY <2>1
<1>6. ~(o.stop = 0 \/ Promise!Reached(o))
  <2>1. o.stop \in Nat /\ marketPrice \in Nat
    BY NewOrderFacts, OrderFields, InvBoth DEF TypeOK
  <2>2. QED BY <1>1, <2>1 DEF Stopped, Promise!Reached
<1>7. Status' = [Status EXCEPT ![x] = "parked"]
  BY <1>4, <1>5 DEF Status
<1>8. QED BY <1>1, <1>2, <1>3, <1>6, <1>7 DEF Promise!Enter

LEMMA AddSubmitRefines ==
  ASSUME IInv, IInv', NEW x \in Ids, NEW o \in NewOrders, AddSubmit(x, o)
  PROVE Promise!Enter(x, o)
<1>1. /\ pc = "idle" /\ tree[x] = "out" /\ o.qty > 0 /\ ~Stopped(o)
      /\ order' = [order EXCEPT ![x] = o] /\ cur' = x
      /\ UNCHANGED <<marketPrice, tree, fired>>
  BY DEF AddSubmit, Fresh
<1>2. /\ InFlight = {} /\ InFlight' = {x} /\ Status[x] = "out"
  BY <1>1, IdleStatus, InvBoth DEF InFlight, Pending
<1>3. Status'[x] = "live"
  BY <1>1, <1>2, InvBoth DEF Status, Parked, InTree
<1>4. \A y \in Ids \ {x} : Status'[y] = Status[y]
  <2>1. ASSUME NEW y \in Ids \ {x} PROVE Status'[y] = Status[y]
    <3>1. tree'[y] = tree[y] /\ (y \in InFlight' <=> y \in InFlight)
      BY <1>1, <1>2
    <3>2. QED BY <3>1, InvBoth, StatusSame
  <2>2. QED BY <2>1
<1>5. o.stop = 0 \/ Promise!Reached(o)
  <2>1. o.stop \in Nat /\ marketPrice \in Nat
    BY NewOrderFacts, OrderFields, InvBoth DEF TypeOK
  <2>2. QED BY <1>1, <2>1 DEF Stopped, Promise!Reached
<1>6. Status' = [Status EXCEPT ![x] = "live"]
  BY <1>3, <1>4 DEF Status
<1>7. QED BY <1>1, <1>2, <1>5, <1>6 DEF Promise!Enter

\* An order leaves.
LEMMA LeaveRefines ==
  ASSUME IInv, IInv', NEW x \in Ids,
         tree[x] \in Trees \/ x \in InFlight,
         tree'[x] = "out", x \notin InFlight',
         order' = [order EXCEPT ![x] = Blank], marketPrice' = marketPrice,
         \A y \in Ids \ {x} : \/ tree'[y] = tree[y]
                                 /\ (y \in InFlight' <=> y \in InFlight)
  PROVE Promise!Leave(x)
<1>1. Status[x] # "out"
  BY InvBoth, StatusIs DEF Trees, OnePlace
<1>2. Status'[x] = "out"
  BY DEF Status, Parked, Resting, InTree
<1>3. \A y \in Ids \ {x} : Status'[y] = Status[y]
  <2>1. ASSUME NEW y \in Ids \ {x} PROVE Status'[y] = Status[y]
    BY InvBoth, StatusSame
  <2>2. QED BY <2>1
<1>4. Status' = [Status EXCEPT ![x] = "out"]
  BY <1>2, <1>3 DEF Status
<1>5. QED BY <1>1, <1>4 DEF Promise!Leave, Promise!Blank, Blank

LEMMA GoneRefines ==
  ASSUME IInv, IInv', pc = "idle", NEW x \in Ids, tree[x] \in Trees, Erase(x),
         order' = [order EXCEPT ![x] = Blank],
         UNCHANGED <<marketPrice, cur, fired>>
  PROVE Promise!Leave(x)
<1>1. InFlight = {} /\ InFlight' = {}
  BY IdleStatus DEF InFlight, Pending
<1>2. tree'[x] = "out" /\ \A y \in Ids \ {x} : tree'[y] = tree[y]
  BY InvBoth DEF Erase
<1>3. QED BY <1>1, <1>2, LeaveRefines

\* Taking the first fired stop keeps the set of those in flight.
LEMMA TailFlight ==
  ASSUME TypeOK, fired # <<>>, cur' = Head(fired), fired' = Tail(fired),
         None \notin Pending
  PROVE InFlight' = Pending
<1>1. /\ fired \in Seq(Ids) /\ Len(fired) \in Nat \ {0}
      /\ DOMAIN fired = 1 .. Len(fired)
  BY DEF TypeOK
<1>2. /\ DOMAIN fired' = 1 .. Len(fired) - 1
      /\ \A i \in 1 .. Len(fired) - 1 : fired'[i] = fired[i + 1]
      /\ cur' = fired[1]
  BY <1>1
<1>3. 1 \in DOMAIN fired /\ cur' \in Pending /\ cur' # None
  BY <1>1, <1>2 DEF Pending
<1>4. ASSUME NEW y \in InFlight' PROVE y \in Pending
  <2>1. CASE y = cur'
    BY <1>3, <2>1
  <2>2. CASE y # cur'
    <3>1. PICK i \in 1 .. Len(fired) - 1 : y = fired'[i]
      BY <1>2, <1>4, <2>2 DEF InFlight, Pending
    <3>2. i + 1 \in DOMAIN fired /\ y = fired[i + 1]
      BY <1>1, <1>2, <3>1
    <3>3. QED BY <3>2 DEF Pending
  <2>3. QED BY <2>1, <2>2
<1>5. ASSUME NEW y \in Pending PROVE y \in InFlight'
  <2>1. PICK i \in 1 .. Len(fired) : y = fired[i]
    BY <1>1, <1>5 DEF Pending
  <2>2. CASE i = 1
    BY <1>2, <1>3, <2>1, <2>2 DEF InFlight
  <2>3. CASE i # 1
    <3>1. i - 1 \in DOMAIN fired' /\ fired'[i - 1] = y
      BY <1>1, <1>2, <2>1, <2>3
    <3>2. QED BY <3>1 DEF InFlight, Pending
  <2>4. QED BY <2>2, <2>3
<1>6. QED BY <1>4, <1>5

\* When submit returns, what is in flight next was already waiting.
LEMMA ContinueFlight ==
  ASSUME TypeOK, Continue, None \notin Pending
  PROVE InFlight' = Pending
<1>1. CASE fired = <<>>
  <2>1. cur' = None /\ fired' = <<>>
    BY <1>1 DEF Continue
  <2>2. QED BY <1>1, <2>1 DEF InFlight, Pending
<1>2. CASE fired # <<>>
  <2>1. cur' = Head(fired) /\ fired' = Tail(fired)
    BY <1>2 DEF Continue
  <2>2. QED BY <1>2, <2>1, TailFlight
<1>3. QED BY <1>1, <1>2

LEMMA DiscardRefines ==
  ASSUME IInv, IInv', Discard
  PROVE Promise!Leave(cur)
<1>1. /\ pc = "rest" /\ Continue
      /\ order' = [order EXCEPT ![cur] = Blank]
      /\ UNCHANGED <<tree, marketPrice>>
  BY DEF Discard
<1>2. /\ TypeOK /\ Distinct(fired) /\ cur \in Ids /\ tree[cur] = "out"
      /\ cur \notin Pending
  BY <1>1, SweepNow
<1>3. InFlight = Pending \cup {cur} /\ None \notin Ids /\ None \notin Pending
  <2>1. Pending \subseteq Ids
    BY <1>1, SweepNow
  <2>2. QED BY <1>2, <2>1, InvBoth DEF InFlight
<1>4. InFlight' = Pending
  BY <1>1, <1>2, <1>3, ContinueFlight
<1>5. QED BY <1>1, <1>2, <1>3, <1>4, LeaveRefines

LEMMA RestRefines ==
  ASSUME IInv, IInv', Rest
  PROVE UNCHANGED Promise!vars
<1>1. /\ pc = "rest" /\ Continue
      /\ Insert(BookTree(order[cur]), cur, order[cur])
      /\ marketPrice' = marketPrice
  BY DEF Rest
<1>2. /\ TypeOK /\ Distinct(fired) /\ cur \in Ids /\ tree[cur] = "out"
      /\ cur \notin Pending /\ Pending \subseteq Ids
  BY <1>1, SweepNow
<1>3. InFlight = Pending \cup {cur} /\ None \notin Ids /\ None \notin Pending
  BY <1>2, InvBoth DEF InFlight
<1>4. InFlight' = Pending
  BY <1>1, <1>2, <1>3, ContinueFlight
<1>5. /\ tree' = [tree EXCEPT ![cur] = BookTree(order[cur])]
      /\ order' = [order EXCEPT ![cur] = order[cur]]
  BY <1>1 DEF Insert
<1>6. order' = order /\ tree'[cur] \in {"bids", "asks"}
      /\ \A y \in Ids \ {cur} : tree'[y] = tree[y]
  BY <1>2, <1>5, InvBoth DEF BookTree
<1>7. QED BY <1>1, <1>2, <1>3, <1>4, <1>6, InvBoth, StutterRefines

LEMMA AsksScannedRefines ==
  ASSUME IInv, IInv', AsksScanned
  PROVE UNCHANGED Promise!vars
<1>1. /\ UNCHANGED <<order, tree, marketPrice>> /\ pc = "scanAsks"
      /\ IF fired = <<>>
         THEN pc' = "idle" /\ UNCHANGED <<cur, fired>>
         ELSE pc' = "submit" /\ cur' = Head(fired) /\ fired' = Tail(fired)
  BY DEF AsksScanned, book
<1>2. cur = None /\ Pending \subseteq Ids
  BY <1>1, InvBoth DEF IInv, Control, Pending, TypeOK
<1>3. InFlight = Pending
  BY <1>2, InvBoth DEF InFlight
<1>4. InFlight' = InFlight
  <2>1. CASE fired = <<>>
    BY <1>1, <2>1 DEF InFlight, Pending
  <2>2. CASE fired # <<>>
    BY <1>1, <1>2, <1>3, <2>2, InvBoth, TailFlight
  <2>3. QED BY <2>1, <2>2
<1>5. QED BY <1>1, <1>4, InvBoth, StutterRefines

\* A stop goes live.
LEMMA FireRefines ==
  ASSUME IInv, IInv', NEW x \in Ids, tree[x] \in {"stopBids", "stopAsks"},
         Triggered(order[x]), Erase(x), fired' = Append(fired, x),
         UNCHANGED <<order, marketPrice, cur>>
  PROVE Promise!Trigger(x)
<1>1. Pending' = Pending \cup {x}
  <2>1. Distinct(fired) /\ x \notin Pending
    BY InvBoth DEF OnePlace, Distinct, InFlight
  <2>2. QED BY <2>1, InvBoth, FiredAppend
<1>2. InFlight' = InFlight \cup {x}
  BY <1>1, InvBoth DEF InFlight
<1>3. tree'[x] = "out" /\ \A y \in Ids \ {x} : tree'[y] = tree[y]
  BY InvBoth DEF Erase
<1>4. Status[x] = "parked"
  BY StatusIs
<1>5. Status'[x] = "live"
  BY <1>2, <1>3 DEF Status, Parked, InTree
<1>6. \A y \in Ids \ {x} : Status'[y] = Status[y]
  <2>1. ASSUME NEW y \in Ids \ {x} PROVE Status'[y] = Status[y]
    <3>1. tree'[y] = tree[y] /\ (y \in InFlight' <=> y \in InFlight)
      BY <1>2, <1>3
    <3>2. QED BY <3>1, InvBoth, StatusSame
  <2>2. QED BY <2>1
<1>7. Status' = [Status EXCEPT ![x] = "live"]
  BY <1>5, <1>6 DEF Status
<1>8. QED BY <1>4, <1>7 DEF Promise!Trigger, Promise!Reached, Triggered

LEMMA FireBidRefines ==
  ASSUME IInv, IInv', NEW x \in Ids, FireBid(x)
  PROVE Promise!Trigger(x)
<1>1. x # None /\ Triggered(order[x])
  BY DEF FireBid, Fires
<1>2. tree[x] = "stopBids"
  BY <1>1, FirstIs, InTrees DEF FireBid
<1>3. QED BY <1>1, <1>2, FireRefines DEF FireBid

LEMMA FireAskRefines ==
  ASSUME IInv, IInv', NEW x \in Ids, FireAsk(x)
  PROVE Promise!Trigger(x)
<1>1. x # None /\ Triggered(order[x])
  BY DEF FireAsk, Fires
<1>2. tree[x] = "stopAsks"
  BY <1>1, FirstIs, InTrees DEF FireAsk
<1>3. QED BY <1>1, <1>2, FireRefines DEF FireAsk

\* The owner changes an order.
LEMMA ModifiedChange ==
  ASSUME NEW o \in Order, NEW d \in Int, NEW p \in Prices \cup {0}
  PROVE Modified(o, d, p) = [o EXCEPT !.qty = Modified(o, d, p).qty,
                                      !.price = Modified(o, d, p).price]
BY DEF Modified, Order

LEMMA ReplaceInPlaceRefines ==
  ASSUME IInv, IInv', NEW x \in Ids, NEW d \in Deltas, NEW p,
         ReplaceInPlace(x, d, p)
  PROVE \/ \E q \in Word, r \in Prices : Promise!Change(x, q, r)
        \/ \E q \in Word : Promise!Overrun(x, q)
<1>1. /\ pc = "idle" /\ tree[x] \in {"bids", "asks"}
      /\ order' = [order EXCEPT ![x] = Modified(order[x], d, 0)]
      /\ UNCHANGED <<tree, marketPrice, cur, fired>>
  BY DEF ReplaceInPlace, loop
<1>2. order[x] \in Order /\ d \in Int
  BY InvBoth, ConstantsAssumption DEF ConstantsAssumption
<1> DEFINE o == Modified(order[x], d, 0)
<1>3. /\ o \in Order /\ o.filled = order[x].filled /\ o.price = order[x].price
      /\ order'[x] = o
  BY <1>1, <1>2, ModifiedFacts, InvBoth
<1>4. x \in Resting
  BY <1>1, InTrees
<1>5. o.price # 0
  BY <1>3, <1>4, InvBoth DEF Residents
<1>6. o.qty \in Word /\ o.price \in Prices
  BY <1>3, <1>5 DEF Order
<1>7. o.qty > order[x].filled \/ o.qty <= order[x].filled
  BY <1>2, <1>3, OrderFields
<1>8. Status[x] = "live"
  BY <1>1, StatusIs
<1>9. Status' = Status
  <2>1. InFlight' = InFlight
    BY <1>1 DEF InFlight, Pending
  <2>2. \A y \in Ids : Status'[y] = Status[y]
    BY <1>1, <2>1 DEF Status, Resting, Parked, InTree
  <2>3. QED BY <2>2 DEF Status
<1>10. o = [order[x] EXCEPT !.qty = o.qty, !.price = o.price]
  BY <1>2, ModifiedChange
<1> HIDE DEF o
<1>11. order' = [order EXCEPT ![x].qty = o.qty, ![x].price = o.price]
  BY <1>1, <1>10, InvBoth DEF o
<1>12. CASE o.qty > order[x].filled
  <2>1. Promise!Change(x, o.qty, o.price)
    BY <1>1, <1>8, <1>9, <1>11, <1>12 DEF Promise!Change
  <2>2. QED BY <1>6, <2>1
<1>13. CASE o.qty <= order[x].filled
  <2>1. order' = [order EXCEPT ![x].qty = o.qty]
    <3>1. o = [order[x] EXCEPT !.qty = o.qty]
      BY <1>2, <1>3, <1>10 DEF Order
    <3>2. QED BY <1>1, <3>1, InvBoth DEF o
  <2>2. Promise!Overrun(x, o.qty)
    BY <1>1, <1>8, <1>9, <1>13, <2>1 DEF Promise!Overrun
  <2>3. QED BY <1>6, <2>2
<1>14. QED BY <1>7, <1>12, <1>13

LEMMA ReplaceRepriceRefines ==
  ASSUME IInv, IInv', NEW x \in Ids, NEW d \in Deltas,
         NEW p \in Prices \cup {0}, ReplaceReprice(x, d, p)
  PROVE \/ Promise!Leave(x)
        \/ \E q \in Word, r \in Prices : Promise!Change(x, q, r)
<1> DEFINE o == Modified(order[x], d, p)
<1>1. /\ pc = "idle" /\ tree[x] \in {"bids", "asks"} /\ Reprice(x, p)
      /\ Erase(x)
      /\ IF OpenQty(o) = 0
         THEN order' = [order EXCEPT ![x] = Blank] /\ UNCHANGED <<pc, cur>>
         ELSE /\ order' = [order EXCEPT ![x] = o]
              /\ pc' = "submit"
              /\ cur' = x
      /\ UNCHANGED <<marketPrice, fired>>
  BY DEF ReplaceReprice
<1>2. order[x] \in Order /\ d \in Int
  BY InvBoth, ConstantsAssumption DEF ConstantsAssumption
<1>3. /\ o \in Order /\ o.filled = order[x].filled /\ o.price = p
  BY <1>1, <1>2, ModifiedFacts DEF Modified, Reprice, Order
<1>4. o = [order[x] EXCEPT !.qty = o.qty, !.price = o.price]
  BY <1>2, ModifiedChange
<1> HIDE DEF o
<1>5. CASE OpenQty(o) = 0
  BY <1>1, <1>5, GoneRefines DEF Trees
<1>6. CASE OpenQty(o) # 0
  <2>1. order' = [order EXCEPT ![x] = o] /\ cur' = x /\ fired' = fired
    BY <1>1, <1>6
  <2>2. InFlight = {} /\ InFlight' = {x} /\ Status[x] = "live"
    BY <1>1, <2>1, IdleStatus, InvBoth DEF InFlight, Pending
  <2>3. tree'[x] = "out" /\ \A y \in Ids \ {x} : tree'[y] = tree[y]
    BY <1>1, InvBoth DEF Erase
  <2>4. Status'[x] = "live"
    BY <2>2, <2>3 DEF Status, Parked, InTree
  <2>5. \A y \in Ids \ {x} : Status'[y] = Status[y]
    <3>1. ASSUME NEW y \in Ids \ {x} PROVE Status'[y] = Status[y]
      <4>1. tree'[y] = tree[y] /\ (y \in InFlight' <=> y \in InFlight)
        BY <2>2, <2>3
      <4>2. QED BY <4>1, InvBoth, StatusSame
    <3>2. QED BY <3>1
  <2>6. Status' = Status
    BY <2>2, <2>4, <2>5 DEF Status
  <2>7. o.qty \in Word /\ o.price \in Prices
    BY <1>1, <1>3 DEF Order, Reprice
  <2>8. o.qty > order[x].filled
    <3>1. o.qty \in Nat /\ o.filled \in Nat
      BY <1>3, OrderFields
    <3>2. QED BY <1>3, <1>6, <3>1 DEF OpenQty
  <2>9. order' = [order EXCEPT ![x].qty = o.qty, ![x].price = o.price]
    BY <1>4, <2>1, InvBoth
  <2>10. Promise!Change(x, o.qty, o.price)
    BY <1>1, <2>2, <2>6, <2>8, <2>9 DEF Promise!Change
  <2>11. QED BY <2>7, <2>10
<1>7. QED BY <1>5, <1>6

LEMMA SetMarketPriceRefines ==
  ASSUME IInv, IInv', NEW px \in MarketPrices, SetMarketPrice(px)
  PROVE Promise!Quote(px)
<1>1. marketPrice' = px /\ UNCHANGED <<order, tree, cur, fired>>
  BY DEF SetMarketPrice
<1>2. InFlight' = InFlight
  BY <1>1 DEF InFlight, Pending
<1>3. \A y \in Ids : Status'[y] = Status[y]
  BY <1>1, <1>2, InvBoth, StatusSame
<1>4. Status' = Status
  BY <1>3 DEF Status
<1>5. QED BY <1>1, <1>4 DEF Promise!Quote

\* A trade, told from the buyer's and the seller's side.
LEMMA TradeWitness ==
  ASSUME order \in [Ids -> Order], order' \in [Ids -> Order],
         NEW b \in Ids, NEW s \in Ids, order[b].buy, ~order[s].buy,
         NEW q \in Nat, NEW p,
         order[b].filled + q <= order[b].qty,
         order[s].filled + q <= order[s].qty,
         Status[b] = "live", Status[s] = "live",
         p = order[b].price \/ p = order[s].price,
         Promise!Accepts(order[b], p), Promise!Accepts(order[s], p),
         NEW gone \in SUBSET {b, s},
         \A x \in gone : /\ order[x].filled + q = order[x].qty
                         /\ order'[x] = Blank,
         \A x \in {b, s} \ gone : order'[x] = Filled(order[x], q),
         \A x \in Ids \ {b, s} : order'[x] = order[x],
         Status' = [x \in Ids |-> IF x \in gone THEN "out" ELSE Status[x]],
         marketPrice' = p
  PROVE Promise!Trade(b, s, q, p)
<1> DEFINE after == [order EXCEPT ![b].filled = @ + q, ![s].filled = @ + q]
<1>1. b # s
  OBVIOUS
<1>2. /\ after[b] = Filled(order[b], q)
      /\ after[s] = Filled(order[s], q)
      /\ \A x \in Ids \ {b, s} : after[x] = order[x]
  BY <1>1 DEF Filled
<1>3. /\ after[b].filled = order[b].filled + q
      /\ after[s].filled = order[s].filled + q
  <2>1. order[b] \in Order /\ order[s] \in Order
    OBVIOUS
  <2>2. QED BY <1>2, <2>1 DEF Filled, Order
<1> HIDE DEF after
<1>4. gone \in SUBSET {x \in {b, s} : after[x].filled = order[x].qty}
  BY <1>3
<1>5. order' = [x \in Ids |-> IF x \in gone THEN Blank ELSE after[x]]
  <2>1. ASSUME NEW x \in Ids
        PROVE order'[x] = IF x \in gone THEN Blank ELSE after[x]
    BY <1>2
  <2>2. QED BY <2>1
<1>6. after[b].filled <= order[b].qty /\ after[s].filled <= order[s].qty
  BY <1>3
<1>7. QED
  BY <1>4, <1>5, <1>6 DEF Promise!Trade, Promise!Blank, Blank, after

\* A maker with nothing to trade is met: a trade of nothing, and it is gone.
LEMMA ExpireRefines ==
  ASSUME IInv, IInv', pc \in {"match", "commit"},
         NEW m \in Ids, tree[m] = Opposite, Open(m) = 0, Trade(m, 0),
         UNCHANGED <<cur, fired>>
  PROVE Promise!Expire(m)
<1>1. /\ cur \in Ids /\ order[cur] \in Order /\ tree[cur] = "out"
      /\ Open(cur) \in Nat /\ Opposite \in {"bids", "asks"} /\ TypeOK
      /\ order[m] \in Order
  BY SweepNow, InvBoth
<1>2. /\ m # cur
      /\ \A x \in Ids \ {cur, m} : order'[x] = order[x]
      /\ order'[cur] = Filled(order[cur], 0)
      /\ Removed(m) /\ order'[m] = Blank
  BY <1>1, TradeFacts
<1>3. order'[cur] = order[cur]
  BY <1>1, <1>2, OrderFields DEF Filled, Order
<1>4. order' = [order EXCEPT ![m] = Blank]
  BY <1>2, <1>3, InvBoth
<1>5. order[m].qty <= order[m].filled
  BY <1>1, OrderFields DEF Open, OpenQty
<1>6. cur \in InFlight /\ InFlight' = InFlight
  BY <1>1, InvBoth DEF InFlight, Pending
<1>7. Status[m] = "live"
  BY <1>1, StatusIs
<1>8. Status'[m] = "out"
  <2>1. tree'[m] = "out"
    BY <1>2, InvBoth DEF Removed
  <2>2. m \notin InFlight'
    BY <1>1, <1>6, InvBoth DEF OnePlace
  <2>3. QED BY <2>1, <2>2 DEF Status
<1>9. ASSUME NEW x \in Ids \ {m} PROVE Status'[x] = Status[x]
  <2>1. tree'[x] = tree[x]
    BY <1>2, InvBoth DEF Removed
  <2>2. QED BY <1>6, <2>1, InvBoth, StatusSame
<1>10. Status' = [Status EXCEPT ![m] = "out"]
  BY <1>8, <1>9 DEF Status
<1>11. marketPrice' = order[m].price
  BY DEF Trade
<1>12. QED
  BY <1>4, <1>5, <1>7, <1>10, <1>11 DEF Promise!Expire, Promise!Blank, Blank

\* A trade of the loops, with the incoming order on either side.
LEMMA TradeRefines ==
  ASSUME IInv, IInv', pc \in {"match", "commit"},
         NEW m \in Ids, tree[m] = Opposite, Crosses(m),
         NEW q \in Nat, q > 0, q <= Open(cur), q <= Open(m), Trade(m, q),
         UNCHANGED <<cur, fired>>
  PROVE \E b \in Ids, s \in Ids, r \in Word \ {0}, p \in Prices :
          Promise!Trade(b, s, r, p)
<1>1. /\ cur \in Ids /\ order[cur] \in Order /\ tree[cur] = "out"
      /\ order[cur].filled <= order[cur].qty
      /\ Open(cur) = order[cur].qty - order[cur].filled
      /\ Opposite \in {"bids", "asks"} /\ TypeOK
  BY SweepNow
<1>2. m \in Resting /\ order[m].price # 0 /\ order[m] \in Order
  BY <1>1, InvBoth, InTrees DEF Residents
<1>3. /\ order[m].price \in Prices /\ order[m].filled \in Nat
      /\ order[m].qty \in Nat /\ order[m].qty < WordSize
      /\ order[cur].filled \in Nat /\ order[cur].qty \in Nat
      /\ order[cur].price \in Nat /\ order[m].price \in Nat
  BY <1>1, <1>2, OrderFields
<1>4. Open(m) = order[m].qty - order[m].filled
  BY <1>3 DEF Open, OpenQty
<1>5. q \in Word \ {0}
  BY <1>3, <1>4, ConstantsAssumption DEF Word, ConstantsAssumption
<1>6. /\ order[cur].filled + q <= order[cur].qty
      /\ order[m].filled + q <= order[m].qty
      /\ q = Open(m) <=> order[m].filled + q = order[m].qty
  BY <1>1, <1>3, <1>4
<1>7. /\ m # cur
      /\ \A x \in Ids \ {cur, m} : order'[x] = order[x]
      /\ order'[cur] = Filled(order[cur], q)
      /\ q = Open(m) => Removed(m) /\ order'[m] = Blank
      /\ q # Open(m) => Kept /\ order'[m] = Filled(order[m], q)
  BY <1>1, <1>2, TradeFacts
<1>8. order[m].buy <=> ~order[cur].buy
  BY <1>1 DEF IInv, Sides, Opposite
<1>9. /\ Promise!Accepts(order[cur], order[m].price)
      /\ Promise!Accepts(order[m], order[m].price)
  BY <1>3 DEF Promise!Accepts, Crosses, CrossesAt
<1>10. cur \in InFlight /\ InFlight' = InFlight
  BY <1>1, InvBoth DEF InFlight, Pending
<1>11. Status[cur] = "live" /\ Status[m] = "live"
  BY <1>1, <1>10, StatusIs
<1>12. PICK gone \in SUBSET {m} : m \in gone <=> q = Open(m)
  <2>1. CASE q = Open(m)
    BY <2>1
  <2>2. CASE q # Open(m)
    <3>1. {} \in SUBSET {m} /\ m \notin {}
      OBVIOUS
    <3>2. QED BY <2>2, <3>1
  <2>3. QED BY <2>1, <2>2
<1>13. Status' = [x \in Ids |-> IF x \in gone THEN "out" ELSE Status[x]]
  <2>1. ASSUME NEW x \in Ids, x \in gone PROVE Status'[x] = "out"
    <3>1. x = m /\ q = Open(m)
      BY <1>12, <2>1
    <3>2. tree'[x] = "out"
      BY <1>7, <3>1, InvBoth DEF Removed
    <3>3. x \notin InFlight'
      BY <1>1, <1>10, <3>1, InvBoth DEF OnePlace
    <3>4. QED BY <3>2, <3>3 DEF Status, Parked, Resting, InTree
  <2>2. ASSUME NEW x \in Ids, x \notin gone PROVE Status'[x] = Status[x]
    <3>1. tree'[x] = tree[x]
      BY <1>7, <1>12, <2>2, InvBoth DEF Removed, Kept
    <3>2. QED BY <1>10, <3>1, InvBoth, StatusSame
  <2>3. QED BY <2>1, <2>2 DEF Status
<1>14. marketPrice' = order[m].price
  BY DEF Trade
<1>15. CASE order[cur].buy
  <2>1. /\ gone \in SUBSET {cur, m}
        /\ \A x \in gone : /\ order[x].filled + q = order[x].qty
                           /\ order'[x] = Blank
        /\ \A x \in {cur, m} \ gone : order'[x] = Filled(order[x], q)
        /\ \A x \in Ids \ {cur, m} : order'[x] = order[x]
    BY <1>6, <1>7, <1>12
  <2>2. Promise!Trade(cur, m, q, order[m].price)
    BY <1>1, <1>6, <1>8, <1>9, <1>11, <1>13, <1>14, <1>15, <2>1, InvBoth,
       TradeWitness
  <2>3. QED BY <1>1, <1>3, <1>5, <2>2
<1>16. CASE ~order[cur].buy
  <2>1. /\ gone \in SUBSET {m, cur}
        /\ \A x \in gone : /\ order[x].filled + q = order[x].qty
                           /\ order'[x] = Blank
        /\ \A x \in {m, cur} \ gone : order'[x] = Filled(order[x], q)
        /\ \A x \in Ids \ {m, cur} : order'[x] = order[x]
    BY <1>6, <1>7, <1>12
  <2>2. Promise!Trade(m, cur, q, order[m].price)
    BY <1>1, <1>6, <1>8, <1>9, <1>11, <1>13, <1>14, <1>16, <2>1, InvBoth,
       TradeWitness
  <2>3. QED BY <1>1, <1>3, <1>5, <2>2
<1>17. QED BY <1>15, <1>16

LEMMA MatchTradeRefines ==
  ASSUME IInv, IInv', MatchTrade
  PROVE \/ \E b \in Ids, s \in Ids, r \in Word \ {0}, p \in Prices :
             Promise!Trade(b, s, r, p)
        \/ \E x \in Ids : Promise!Expire(x)
<1>1. /\ pc = "match" /\ it # None /\ Open(cur) > 0 /\ Crosses(it)
      /\ Trade(it, Smaller(Open(cur), Open(it)))
      /\ UNCHANGED <<cur, fired>>
  BY DEF MatchTrade, Matching
<1>2. /\ it \in Ids /\ tree[it] = Opposite /\ Open(cur) \in Nat
      /\ Opposite \in {"bids", "asks"}
  BY <1>1, SweepNow DEF IInv, Control, TypeOK
<1>3. Open(it) \in Nat
  BY <1>2, InvBoth, OpenType
<1>4. PICK q \in Nat : q = Smaller(Open(cur), Open(it))
  BY <1>2, <1>3 DEF Smaller
<1>5. q <= Open(cur) /\ q <= Open(it) /\ (q = 0 => Open(it) = 0)
  BY <1>1, <1>2, <1>3, <1>4 DEF Smaller
<1>6. CASE q = 0
  BY <1>1, <1>2, <1>4, <1>5, <1>6, ExpireRefines
<1>7. CASE q > 0
  BY <1>1, <1>2, <1>4, <1>5, <1>7, TradeRefines
<1>8. QED BY <1>6, <1>7

LEMMA CommitRefines ==
  ASSUME IInv, IInv', Commit
  PROVE \/ \E b \in Ids, s \in Ids, r \in Word \ {0}, p \in Prices :
             Promise!Trade(b, s, r, p)
        \/ \E x \in Ids : Promise!Expire(x)
<1>1. /\ pc = "commit" /\ plan # <<>> /\ UNCHANGED <<cur, fired>>
      /\ plan \in Seq([id : Ids, qty : Nat])
  BY InvBoth DEF Commit, TypeOK
<1>2. Head(plan) = plan[1]
  BY <1>1
<1>3. Trade(plan[1].id, plan[1].qty)
  BY <1>1, <1>2, FirstPlanned DEF Commit
<1>4. CASE plan[1].qty = 0
  BY <1>1, <1>3, <1>4, FirstPlanned, ExpireRefines
<1>5. CASE plan[1].qty # 0
  <2>1. plan[1].qty > 0
    BY <1>1, <1>5, FirstPlanned
  <2>2. QED BY <1>1, <1>3, <2>1, FirstPlanned, TradeRefines
<1>6. QED BY <1>4, <1>5

LEMMA CallRefines ==
  ASSUME IInv, IInv', Call
  PROVE Promise!Next \/ UNCHANGED Promise!vars
<1>1. ASSUME NEW o \in NewOrders, AddReject(o) PROVE UNCHANGED Promise!vars
  <2>1. UNCHANGED <<order, tree, marketPrice, cur, fired>>
    BY <1>1 DEF AddReject, book, loop
  <2>2. QED BY <2>1, LookRefines
<1>2. ASSUME NEW x \in Ids, NEW o \in NewOrders, AddPark(x, o)
      PROVE Promise!Next
  BY <1>2, AddParkRefines DEF Promise!Next
<1>3. ASSUME NEW x \in Ids, NEW o \in NewOrders, AddSubmit(x, o)
      PROVE Promise!Next
  BY <1>3, AddSubmitRefines DEF Promise!Next
<1>4. ASSUME NEW x \in Ids, Cancel(x) PROVE Promise!Next
  <2>1. Promise!Leave(x)
    BY <1>4, GoneRefines DEF Cancel, loop
  <2>2. QED BY <2>1 DEF Promise!Next
<1>5. ASSUME NEW x \in Ids, CancelReject(x) \/ ReplaceReject(x)
      PROVE UNCHANGED Promise!vars
  <2>1. UNCHANGED <<order, tree, marketPrice, cur, fired>>
    BY <1>5 DEF CancelReject, ReplaceReject, book, loop
  <2>2. QED BY <2>1, LookRefines
<1>6. ASSUME NEW x \in Ids, NEW d \in Deltas, NEW p \in Prices \cup {0},
             ReplaceCollapse(x, d, p)
      PROVE Promise!Next
  <2>1. Promise!Leave(x)
    BY <1>6, GoneRefines DEF ReplaceCollapse, loop, Trees
  <2>2. QED BY <2>1 DEF Promise!Next
<1>7. ASSUME NEW x \in Ids, NEW d \in Deltas, NEW p \in Prices \cup {0},
             ReplaceInPlace(x, d, p)
      PROVE Promise!Next
  BY <1>7, ReplaceInPlaceRefines DEF Promise!Next
<1>8. ASSUME NEW x \in Ids, NEW d \in Deltas, NEW p \in Prices \cup {0},
             ReplaceReprice(x, d, p)
      PROVE Promise!Next
  BY <1>8, ReplaceRepriceRefines DEF Promise!Next
<1>9. ASSUME NEW px \in MarketPrices, SetMarketPrice(px) PROVE Promise!Next
  BY <1>9, SetMarketPriceRefines DEF Promise!Next
<1>10. QED
  BY <1>1, <1>2, <1>3, <1>4, <1>5, <1>6, <1>7, <1>8, <1>9 DEF Call

LEMMA StepRefines ==
  ASSUME IInv, IInv', Step
  PROVE Promise!Next \/ UNCHANGED Promise!vars
<1>1. CASE Submit \/ MatchEnd \/ MatchSkip \/ PlanVisit \/ PlanEnd
           \/ CommitEnd \/ BidsScanned
  <2>1. UNCHANGED <<order, tree, marketPrice, cur, fired>>
    BY <1>1 DEF Submit, MatchEnd, MatchSkip, PlanVisit, PlanEnd, CommitEnd,
                BidsScanned, book
  <2>2. QED BY <2>1, LookRefines
<1>2. CASE MatchTrade
  BY <1>2, MatchTradeRefines DEF Promise!Next
<1>3. CASE Commit
  BY <1>3, CommitRefines DEF Promise!Next
<1>4. CASE Rest
  BY <1>4, RestRefines
<1>5. CASE Discard
  <2>1. cur \in Ids
    BY <1>5, SweepNow DEF Discard
  <2>2. QED BY <1>5, <2>1, DiscardRefines DEF Promise!Next
<1>6. ASSUME NEW x \in Ids, FireBid(x) \/ FireAsk(x) PROVE Promise!Next
  <2>1. Promise!Trigger(x)
    BY <1>6, FireBidRefines, FireAskRefines
  <2>2. QED BY <2>1 DEF Promise!Next
<1>7. CASE AsksScanned
  BY <1>7, AsksScannedRefines
<1>8. QED BY <1>1, <1>2, <1>3, <1>4, <1>5, <1>6, <1>7 DEF Step

\* The book implements the exchange: for every caller and every interleaving
\* of calls with fired stops, each step of its loops is one trade, one
\* trigger, one change or one departure, or nothing to any order.  Increases
\* may overrun their order: what becomes of it is part of the exchange.
THEOREM BookImplementsExchange == Spec => ImplementsExchange
<1>1. IInv /\ IInv' /\ [Next]_vars => [Promise!Next]_(Promise!vars)
  <2>1. SUFFICES ASSUME IInv, IInv', [Next]_vars
                 PROVE Promise!Next \/ UNCHANGED Promise!vars
    OBVIOUS
  <2>2. CASE Call BY <2>1, <2>2, CallRefines
  <2>3. CASE Step BY <2>1, <2>3, StepRefines
  <2>4. CASE UNCHANGED vars
    <3>1. UNCHANGED <<order, tree, marketPrice, cur, fired>>
      BY <2>4 DEF vars, book, loop
    <3>2. QED BY <2>1, <3>1, LookRefines
  <2>5. QED BY <2>1, <2>2, <2>3, <2>4 DEF Next
<1>2. QED
  BY Inductive, InitRefines, <1>1, PTL
  DEF Spec, ImplementsExchange, Promise!Spec

-----------------------------------------------------------------------------
(* The aggregates a price level carries are at every moment the sums over  *)
(* the orders in it.  The sum is a recursive function; what it returns is  *)
(* proved here from its definition, by the least counterexample.           *)

\* A nonempty set of naturals has a least element.
LEMMA Least ==
  ASSUME NEW T \in SUBSET Nat, T # {}
  PROVE  \E n \in T : \A m \in T : n <= m
<1>1. IsWellFoundedOn(OpToRel(<, Nat), Nat)
  BY NatLessThanWellFounded
<1>2. PICK n \in T : \A m \in T : ~ (<<m, n>> \in OpToRel(<, Nat))
  BY <1>1, WFMin
<1>3. \A m \in T : ~ (m < n)
  BY <1>2 DEF OpToRel
<1>4. QED BY <1>3

\* The order whose quantity Total adds next, of those it has yet to count.
Counted(ids) == CHOOSE id \in ids : TRUE

LEMMA CountedIn == ASSUME NEW ids, ids # {} PROVE Counted(ids) \in ids
  BY DEF Counted

\* The equation that Total(w) is chosen to satisfy.
IsTotal(s, w) ==
  s = [S \in SUBSET DOMAIN w |->
         IF S = {} THEN 0 ELSE w[Counted(S)] + s[S \ {Counted(S)}]]

\* There is a function that satisfies it: one that does for the subsets of at
\* most n elements can be extended to those of n + 1.
LEMMA TotalExists ==
  ASSUME NEW D, IsFiniteSet(D), NEW w \in [D -> Int]
  PROVE  \E s : s \in [SUBSET D -> Int] /\ IsTotal(s, w)
<1> DEFINE Small(n) == {ids \in SUBSET D : n >= Cardinality(ids)}
           Works(n, s) == \A S \in Small(n) :
              s[S] = IF S = {} THEN 0 ELSE w[Counted(S)] + s[S \ {Counted(S)}]
           Bad == {n \in Nat : ~ \E s \in [SUBSET D -> Int] : Works(n, s)}
<1>1. \A S \in SUBSET D : IsFiniteSet(S) /\ Cardinality(S) \in Nat /\ Cardinality(S) <= Cardinality(D)
  BY FS_Subset, FS_CardinalityType
<1>2. \A S \in SUBSET D : S # {} => S \ {Counted(S)} \in SUBSET D /\ Cardinality(S \ {Counted(S)}) = Cardinality(S) - 1 /\ Counted(S) \in D
  BY <1>1, FS_RemoveElement, CountedIn
<1>3. Bad = {}
  <2> SUFFICES ASSUME Bad # {} PROVE FALSE
    OBVIOUS
  <2>1. PICK n \in Bad : \A m \in Bad : n <= m
    BY Least
  <2>2. CASE n = 0
    <3> DEFINE s == [S \in SUBSET D |-> 0]
    <3>1. \A S \in Small(0) : S = {}
      BY <1>1, FS_EmptySet
    <3>2. Works(0, s)
      BY <3>1
    <3>3. s \in [SUBSET D -> Int]
      OBVIOUS
    <3> QED BY <3>2, <3>3, <2>2
  <2>3. CASE n # 0
    <3>0. n \in Nat
      BY <2>1
    <3>1. n - 1 \in Nat /\ n - 1 \notin Bad
      <4>1. n - 1 \in Nat /\ ~ (n <= n - 1)
        BY <3>0, <2>3
      <4> QED BY <4>1, <2>1
    <3>2. PICK s \in [SUBSET D -> Int] : Works(n - 1, s)
      BY <3>1
    <3> DEFINE t == [S \in SUBSET D |-> IF S \in Small(n - 1) THEN s[S]
                         ELSE IF S = {} THEN 0 ELSE w[Counted(S)] + s[S \ {Counted(S)}]]
    <3>3. t \in [SUBSET D -> Int]
      BY <1>2, <3>2
    <3>4. ASSUME NEW S \in Small(n), S # {}
          PROVE  S \ {Counted(S)} \in Small(n - 1)
      BY <3>4, <1>1, <1>2, <3>1
    <3>5. Works(n, t)
      <4> SUFFICES ASSUME NEW S \in Small(n)
                   PROVE  t[S] = IF S = {} THEN 0 ELSE w[Counted(S)] + t[S \ {Counted(S)}]
        OBVIOUS
      <4>0. CASE S = {}
        <5>1. S \in Small(n - 1)
          BY <4>0, FS_EmptySet, <3>1
        <5> QED BY <5>1, <4>0, <3>2
      <4>1. CASE S # {}
        <5>1. S \ {Counted(S)} \in Small(n - 1)
          BY <3>4, <4>1
        <5>2. t[S \ {Counted(S)}] = s[S \ {Counted(S)}]
          BY <5>1
        <5>3. t[S] = w[Counted(S)] + s[S \ {Counted(S)}]
          BY <4>1, <3>2
        <5> QED BY <5>2, <5>3, <4>1
      <4> QED BY <4>0, <4>1
    <3> QED BY <3>3, <3>5, <2>1
  <2> QED BY <2>2, <2>3
<1>4. PICK s \in [SUBSET D -> Int] : Works(Cardinality(D), s)
  BY <1>3, <1>1
<1>5. \A S \in SUBSET D : S \in Small(Cardinality(D))
  BY <1>1
<1>6. IsTotal(s, w)
  BY <1>4, <1>5 DEF IsTotal
<1> QED BY <1>6

LEMMA TotalIs ==
  ASSUME NEW D, IsFiniteSet(D), NEW w \in [D -> Int]
  PROVE  IsTotal(Total(w), w)
<1>1. \E s : IsTotal(s, w)
  BY TotalExists
<1>2. Total(w) = CHOOSE s : IsTotal(s, w)
  BY DEF Total, IsTotal, Counted
<1> QED BY <1>1, <1>2

\* The least counterexample, by size, among the subsets of a finite set.
LEMMA SmallestSubset ==
  ASSUME NEW D, IsFiniteSet(D), NEW B \in SUBSET SUBSET D, B # {}
  PROVE  \E S \in B : \A T \in B : Cardinality(S) <= Cardinality(T)
<1> DEFINE Sizes == {Cardinality(S) : S \in B}
<1>1. \A S \in B : Cardinality(S) \in Nat
  BY FS_Subset, FS_CardinalityType
<1>2. Sizes \in SUBSET Nat /\ Sizes # {}
  BY <1>1
<1>3. \E n \in Sizes : \A m \in Sizes : n <= m
  BY <1>2, Least
<1> QED BY <1>3

\* What the recursive function returns, one element at a time.
Unfolds(s, D, w) ==
  \A S \in SUBSET D : S # {} => s[S] = w[Counted(S)] + s[S \ {Counted(S)}]

LEMMA TotalType ==
  ASSUME NEW D, IsFiniteSet(D), NEW w \in [D -> Int]
  PROVE  /\ Total(w) \in [SUBSET D -> Int]
         /\ Total(w)[{}] = 0
         /\ Unfolds(Total(w), D, w)
<1> DEFINE s == Total(w)
<1>1. s = [S \in SUBSET D |->
         IF S = {} THEN 0 ELSE w[Counted(S)] + s[S \ {Counted(S)}]]
  BY TotalIs DEF IsTotal
<1>1a. DOMAIN s = SUBSET D
  BY <1>1
<1> HIDE DEF s
<1>2. s[{}] = 0
  BY <1>1
<1>3. \A S \in SUBSET D : S # {} => s[S] = w[Counted(S)] + s[S \ {Counted(S)}]
  BY <1>1
<1> DEFINE Bad == {S \in SUBSET D : s[S] \notin Int}
<1>4. Bad = {}
  <2> SUFFICES ASSUME Bad # {} PROVE FALSE
    OBVIOUS
  <2>1. PICK S \in Bad : \A T \in Bad : Cardinality(S) <= Cardinality(T)
    <3>1. Bad \in SUBSET SUBSET D
      OBVIOUS
    <3> QED BY <3>1, SmallestSubset
  <2>2. S # {}
    BY <1>2
  <2>3. Counted(S) \in S
    BY <2>2, CountedIn
  <2>4. IsFiniteSet(S)
    BY FS_Subset
  <2>5. Cardinality(S \ {Counted(S)}) = Cardinality(S) - 1 /\ Cardinality(S) \in Nat
    BY <2>3, <2>4, FS_RemoveElement, FS_CardinalityType
  <2>6. S \ {Counted(S)} \notin Bad
    BY <2>1, <2>5
  <2>7. s[S \ {Counted(S)}] \in Int /\ w[Counted(S)] \in Int
    BY <2>6, <2>3
  <2>8. s[S] = w[Counted(S)] + s[S \ {Counted(S)}]
    BY <2>2, <1>3
  <2>9. s[S] \in Int
    BY <2>7, <2>8
  <2> QED BY <2>9
<1>5. s \in [SUBSET D -> Int]
  BY <1>1, <1>1a, <1>4
<1>6. Unfolds(s, D, w)
  BY <1>3 DEF Unfolds
<1> QED BY <1>2, <1>6, <1>5 DEF s

\* A total does not depend on the order the elements are taken in.
LEMMA TotalRemove ==
  ASSUME NEW D, IsFiniteSet(D), NEW w \in [D -> Int]
  PROVE  \A S \in SUBSET D : \A x \in S :
           Total(w)[S] = w[x] + Total(w)[S \ {x}]
<1> DEFINE s == Total(w)
<1>0. s \in [SUBSET D -> Int] /\ Unfolds(s, D, w)
  BY TotalType
<1>1. /\ s \in [SUBSET D -> Int]
      /\ \A S \in SUBSET D : S # {} => s[S] = w[Counted(S)] + s[S \ {Counted(S)}]
  BY <1>0 DEF Unfolds
<1> HIDE DEF s
<1> DEFINE Good(S) == \A x \in S : s[S] = w[x] + s[S \ {x}]
           Bad == {S \in SUBSET D : ~Good(S)}
<1>2. Bad = {}
  <2> SUFFICES ASSUME Bad # {} PROVE FALSE
    OBVIOUS
  <2>1. PICK S \in Bad : \A T \in Bad : Cardinality(S) <= Cardinality(T)
    <3>1. Bad \in SUBSET SUBSET D
      OBVIOUS
    <3> QED BY <3>1, SmallestSubset
  <2>2. PICK x \in S : s[S] # w[x] + s[S \ {x}]
    OBVIOUS
  <2> DEFINE y == Counted(S)
  <2>3. y \in S
    BY CountedIn
  <2>4. s[S] = w[y] + s[S \ {y}]
    BY <1>1, <2>3
  <2>5. y # x
    BY <2>4, <2>2
  <2> HIDE DEF y
  <2>6. /\ IsFiniteSet(S) /\ Cardinality(S) \in Nat
        /\ Cardinality(S \ {x}) = Cardinality(S) - 1
        /\ Cardinality(S \ {y}) = Cardinality(S) - 1
    BY <2>3, FS_Subset, FS_RemoveElement, FS_CardinalityType
  <2>7. S \ {x} \notin Bad /\ S \ {y} \notin Bad
    BY <2>6, <2>1
  <2>8. Good(S \ {x}) /\ Good(S \ {y})
    BY <2>7
  <2>9. /\ s[S \ {y}] = w[x] + s[(S \ {y}) \ {x}]
        /\ s[S \ {x}] = w[y] + s[(S \ {x}) \ {y}]
    BY <2>8, <2>5, <2>2, <2>3
  <2>10. (S \ {y}) \ {x} = (S \ {x}) \ {y}
    OBVIOUS
  <2>11. /\ s[(S \ {x}) \ {y}] \in Int /\ w[x] \in Int /\ w[y] \in Int
    BY <1>1, <2>3
  <2>12. s[S] = w[y] + (w[x] + s[(S \ {x}) \ {y}])
    BY <2>4, <2>9, <2>10
  <2>13. w[x] + s[S \ {x}] = w[x] + (w[y] + s[(S \ {x}) \ {y}])
    BY <2>9
  <2> QED BY <2>2, <2>11, <2>12, <2>13
<1> QED BY <1>2 DEF s

\* It depends on the weights of its elements only.
LEMMA TotalSame ==
  ASSUME NEW D, IsFiniteSet(D), NEW v \in [D -> Int], NEW w \in [D -> Int],
         NEW S \in SUBSET D, \A x \in S : v[x] = w[x]
  PROVE  Total(v)[S] = Total(w)[S]
<1> DEFINE Bad == {T \in SUBSET S : Total(v)[T] # Total(w)[T]}
<1>2. Bad = {}
  <2> SUFFICES ASSUME Bad # {} PROVE FALSE
    OBVIOUS
  <2>1. PICK T \in Bad : \A U \in Bad : Cardinality(T) <= Cardinality(U)
    <3>1. Bad \in SUBSET SUBSET D
      OBVIOUS
    <3> QED BY <3>1, SmallestSubset
  <2>2. T # {}
    BY TotalType
  <2>3. PICK x \in T : TRUE
    BY <2>2
  <2>4. IsFiniteSet(T)
    BY FS_Subset
  <2>5. Cardinality(T \ {x}) = Cardinality(T) - 1 /\ Cardinality(T) \in Nat
    BY <2>4, FS_RemoveElement, FS_CardinalityType
  <2>6. T \ {x} \notin Bad
    BY <2>5, <2>1
  <2>7. Total(v)[T \ {x}] = Total(w)[T \ {x}]
    BY <2>6
  <2>8. /\ Total(v)[T] = v[x] + Total(v)[T \ {x}]
        /\ Total(w)[T] = w[x] + Total(w)[T \ {x}]
    <3>1. T \in SUBSET D
      OBVIOUS
    <3> QED BY <3>1, TotalRemove
  <2> QED BY <2>7, <2>8
<1> QED BY <1>2

-----------------------------------------------------------------------------
(* Arithmetic modulo the word size.                                        *)

LEMMA DivMod ==
  ASSUME NEW W \in Nat, W > 0, NEW a \in Int
  PROVE  /\ a = W * (a \div W) + (a % W)
         /\ a % W \in 0 .. W - 1
BY SMT

LEMMA SameRemainder ==
  ASSUME NEW W \in Nat, W > 0, NEW r \in 0 .. W - 1, NEW s \in 0 .. W - 1,
         NEW p \in Int, NEW q \in Int, W * p + r = W * q + s
  PROVE  r = s
<1>1. W * (p - q) = s - r
  BY SMT
<1>2. p - q \in Int /\ s - r \in Int /\ s - r < W /\ s - r > -W
  OBVIOUS
<1>3. ASSUME NEW d \in Int, d >= 1 PROVE W * d >= W
  <2>1. ASSUME NEW e \in Nat PROVE W * e >= 0
    BY SMT
  <2>2. W * (d - 1) >= 0
    BY <1>3, <2>1
  <2>3. W * (d - 1) = W * d - W
    BY SMT
  <2> QED BY <2>2, <2>3
<1>4. ASSUME NEW d \in Int, d <= -1 PROVE W * d <= -W
  <2>1. W * (-d) >= W
    BY <1>3, <1>4
  <2>2. W * (-d) = -(W * d)
    BY SMT
  <2> QED BY <2>1, <2>2
<1>5. p - q = 0
  BY <1>1, <1>2, <1>3, <1>4
<1> QED BY <1>5, <1>1
\* Adding to a remainder is adding to the number it remains of.
LEMMA ModAbsorbs ==
  ASSUME NEW W \in Nat, W > 0, NEW a \in Int, NEW q \in Int
  PROVE  ((a % W) + q) % W = (a + q) % W
<1> DEFINE b == (a % W) + q
<1>1. a % W \in 0 .. W-1 /\ a \div W \in Int /\ a = W * (a \div W) + (a % W)
  BY DivMod
<1>2. b \in Int /\ b % W \in 0..W-1 /\ b \div W \in Int /\ b = W * (b \div W) + (b % W)
  BY DivMod, <1>1
<1>3. a + q \in Int /\ (a+q) % W \in 0..W-1 /\ (a+q) \div W \in Int /\ a+q = W * ((a+q) \div W) + ((a+q) % W)
  BY DivMod
<1>4. a + q = W * (a \div W + b \div W) + (b % W)
  BY <1>1, <1>2
<1>5. a \div W + b \div W \in Int
  BY <1>1, <1>2
<1> QED BY <1>2, <1>3, <1>4, <1>5, SameRemainder

-----------------------------------------------------------------------------
(* How the sums of a level follow one change in the trees.                 *)

Weights == [x \in Ids |-> Open(x)]

\* Whatever else a step does, the trees change for x alone.
OnlyFor(x) ==
  \A y \in Ids \ {x} : /\ tree'[y] = tree[y]
                       /\ tree[y] \in Trees => order'[y] = order[y]

LEMMA AtLevelIs ==
  ASSUME NEW x, NEW t, NEW k
  PROVE  x \in AtLevel(t, k) <=> x \in Ids /\ tree[x] = t /\ Key(x) = k
BY DEF AtLevel, InTree

LEMMA WeightsType ==
  ASSUME NEW o \in [Ids -> Order]
  PROVE  [x \in Ids |-> OpenQty(o[x])] \in [Ids -> Int]
<1>1. ASSUME NEW x \in Ids PROVE OpenQty(o[x]) \in Int
  BY OrderFields, OpenFacts
<1> QED BY <1>1

\* The other orders of a level count for as much as before.
LEMMA OthersSame ==
  ASSUME TypeOK, TypeOK', NEW x \in Ids, OnlyFor(x), NEW t \in Trees, NEW k
  PROVE  /\ AtLevel(t, k)' \ {x} = AtLevel(t, k) \ {x}
         /\ Total(Weights')[AtLevel(t, k)' \ {x}]
              = Total(Weights)[AtLevel(t, k) \ {x}]
<1> DEFINE S == AtLevel(t, k) \ {x}
<1>1. \A y \in Ids \ {x} : y \in AtLevel(t, k)' <=> y \in AtLevel(t, k)
  BY DEF AtLevel, InTree, OnlyFor, Key
<1>2. AtLevel(t, k)' \ {x} = S
  BY <1>1 DEF AtLevel, InTree
<1>3. \A y \in S : order'[y] = order[y]
  BY DEF OnlyFor, AtLevel, InTree
<1>4. \A y \in S : Weights'[y] = Weights[y]
  BY <1>3 DEF Weights, Open, AtLevel, InTree
<1>5. Weights \in [Ids -> Int] /\ Weights' \in [Ids -> Int]
  <2>1. order \in [Ids -> Order] /\ order' \in [Ids -> Order]
    BY DEF TypeOK
  <2> QED BY <2>1, WeightsType DEF Weights, Open
<1>6. S \in SUBSET Ids
  BY DEF AtLevel, InTree
<1> HIDE DEF S
<1>7. Total(Weights')[S] = Total(Weights)[S]
  BY <1>4, <1>5, <1>6, IdsAssumption, TotalSame
<1> QED BY <1>2, <1>7 DEF S

\* A level's sum and count, split into one order's part and the rest.
LEMMA SumSplit ==
  ASSUME NEW w \in [Ids -> Int], NEW S \in SUBSET Ids, NEW x \in Ids
  PROVE  /\ Total(w)[S \ {x}] \in Int
         /\ Cardinality(S \ {x}) \in Nat
         /\ Total(w)[S] = Total(w)[S \ {x}] + IF x \in S THEN w[x] ELSE 0
         /\ Cardinality(S) = Cardinality(S \ {x}) + IF x \in S THEN 1 ELSE 0
<1>1. IsFiniteSet(S)
  BY IdsAssumption, FS_Subset
<1>2. Total(w)[S \ {x}] \in Int /\ Total(w)[S] \in Int
  <2>1. Total(w) \in [SUBSET Ids -> Int]
    BY IdsAssumption, TotalType
  <2> QED BY <2>1
<1>3. x \in S => Total(w)[S] = w[x] + Total(w)[S \ {x}]
  BY IdsAssumption, TotalRemove, SMTT(20)
<1>4. x \notin S => S \ {x} = S
  OBVIOUS
<1>5. Total(w)[S] = Total(w)[S \ {x}] + IF x \in S THEN w[x] ELSE 0
  <2>1. w[x] \in Int
    OBVIOUS
  <2>2. CASE x \in S
    BY <1>2, <1>3, <2>1, <2>2
  <2>3. CASE x \notin S
    BY <1>2, <1>4, <2>3
  <2> QED BY <2>2, <2>3
<1>6. /\ Cardinality(S) \in Nat
      /\ Cardinality(S \ {x}) = IF x \in S THEN Cardinality(S) - 1
                                ELSE Cardinality(S)
      /\ Cardinality(S \ {x}) \in Nat
  BY <1>1, FS_RemoveElement, FS_CardinalityType
<1>7. Cardinality(S) = Cardinality(S \ {x}) + IF x \in S THEN 1 ELSE 0
  BY <1>6
<1> QED BY <1>2, <1>5, <1>6, <1>7

LEMMA LevelsNow ==
  LevelAggregates <=>
    \A t \in Trees, k \in Prices :
       level[t][k] = [qty |-> Total(Weights)[AtLevel(t, k)] % WordSize,
                      count |-> Cardinality(AtLevel(t, k))]
BY DEF LevelAggregates, Weights

LEMMA LevelsNext ==
  LevelAggregates' <=>
    \A t \in Trees, k \in Prices :
       level'[t][k] = [qty |-> Total(Weights')[AtLevel(t, k)'] % WordSize,
                       count |-> Cardinality(AtLevel(t, k)')]
BY DEF LevelAggregates, Weights

\* What x counts for in the trees: nothing when it is in none.
Part(x) == IF tree[x] \in Trees THEN Open(x) ELSE 0
Place(x) == IF tree[x] \in Trees THEN 1 ELSE 0

LEMMA LevelPlusAt ==
  ASSUME level \in Levels, NEW t \in Trees, NEW k \in Prices,
         NEW q \in Int, NEW n \in Int
  PROVE  LevelPlus(t, k, q, n)[t][k] =
           [qty |-> (level[t][k].qty + q) % WordSize,
            count |-> level[t][k].count + n]
<1> DEFINE m == (level[t][k].qty + q) % WordSize
           a == [level EXCEPT ![t][k].qty = m]
<1>1. level[t][k] \in [qty : Word, count : Int]
  BY DEF Levels
<1>2. LevelPlus(t, k, q, n) = [a EXCEPT ![t][k].count = @ + n]
  BY DEF LevelPlus
<1> HIDE DEF m
<1>3. DOMAIN a = Trees /\ DOMAIN a[t] = Prices
  BY DEF Levels
<1>4. a[t][k] = [qty |-> m, count |-> level[t][k].count]
  BY <1>1 DEF Levels
<1> HIDE DEF a
<1>5. LevelPlus(t, k, q, n)[t][k] = [a[t][k] EXCEPT !.count = @ + n]
  BY <1>2, <1>3
<1> QED BY <1>4, <1>5 DEF m

LEMMA LevelPlusElsewhere ==
  ASSUME level \in Levels, NEW t0, NEW k0, NEW q, NEW n,
         NEW t \in Trees, NEW k \in Prices, ~(t = t0 /\ k = k0)
  PROVE  LevelPlus(t0, k0, q, n)[t][k] = level[t][k]
<1> DEFINE m == (level[t0][k0].qty + q) % WordSize
           a == [level EXCEPT ![t0][k0].qty = m]
<1>2. LevelPlus(t0, k0, q, n) = [a EXCEPT ![t0][k0].count = @ + n]
  BY DEF LevelPlus
<1> HIDE DEF m
<1>3. DOMAIN a = Trees /\ DOMAIN a[t] = Prices /\ a[t][k] = level[t][k]
  BY DEF Levels
<1> HIDE DEF a
<1> QED BY <1>2, <1>3

-----------------------------------------------------------------------------
(* The aggregates of a level follow its orders, step by step.              *)

\* The aggregates of a level change by what its orders gain and lose.
Follows(t, k) ==
  /\ level'[t][k].qty =
       (level[t][k].qty + Total(Weights')[AtLevel(t, k)']
                        - Total(Weights)[AtLevel(t, k)]) % WordSize
  /\ level'[t][k].count - level[t][k].count =
       Cardinality(AtLevel(t, k)') - Cardinality(AtLevel(t, k))

\* Or one of them is overrun, or was and is increased.
Overrun(t, k) ==
  \E x \in AtLevel(t, k), d \in Deltas, p \in Prices \cup {0} :
    ReplaceInPlace(x, d, p) /\ (x \in Starved \/ Overruns(x, d))

LevelStep == \A t \in Trees, k \in Prices : Follows(t, k) \/ Overrun(t, k)

\* Adding q and adding r are the same in a word.
SameInWord(q, r) == \A a \in Int : (a + q) % WordSize = (a + r) % WordSize

LEMMA LevelFields ==
  ASSUME TypeOK, NEW t \in Trees, NEW k \in Prices
  PROVE  /\ level \in Levels
         /\ level[t][k].qty \in Word /\ level[t][k].qty \in Int
         /\ level[t][k].count \in Int
<1>1. level \in Levels
  BY DEF TypeOK, Levels
<1>2. level[t][k] \in [qty : Word, count : Int]
  BY <1>1 DEF Levels
<1>3. level[t][k].qty \in Word /\ level[t][k].count \in Int
  BY <1>2
<1>4. \A n \in Word : n \in Int
  BY WordFacts
<1> QED BY <1>1, <1>3, <1>4

\* A level's sum and count are numbers.
LEMMA SumType ==
  ASSUME TypeOK, NEW t, NEW k
  PROVE  /\ Weights \in [Ids -> Int] /\ AtLevel(t, k) \in SUBSET Ids
         /\ Total(Weights)[AtLevel(t, k)] \in Int
         /\ Cardinality(AtLevel(t, k)) \in Nat
<1>1. Weights \in [Ids -> Int]
  <2>1. order \in [Ids -> Order]
    BY DEF TypeOK
  <2> QED BY <2>1, WeightsType DEF Weights, Open
<1>2. AtLevel(t, k) \in SUBSET Ids
  BY DEF AtLevel, InTree
<1>3. Total(Weights) \in [SUBSET Ids -> Int]
  BY <1>1, IdsAssumption, TotalType
<1>4. IsFiniteSet(AtLevel(t, k))
  BY <1>2, IdsAssumption, FS_Subset
<1> QED BY <1>1, <1>2, <1>3, <1>4, FS_CardinalityType

\* The aggregates of one level follow the part x has in it.
LEMMA LevelFollows ==
  ASSUME TypeOK, TypeOK', NEW x \in Ids, OnlyFor(x),
         NEW t0 \in Trees, NEW k0 \in Prices, NEW q \in Int, NEW n \in Int,
         level' = LevelPlus(t0, k0, q, n),
         tree[x] \in Trees => tree[x] = t0 /\ Key(x) = k0,
         tree'[x] \in Trees => tree'[x] = t0 /\ Key(x)' = k0,
         NEW t \in Trees, NEW k \in Prices,
         t = t0 /\ k = k0 => /\ SameInWord(q, Part(x)' - Part(x))
                             /\ n = Place(x)' - Place(x)
  PROVE  Follows(t, k)
<1> DEFINE S == AtLevel(t, k)
           T == AtLevel(t, k)'
           a == Total(Weights)[S]
           b == Total(Weights')[T]
           base == Total(Weights)[S \ {x}]
<1>1. /\ Weights \in [Ids -> Int] /\ Weights' \in [Ids -> Int]
      /\ Weights[x] = Open(x) /\ Weights'[x] = Open(x)'
  <2>1. order \in [Ids -> Order] /\ order' \in [Ids -> Order]
    BY DEF TypeOK
  <2>2. Weights \in [Ids -> Int] /\ Weights' \in [Ids -> Int]
    BY <2>1, WeightsType DEF Weights, Open
  <2> QED BY <2>2 DEF Weights
<1>2. S \in SUBSET Ids /\ T \in SUBSET Ids
  BY DEF AtLevel, InTree
<1>3. T \ {x} = S \ {x} /\ Total(Weights')[T \ {x}] = base
  BY OthersSame
<1>4. /\ base \in Int /\ Cardinality(S \ {x}) \in Nat
      /\ a = base + IF x \in S THEN Open(x) ELSE 0
      /\ Cardinality(S) = Cardinality(S \ {x}) + IF x \in S THEN 1 ELSE 0
  <2> HIDE DEF S
  <2>1. LET w == Weights IN
        /\ Total(w)[S \ {x}] \in Int
        /\ Cardinality(S \ {x}) \in Nat
        /\ Total(w)[S] = Total(w)[S \ {x}] + IF x \in S THEN w[x] ELSE 0
        /\ Cardinality(S) = Cardinality(S \ {x}) + IF x \in S THEN 1 ELSE 0
    BY <1>1, <1>2, SumSplit
  <2> QED BY <2>1, <1>1
<1>5. /\ b = base + IF x \in T THEN Open(x)' ELSE 0
      /\ Cardinality(T) = Cardinality(S \ {x}) + IF x \in T THEN 1 ELSE 0
  <2> HIDE DEF S, T
  <2> QED BY <1>1, <1>2, <1>3, SumSplit
<1>6. /\ x \in S <=> tree[x] = t /\ Key(x) = k
      /\ x \in T <=> tree'[x] = t /\ Key(x)' = k
  BY DEF AtLevel, InTree
<1>7. Open(x) \in Int /\ Open(x)' \in Int
  BY <1>1
<1>8. /\ level \in Levels
      /\ level[t][k].qty \in Word /\ level[t][k].qty \in Int
      /\ level[t][k].count \in Int
  BY LevelFields
<1>9. SUFFICES /\ level'[t][k].qty = (level[t][k].qty + b - a) % WordSize
               /\ level'[t][k].count - level[t][k].count =
                    Cardinality(T) - Cardinality(S)
  BY DEF Follows
<1> HIDE DEF S, T, a, b, base
<1>10. CASE t = t0 /\ k = k0
  <2> DEFINE r == Part(x)' - Part(x)
  <2>1. b - a = r /\ Cardinality(T) - Cardinality(S) = Place(x)' - Place(x)
    BY <1>4, <1>5, <1>6, <1>7, <1>10 DEF Part, Place
  <2>2. level'[t][k] = [qty |-> (level[t][k].qty + q) % WordSize,
                        count |-> level[t][k].count + n]
    BY <1>8, <1>10, LevelPlusAt
  <2>3. a \in Int /\ b \in Int
    BY <1>4, <1>5, <1>7
  <2>4. (level[t][k].qty + q) % WordSize = (level[t][k].qty + r) % WordSize
    BY <1>8, <1>10 DEF SameInWord
  <2> HIDE DEF r
  <2>5. level[t][k].qty + r = level[t][k].qty + b - a
    BY <1>8, <2>1, <2>3
  <2>6. n = Cardinality(T) - Cardinality(S)
    BY <1>10, <2>1
  <2> QED BY <1>8, <2>2, <2>4, <2>5, <2>6
<1>11. CASE ~(t = t0 /\ k = k0)
  <2>1. x \notin S /\ x \notin T
    BY <1>6, <1>11
  <2>2. b = a /\ a \in Int /\ Cardinality(T) = Cardinality(S)
    BY <1>4, <1>5, <2>1
  <2>3. level'[t][k] = level[t][k]
    BY <1>8, <1>11, LevelPlusElsewhere
  <2>4. level[t][k].qty + b - a = level[t][k].qty
    BY <1>8, <2>2
  <2>5. level[t][k].qty % WordSize = level[t][k].qty
    BY <1>8, WordMod
  <2>6. Cardinality(S) \in Int
    BY <1>4
  <2> QED BY <1>8, <2>2, <2>3, <2>4, <2>5, <2>6
<1> QED BY <1>10, <1>11

\* In one word, all levels follow the part x has in its own.
LEMMA LevelsFollow ==
  ASSUME TypeOK, TypeOK', NEW x \in Ids, OnlyFor(x),
         NEW t0 \in Trees, NEW k0 \in Prices, NEW q \in Int, NEW n \in Int,
         level' = LevelPlus(t0, k0, q, n),
         tree[x] \in Trees => tree[x] = t0 /\ Key(x) = k0,
         tree'[x] \in Trees => tree'[x] = t0 /\ Key(x)' = k0,
         q = Part(x)' - Part(x), n = Place(x)' - Place(x)
  PROVE  LevelStep
<1>1. SameInWord(q, Part(x)' - Part(x))
  BY DEF SameInWord
<1>2. ASSUME NEW t \in Trees, NEW k \in Prices PROVE Follows(t, k)
  BY <1>1, LevelFollows
<1> QED BY <1>2 DEF LevelStep

\* When nothing in the trees changes nothing has to be adjusted.
LEMMA LevelsStay ==
  ASSUME TypeOK, TypeOK', UNCHANGED <<tree, level>>,
         \A x \in Ids : tree[x] \in Trees => order'[x] = order[x]
  PROVE  LevelStep
<1>1. SUFFICES ASSUME NEW t \in Trees, NEW k \in Prices PROVE Follows(t, k)
  BY DEF LevelStep
<1> DEFINE S == AtLevel(t, k)
           a == Total(Weights)[S]
<1>2. AtLevel(t, k)' = S
  BY DEF AtLevel, InTree, Key
<1>3. S \in SUBSET Ids /\ \A y \in S : order'[y] = order[y]
  BY DEF AtLevel, InTree
<1>4. \A y \in S : Weights'[y] = Weights[y]
  BY <1>3 DEF Weights, Open
<1>5. Weights \in [Ids -> Int] /\ Weights' \in [Ids -> Int]
  <2>1. order \in [Ids -> Order] /\ order' \in [Ids -> Order]
    BY DEF TypeOK
  <2> QED BY <2>1, WeightsType DEF Weights, Open
<1>6. Total(Weights')[S] = a
  <2> HIDE DEF S
  <2> QED BY <1>3, <1>4, <1>5, IdsAssumption, TotalSame
<1>7. a \in Int /\ Cardinality(S) \in Int
  BY SumType
<1>8. /\ level' = level
      /\ level[t][k].qty \in Word /\ level[t][k].qty \in Int
      /\ level[t][k].count \in Int
  BY LevelFields
<1>9. SUFFICES /\ level'[t][k].qty = (level[t][k].qty + a - a) % WordSize
               /\ level'[t][k].count - level[t][k].count =
                    Cardinality(S) - Cardinality(S)
  BY <1>2, <1>6 DEF Follows
<1> HIDE DEF S, a
<1>10. level[t][k].qty + a - a = level[t][k].qty
  BY <1>7, <1>8
<1>11. level[t][k].qty % WordSize = level[t][k].qty
  BY <1>8, WordMod
<1> QED BY <1>7, <1>8, <1>10, <1>11

-----------------------------------------------------------------------------
(* The operations.                                                         *)

LEMMA KeyInPrices ==
  ASSUME TypeOK, Residents, NEW x \in Ids, tree[x] \in Trees
  PROVE  Key(x) \in Prices
<1>1. order[x] \in Order
  BY DEF TypeOK
<1>2. CASE tree[x] \in {"bids", "asks"}
  BY <1>1, <1>2, InTrees, OrderFields DEF Residents, Key, KeyIn
<1>3. CASE tree[x] \in {"stopBids", "stopAsks"}
  BY <1>1, <1>3, InTrees, OrderFields DEF Residents, Key, KeyIn
<1> QED BY <1>2, <1>3 DEF Trees

\* An erased order takes its part with it.
LEMMA EraseLevels ==
  ASSUME TypeOK, TypeOK', Residents,
         NEW x \in Ids, tree[x] \in Trees, Erase(x),
         \A y \in Ids \ {x} : order'[y] = order[y]
  PROVE  LevelStep
<1>1. /\ level' = LevelPlus(tree[x], Key(x), -Open(x), -1)
      /\ tree' = [tree EXCEPT ![x] = "out"]
  BY DEF Erase
<1>2. /\ tree \in [Ids -> Trees \cup {"out"}] /\ "out" \notin Trees
  BY DEF TypeOK, Trees
<1>3. OnlyFor(x) /\ tree'[x] = "out"
  BY <1>1, <1>2 DEF OnlyFor
<1>4. Open(x) \in Nat /\ Key(x) \in Prices
  BY OpenType, KeyInPrices
<1>5. /\ Part(x) = Open(x) /\ Part(x)' = 0
      /\ Place(x) = 1 /\ Place(x)' = 0
  BY <1>2, <1>3 DEF Part, Place
<1>6. /\ -Open(x) \in Int /\ -1 \in Int
      /\ -Open(x) = Part(x)' - Part(x) /\ -1 = Place(x)' - Place(x)
  BY <1>4, <1>5
<1> QED BY <1>1, <1>2, <1>3, <1>4, <1>6, LevelsFollow

\* An inserted order adds its part.
LEMMA InsertLevels ==
  ASSUME TypeOK, TypeOK', Residents',
         NEW x \in Ids, tree[x] = "out", NEW t \in Trees, NEW o \in Order,
         Insert(t, x, o)
  PROVE  LevelStep
<1>1. /\ level' = LevelPlus(t, KeyIn(t, o), OpenQty(o), 1)
      /\ tree' = [tree EXCEPT ![x] = t]
      /\ order' = [order EXCEPT ![x] = o]
  BY DEF Insert
<1>2. /\ tree \in [Ids -> Trees \cup {"out"}] /\ order \in [Ids -> Order]
      /\ tree' \in [Ids -> Trees \cup {"out"}] /\ order' \in [Ids -> Order]
      /\ "out" \notin Trees
  BY DEF TypeOK, Trees
<1>3. OnlyFor(x) /\ tree'[x] = t /\ order'[x] = o
  BY <1>1, <1>2 DEF OnlyFor
<1>4. KeyIn(t, o) \in Prices
  <2>1. t \in {"bids", "asks"} => x \in Resting'
    BY <1>3 DEF Resting, InTree
  <2>2. t \in {"stopBids", "stopAsks"} => x \in Parked'
    BY <1>3 DEF Parked, InTree
  <2>3. KeyIn(t, o) # 0
    BY <1>3, <2>1, <2>2 DEF Residents, KeyIn, Trees
  <2> QED BY <2>3, OrderFields DEF KeyIn
<1>5. OpenQty(o) \in Nat
  BY OrderFields, OpenFacts
<1>6. /\ Part(x) = 0 /\ Part(x)' = OpenQty(o)
      /\ Place(x) = 0 /\ Place(x)' = 1
      /\ Key(x)' = KeyIn(t, o)
  BY <1>2, <1>3 DEF Part, Place, Open, Key
<1>7. /\ OpenQty(o) \in Int /\ 1 \in Int
      /\ OpenQty(o) = Part(x)' - Part(x) /\ 1 = Place(x)' - Place(x)
  BY <1>5, <1>6
<1> QED BY <1>1, <1>2, <1>3, <1>4, <1>6, <1>7, LevelsFollow

\* A trade takes its quantity off the maker's level, and the maker's place
\* when nothing of it is left.
LEMMA TradeLevels ==
  ASSUME TypeOK, TypeOK', Residents,
         cur \in Ids, tree[cur] = "out",
         NEW m \in Ids, tree[m] = Opposite,
         NEW q \in Nat, q <= Open(cur), q <= Open(m), Trade(m, q)
  PROVE  LevelStep
<1> DEFINE done == order[m].filled + q >= order[m].qty
<1>1. /\ tree[m] \in {"bids", "asks"} /\ tree[m] \in Trees /\ "out" \notin Trees
      /\ order[m] \in Order /\ order \in [Ids -> Order]
      /\ tree \in [Ids -> Trees \cup {"out"}]
  BY DEF Opposite, Trees, TypeOK
<1>2. /\ m # cur
      /\ \A x \in Ids \ {cur, m} : order'[x] = order[x]
      /\ q = Open(m) => order'[m] = Blank
      /\ q # Open(m) => order'[m] = Filled(order[m], q)
  BY TradeFacts
<1>3. done <=> q = Open(m)
  BY <1>1, FilledType DEF Open
<1>4. /\ level' = LevelPlus(tree[m], Key(m), -q, IF done THEN -1 ELSE 0)
      /\ tree' = IF done THEN [tree EXCEPT ![m] = "out"] ELSE tree
  BY DEF Trade
<1> HIDE DEF done
<1>5. OnlyFor(m)
  BY <1>1, <1>2, <1>4 DEF OnlyFor
<1>6. Key(m) \in Prices /\ Open(m) \in Nat
  BY <1>1, KeyInPrices, OpenType
<1>7. /\ -q \in Int /\ (IF done THEN -1 ELSE 0) \in Int
  OBVIOUS
<1>8. CASE done
  <2>1. tree'[m] = "out" /\ Part(m)' = 0 /\ Place(m)' = 0
    BY <1>1, <1>4, <1>8 DEF Part, Place
  <2>2. Part(m) = q /\ Place(m) = 1
    BY <1>1, <1>3, <1>8 DEF Part, Place
  <2>3. /\ -q = Part(m)' - Part(m)
        /\ (IF done THEN -1 ELSE 0) = Place(m)' - Place(m)
    BY <2>1, <2>2, <1>8
  <2> QED BY <1>1, <1>4, <1>5, <1>6, <1>7, <2>1, <2>3, LevelsFollow
<1>9. CASE ~done
  <2>1. order'[m] = Filled(order[m], q)
    BY <1>2, <1>3, <1>9
  <2>2. /\ Open(m)' = Open(m) - q
        /\ order'[m].price = order[m].price /\ order'[m].stop = order[m].stop
    BY <1>1, <2>1, FilledType DEF Open
  <2>3. tree'[m] = tree[m] /\ Key(m)' = Key(m)
    BY <1>4, <1>9, <2>2 DEF Key, KeyIn
  <2>4. /\ Part(m)' = Open(m) - q /\ Part(m) = Open(m)
        /\ Place(m)' = 1 /\ Place(m) = 1
    BY <1>1, <2>2, <2>3 DEF Part, Place
  <2>5. /\ -q = Part(m)' - Part(m)
        /\ (IF done THEN -1 ELSE 0) = Place(m)' - Place(m)
    BY <2>4, <1>6, <1>9
  <2> QED BY <1>1, <1>4, <1>5, <1>6, <1>7, <2>3, <2>5, LevelsFollow
<1> QED BY <1>8, <1>9

\* What an order that is not starved gains by an increase in place, unless it
\* is overrun, is the delta up to a multiple of the word size.
LEMMA ResizedPart ==
  ASSUME NEW o \in Order, NEW d \in Int, o.filled < o.qty,
         d < 0 => -d < o.qty - o.filled,
         d > 0 => OpenQty(Modified(o, d, 0)) # 0
  PROVE  SameInWord(d, OpenQty(Modified(o, d, 0)) - OpenQty(o))
<1> DEFINE n == Modified(o, d, 0)
           w == (o.qty + d) % WordSize
<1>1. /\ o.qty \in Nat /\ o.filled \in Nat /\ o.qty < WordSize
  BY OrderFields
<1>2. n.qty = w /\ n.filled = o.filled
  BY ModifiedFacts
<1>3. w \in Nat
  BY <1>1, WordFacts, WordMod
<1> HIDE DEF n
<1>4. OpenQty(o) = o.qty - o.filled
  BY <1>1 DEF OpenQty
<1>5. w > o.filled
  <2>1. CASE d > 0
    BY <1>1, <1>2, <1>3, <2>1 DEF OpenQty, n
  <2>2. CASE d <= 0
    <3>1. o.qty + d \in Nat /\ o.qty + d < WordSize /\ o.qty + d > o.filled
      <4>1. CASE d = 0
        BY <1>1, <4>1
      <4>2. CASE d < 0
        <5>1. -d < o.qty - o.filled
          BY <4>2
        <5> QED BY <1>1, <4>2, <5>1, WordFacts
      <4> QED BY <2>2, <4>1, <4>2
    <3>2. w = o.qty + d
      BY <3>1, WordFacts, WordMod
    <3> QED BY <3>1, <3>2
  <2> QED BY <2>1, <2>2
<1>6. OpenQty(n) = w - o.filled
  BY <1>1, <1>2, <1>3, <1>5 DEF OpenQty
<1>7. OpenQty(n) - OpenQty(o) = w - o.qty
  BY <1>1, <1>3, <1>4, <1>6
<1>8. ASSUME NEW a \in Int
      PROVE  (a + d) % WordSize = (a + (w - o.qty)) % WordSize
  <2> DEFINE u == o.qty + d
             v == a - o.qty
  <2>1. u \in Int /\ v \in Int
    BY <1>1
  <2>2. u + v = a + d /\ w + v = a + (w - o.qty)
    <3> HIDE DEF w
    <3> QED BY <1>1, <1>3
  <2>3. w = u % WordSize
    OBVIOUS
  <2> HIDE DEF u, v, w
  <2>4. ((u % WordSize) + v) % WordSize = (u + v) % WordSize
    BY <2>1, WordFacts, ModAbsorbs
  <2> QED BY <2>2, <2>3, <2>4
<1> QED BY <1>7, <1>8 DEF SameInWord, n

\* A size change in place is the change of the order's part, unless it overruns
\* the order.
LEMMA ResizeLevels ==
  ASSUME TypeOK, TypeOK', Residents,
         NEW x \in Ids, NEW d \in Deltas, NEW p \in Prices \cup {0},
         ReplaceInPlace(x, d, p)
  PROVE  LevelStep
<1>1. /\ tree[x] \in {"bids", "asks"} /\ tree[x] \in Trees
      /\ ~Collapses(x, d)
      /\ order' = [order EXCEPT ![x] = Modified(order[x], d, 0)]
      /\ level' = LevelPlus(tree[x], Key(x), d, 0)
      /\ tree' = tree
  BY DEF ReplaceInPlace, Trees
<1>2. /\ order \in [Ids -> Order] /\ order[x] \in Order /\ d \in Int
  BY ConstantsAssumption DEF TypeOK, ConstantsAssumption
<1>3. /\ order'[x] = Modified(order[x], d, 0)
      /\ order'[x].price = order[x].price
      /\ order'[x].stop = order[x].stop
  BY <1>1, <1>2, ModifiedFacts
<1>4. OnlyFor(x) /\ Key(x)' = Key(x)
  BY <1>1, <1>2, <1>3 DEF OnlyFor, Key, KeyIn
<1>5. Key(x) \in Prices
  BY <1>1, KeyInPrices
<1>6. /\ Part(x)' = Open(x)' /\ Part(x) = Open(x)
      /\ Place(x)' = 1 /\ Place(x) = 1
  BY <1>1 DEF Part, Place
<1>7. x \in AtLevel(tree[x], Key(x))
  BY AtLevelIs
<1>8. SUFFICES ASSUME NEW t \in Trees, NEW k \in Prices, ~Overrun(t, k)
               PROVE  Follows(t, k)
  BY DEF LevelStep
<1>9. t = tree[x] /\ k = Key(x) => SameInWord(d, Part(x)' - Part(x))
  <2>1. SUFFICES ASSUME t = tree[x], k = Key(x)
                 PROVE  SameInWord(d, Open(x)' - Open(x))
    BY <1>6
  <2>2. x \notin Starved /\ ~Overruns(x, d)
    BY <1>7, <1>8, <2>1 DEF Overrun
  <2>3. /\ order[x].filled \in Nat /\ order[x].qty \in Nat
    BY <1>2, OrderFields
  <2>4. order[x].filled < order[x].qty
    BY <1>1, <2>2, <2>3, StarvedIs
  <2>5. d < 0 => -d < order[x].qty - order[x].filled
    BY <1>1, <1>2, <2>3, <2>4 DEF Collapses, Open, OpenQty
  <2>6. d > 0 => OpenQty(Modified(order[x], d, 0)) # 0
    BY <2>2 DEF Overruns
  <2> QED BY <1>2, <1>3, <2>4, <2>5, <2>6, ResizedPart DEF Open
<1>10. 0 = Place(x)' - Place(x) /\ 0 \in Int
  BY <1>6
<1> QED BY <1>1, <1>2, <1>4, <1>5, <1>9, <1>10, LevelFollows

LEMMA CallLevels == IInv /\ IInv' /\ Call => LevelStep
<1>1. SUFFICES ASSUME IInv, IInv', Call PROVE LevelStep
  OBVIOUS
<1>2. /\ TypeOK /\ TypeOK' /\ Residents /\ Residents'
      /\ order \in [Ids -> Order]
  BY <1>1 DEF IInv, TypeOK
<1>3. CASE (\E o \in NewOrders : AddReject(o)) \/ (\E x \in Ids : CancelReject(x))
             \/ (\E x \in Ids : ReplaceReject(x))
             \/ (\E px \in MarketPrices : SetMarketPrice(px))
  <2>1. UNCHANGED <<order, tree, level>>
    BY <1>3 DEF AddReject, CancelReject, ReplaceReject, SetMarketPrice, book
  <2> QED BY <1>2, <2>1, LevelsStay
<1>4. ASSUME NEW x \in Ids, NEW o \in NewOrders, AddPark(x, o)
      PROVE  LevelStep
  <2>1. /\ tree[x] = "out" /\ Insert(StopTree(o), x, o) /\ o \in Order
        /\ StopTree(o) \in Trees
    BY <1>4, NewOrderFacts DEF AddPark, Fresh, StopTree, Trees
  <2> QED BY <1>2, <2>1, InsertLevels
<1>5. ASSUME NEW x \in Ids, NEW o \in NewOrders, AddSubmit(x, o)
      PROVE  LevelStep
  <2>1. /\ tree[x] = "out" /\ order' = [order EXCEPT ![x] = o]
        /\ UNCHANGED <<tree, level>>
    BY <1>5 DEF AddSubmit, Fresh
  <2>2. \A y \in Ids : tree[y] \in Trees => order'[y] = order[y]
    BY <1>2, <2>1 DEF Trees
  <2> QED BY <1>2, <2>1, <2>2, LevelsStay
<1>6. ASSUME NEW x \in Ids, Cancel(x) PROVE LevelStep
  BY <1>2, <1>6, EraseLevels DEF Cancel
<1>7. ASSUME NEW x \in Ids, NEW d, NEW p, ReplaceCollapse(x, d, p)
      PROVE  LevelStep
  BY <1>2, <1>7, EraseLevels DEF ReplaceCollapse, Trees
<1>8. ASSUME NEW x \in Ids, NEW d \in Deltas, NEW p \in Prices \cup {0},
             ReplaceInPlace(x, d, p)
      PROVE  LevelStep
  BY <1>2, <1>8, ResizeLevels
<1>9. ASSUME NEW x \in Ids, NEW d, NEW p, ReplaceReprice(x, d, p)
      PROVE  LevelStep
  <2>1. /\ tree[x] \in Trees /\ Erase(x)
        /\ \A y \in Ids \ {x} : order'[y] = order[y]
    BY <1>2, <1>9 DEF ReplaceReprice, Trees
  <2> QED BY <1>2, <2>1, EraseLevels
<1> QED BY <1>1, <1>3, <1>4, <1>5, <1>6, <1>7, <1>8, <1>9 DEF Call

LEMMA StepLevels == IInv /\ IInv' /\ Step => LevelStep
<1>1. SUFFICES ASSUME IInv, IInv', Step PROVE LevelStep
  OBVIOUS
<1>2. /\ TypeOK /\ TypeOK' /\ Residents /\ Residents'
      /\ order \in [Ids -> Order]
  BY <1>1 DEF IInv, TypeOK
<1>3. CASE Submit \/ MatchEnd \/ MatchSkip \/ PlanVisit \/ PlanEnd \/ CommitEnd
             \/ BidsScanned \/ AsksScanned
  <2>1. UNCHANGED <<order, tree, level>>
    BY <1>3 DEF Submit, MatchEnd, MatchSkip, PlanVisit, PlanEnd, CommitEnd,
                BidsScanned, AsksScanned, book
  <2> QED BY <1>2, <2>1, LevelsStay
<1>4. CASE MatchTrade
  <2>1. /\ it \in Ids /\ tree[it] = Opposite /\ tree[cur] = "out"
        /\ Trade(it, Smaller(Open(cur), Open(it))) /\ cur \in Ids
    BY <1>1, <1>2, <1>4, SweepNow
    DEF MatchTrade, Matching, IInv, Control, TypeOK
  <2>2. Open(cur) \in Nat /\ Open(it) \in Nat
    BY <1>2, <2>1, OpenType
  <2>3. /\ Smaller(Open(cur), Open(it)) \in Nat
        /\ Smaller(Open(cur), Open(it)) <= Open(cur)
        /\ Smaller(Open(cur), Open(it)) <= Open(it)
    BY <2>2 DEF Smaller
  <2> QED BY <1>2, <2>1, <2>3, TradeLevels
<1>5. CASE Commit
  <2>1. /\ pc = "commit" /\ plan # <<>> /\ plan \in Seq([id : Ids, qty : Nat])
    BY <1>2, <1>5 DEF Commit, TypeOK
  <2>2. Head(plan) = plan[1]
    BY <2>1
  <2>3. /\ plan[1].id \in Ids /\ plan[1].qty \in Nat
        /\ tree[plan[1].id] = Opposite
        /\ plan[1].qty <= Open(plan[1].id)
        /\ plan[1].qty <= Open(cur)
    BY <1>1, <2>1, FirstPlanned
  <2>4. Trade(plan[1].id, plan[1].qty)
    BY <1>5, <2>2, <2>3 DEF Commit
  <2>5. cur \in Ids /\ tree[cur] = "out"
    BY <1>1, <2>1, SweepNow
  <2> QED BY <1>2, <2>3, <2>4, <2>5, TradeLevels
<1>6. CASE Rest
  <2>1. /\ cur \in Ids /\ tree[cur] = "out" /\ order[cur] \in Order
        /\ Insert(BookTree(order[cur]), cur, order[cur])
        /\ BookTree(order[cur]) \in Trees
    BY <1>1, <1>6, SweepNow DEF Rest, BookTree, Trees
  <2> QED BY <1>2, <2>1, InsertLevels
<1>7. CASE Discard
  <2>1. /\ cur \in Ids /\ tree[cur] = "out" /\ UNCHANGED <<tree, level>>
        /\ order' = [order EXCEPT ![cur] = Blank]
    BY <1>1, <1>7, SweepNow DEF Discard
  <2>2. \A y \in Ids : tree[y] \in Trees => order'[y] = order[y]
    BY <1>2, <2>1 DEF Trees
  <2> QED BY <1>2, <2>1, <2>2, LevelsStay
<1>8. ASSUME NEW x \in Ids, FireBid(x) \/ FireAsk(x) PROVE LevelStep
  <2>1. x # None
    BY <1>8 DEF FireBid, FireAsk, Fires
  <2>2. tree[x] \in Trees
    BY <1>8, <2>1, FirstIs, InTrees DEF FireBid, FireAsk, Trees
  <2>3. order' = order /\ Erase(x)
    BY <1>8 DEF FireBid, FireAsk
  <2> QED BY <1>2, <2>2, <2>3, EraseLevels
<1> QED BY <1>1, <1>3, <1>4, <1>5, <1>6, <1>7, <1>8 DEF Step

\* What every step does to the levels.
LEMMA NextLevels ==
  ASSUME IInv, IInv', [Next]_vars
  PROVE  LevelStep
<1>1. CASE UNCHANGED vars
  <2>1. UNCHANGED <<order, tree, level>>
    BY <1>1 DEF vars, book
  <2>2. TypeOK /\ TypeOK'
    BY DEF IInv
  <2> QED BY <2>1, <2>2, LevelsStay
<1> QED BY <1>1, CallLevels, StepLevels DEF Next

\* AggregatesFollow: insert, erase, the trades and the size change in place
\* adjust the aggregates of each level by exactly what its orders gain and
\* lose, at every step of every call, for every set of orders and any word
\* size, whatever an earlier overrun has done to them.  Only an overrun, and
\* the increase of an order that was overrun, adjust them by something else.
THEOREM AggregatesMove == Spec => AggregatesFollow
<1> DEFINE Move ==
      LET open == Total([x \in Ids |-> Open(x)]) IN
      \A t \in Trees, k \in Prices :
        LET S == AtLevel(t, k) IN
        \/ /\ level'[t][k].qty =
                (level[t][k].qty + open'[S'] - open[S]) % WordSize
           /\ level'[t][k].count - level[t][k].count =
                Cardinality(S') - Cardinality(S)
        \/ \E x \in S, d \in Deltas, p \in Prices \cup {0} :
             /\ ReplaceInPlace(x, d, p)
             /\ x \in Starved \/ Overruns(x, d)
<1>1. LevelStep => Move
  BY DEF LevelStep, Follows, Overrun, Weights
<1>2. IInv /\ IInv' /\ [Next]_vars => [Move]_vars
  BY <1>1, NextLevels
<1>3. AggregatesFollow <=> [][Move]_vars
  BY DEF AggregatesFollow
<1> HIDE DEF Move
<1> QED BY Inductive, <1>2, <1>3, PTL DEF Spec

\* An overrun harms its order and the order's level: no step of a sweep, a plan,
\* a cascade or another replace starves an order or moves a level off its orders.
THEOREM OverrunConfined == Spec => OverrunsConfined
BY StarvedByOverrun, AggregatesMove DEF OverrunsConfined

LEMMA InitLevels == Init => LevelAggregates
<1>1. SUFFICES ASSUME Init PROVE LevelAggregates
  OBVIOUS
<1>2. TypeOK
  BY <1>1, InitIInv DEF IInv
<1>3. Weights \in [Ids -> Int]
  <2>1. order \in [Ids -> Order]
    BY <1>2 DEF TypeOK
  <2> QED BY <2>1, WeightsType DEF Weights, Open
<1>4. SUFFICES ASSUME NEW t \in Trees, NEW k \in Prices
      PROVE  level[t][k] = [qty |-> Total(Weights)[AtLevel(t, k)] % WordSize,
                            count |-> Cardinality(AtLevel(t, k))]
  BY LevelsNow
<1>5. AtLevel(t, k) = {}
  BY <1>1 DEF Init, AtLevel, InTree, Trees
<1>6. Total(Weights)[{}] = 0 /\ Cardinality({}) = 0
  BY <1>3, IdsAssumption, TotalType, FS_EmptySet
<1>7. 0 % WordSize = 0
  BY WordFacts, WordMod
<1>8. level[t][k] = [qty |-> 0, count |-> 0]
  BY <1>1 DEF Init
<1> QED BY <1>5, <1>6, <1>7, <1>8

\* Aggregates that were right and followed are right.
LEMMA FollowedExact ==
  ASSUME TypeOK, TypeOK', LevelAggregates,
         \A t \in Trees, k \in Prices : Follows(t, k)
  PROVE  LevelAggregates'
<1> SUFFICES ASSUME NEW t \in Trees, NEW k \in Prices
             PROVE  level'[t][k] =
                      [qty |-> Total(Weights')[AtLevel(t, k)'] % WordSize,
                       count |-> Cardinality(AtLevel(t, k)')]
  BY LevelsNext
<1> DEFINE a == Total(Weights)[AtLevel(t, k)]
           b == Total(Weights')[AtLevel(t, k)']
           m == Cardinality(AtLevel(t, k))
           n == Cardinality(AtLevel(t, k)')
<1>1. level[t][k] = [qty |-> a % WordSize, count |-> m]
  BY LevelsNow
<1>2. /\ level'[t][k].qty = (level[t][k].qty + b - a) % WordSize
      /\ level'[t][k].count - level[t][k].count = n - m
  BY DEF Follows
<1>3. a \in Int /\ m \in Nat
  BY SumType
<1>4. b \in Int /\ n \in Nat
  <2>1. Weights' \in [Ids -> Int]
    <3>1. order' \in [Ids -> Order]
      BY DEF TypeOK
    <3> QED BY <3>1, WeightsType DEF Weights, Open
  <2>2. AtLevel(t, k)' \in SUBSET Ids
    BY DEF AtLevel, InTree
  <2>3. Total(Weights') \in [SUBSET Ids -> Int]
    BY <2>1, IdsAssumption, TotalType
  <2>4. IsFiniteSet(AtLevel(t, k)')
    BY <2>2, IdsAssumption, FS_Subset
  <2> QED BY <2>2, <2>3, <2>4, FS_CardinalityType
<1>5. /\ level'[t][k] = [qty |-> level'[t][k].qty, count |-> level'[t][k].count]
      /\ level'[t][k].count \in Int
  <2>1. level' \in [Trees -> [Prices -> [qty : Word, count : Int]]]
    BY DEF TypeOK
  <2> QED BY <2>1
<1> HIDE DEF a, b, m, n
<1>6. ((a % WordSize) + (b - a)) % WordSize = (a + (b - a)) % WordSize
  <2> DEFINE c == b - a
  <2>1. c \in Int
    BY <1>3, <1>4
  <2> HIDE DEF c
  <2>2. ((a % WordSize) + c) % WordSize = (a + c) % WordSize
    BY <1>3, <2>1, WordFacts, ModAbsorbs
  <2> QED BY <2>2 DEF c
<1>7. a + (b - a) = b /\ (a % WordSize) + b - a = (a % WordSize) + (b - a)
  <2>1. a % WordSize \in Int
    BY <1>3, WordFacts, WordMod
  <2> QED BY <1>3, <1>4, <2>1
<1>8. level'[t][k].qty = b % WordSize
  BY <1>1, <1>2, <1>6, <1>7
<1>9. level'[t][k].count = n
  BY <1>1, <1>2, <1>3, <1>4, <1>5
<1> QED BY <1>5, <1>8, <1>9 DEF b, n

\* As long as no caller overruns an order, the aggregates of each level are at
\* every step of every call the sum of the open quantities and the number of
\* the orders in it.
THEOREM AggregatesExact == Spec /\ NoOverrun => []LevelAggregates
<1>1. /\ IInv /\ IInv' /\ Starved = {} /\ LevelAggregates
      /\ [Next]_vars /\ [Restrained]_vars
      => LevelAggregates'
  <2>1. SUFFICES ASSUME IInv, IInv', Starved = {}, LevelAggregates,
                        [Next]_vars, [Restrained]_vars
                 PROVE  LevelAggregates'
    OBVIOUS
  <2>2. LevelStep
    BY <2>1, NextLevels
  <2>3. TypeOK /\ TypeOK'
    BY <2>1 DEF IInv
  <2>4. CASE UNCHANGED vars
    <3>1. UNCHANGED <<order, tree, level>>
      BY <2>4 DEF vars, book
    <3> QED BY <2>1, <3>1
        DEF LevelAggregates, AtLevel, InTree, Key, Open
  <2>5. CASE Restrained
    <3>1. ASSUME NEW t \in Trees, NEW k \in Prices, Overrun(t, k) PROVE FALSE
      <4>1. PICK x \in AtLevel(t, k), d \in Deltas, p \in Prices \cup {0} :
              ReplaceInPlace(x, d, p) /\ (x \in Starved \/ Overruns(x, d))
        BY <3>1 DEF Overrun
      <4>2. x \in Ids
        BY <4>1, AtLevelIs
      <4> QED BY <2>1, <2>5, <4>1, <4>2 DEF Restrained
    <3>2. \A t \in Trees, k \in Prices : Follows(t, k)
      BY <2>2, <3>1 DEF LevelStep
    <3> QED BY <2>1, <2>3, <3>2, FollowedExact
  <2> QED BY <2>1, <2>4, <2>5
<1>2. NoOverrun => [][Restrained]_vars
  BY PTL DEF NoOverrun, Restrained
<1> QED BY Inductive, NobodyStarves, InitLevels, <1>1, <1>2, PTL DEF Spec

-----------------------------------------------------------------------------
(* Behind the adapter.                                                     *)

\* Between the two calls of a modify, the order to be added is one the book
\* takes; and the reports are a sequence.
Sendable ==
  phase = "reinsert" => message.id \in Ids /\ BookOrder(message) \in NewOrders
Reports == \E S : babo \in Seq(S)

-----------------------------------------------------------------------------
(* The adapter's calls.                                                    *)

LEMMA NewOrderSendable ==
  ASSUME NEW o \in News, NEW m, m.buy = o.buy, m.price = o.price, m.qty = o.qty,
         m.ioc = o.ioc
  PROVE BookOrder(m) \in NewOrders
<1>1. /\ o \in NewOrders /\ o.stop = 0 /\ ~o.aon /\ o.filled = 0
  BY EnginesAssumption DEF EnginesAssumption
<1>2. o \in Order
  BY <1>1, ConstantsAssumption DEF ConstantsAssumption
<1>3. /\ o.aon = FALSE
      /\ o = [buy |-> o.buy, price |-> o.price, stop |-> o.stop, qty |-> o.qty,
              filled |-> o.filled, aon |-> o.aon, ioc |-> o.ioc]
  BY <1>1, <1>2 DEF Order
<1>4. BookOrder(m) = [buy |-> o.buy, price |-> o.price, stop |-> 0, qty |-> o.qty,
                      filled |-> 0, aon |-> FALSE, ioc |-> o.ioc]
  BY DEF BookOrder, Plain
<1>5. QED BY <1>1, <1>3, <1>4

LEMMA ReorderSendable ==
  ASSUME NEW r \in Reorders, NEW b \in BOOLEAN, NEW m, m.buy = b,
         m.price = r.price, m.qty = r.qty, m.ioc = FALSE
  PROVE BookOrder(m) \in NewOrders
<1>1. Plain(b, r.price, r.qty, FALSE) \in NewOrders
  BY EnginesAssumption DEF EnginesAssumption
<1>2. BookOrder(m) = Plain(b, r.price, r.qty, FALSE)
  BY DEF BookOrder, Plain
<1>3. QED BY <1>1, <1>2

\* Every step of the engines is a step of the book or leaves it alone.
LEMMA BookStep ==
  ASSUME Sendable, [EnginesNext]_engineVars
  PROVE [Next]_vars
<1>1. CASE UNCHANGED engineVars
  BY <1>1 DEF engineVars
<1>2. ASSUME NEW id \in Ids, NEW o \in News, OnNew(id, o)
      PROVE [Next]_vars
  <2>1. PICK m : /\ m = [kind |-> "new", id |-> id, buy |-> o.buy, price |-> o.price,
                         qty |-> o.qty, ioc |-> o.ioc]
                 /\ message' = m /\ AddSubmit(id, BookOrder(m))
    BY <1>2 DEF OnNew
  <2>2. BookOrder(m) \in NewOrders
    BY <2>1, NewOrderSendable
  <2>3. QED BY <2>1, <2>2 DEF Next, Call
<1>3. ASSUME NEW id \in Ids, OnCancel(id)
      PROVE [Next]_vars
  BY <1>3 DEF OnCancel, Next, Call
<1>4. ASSUME NEW id \in Ids, NEW o \in Reorders, OnModify(id, o)
      PROVE [Next]_vars
  BY <1>4 DEF OnModify, Next, Call
<1>5. CASE Reinsert
  BY <1>5 DEF Reinsert, Sendable, Next, Call
<1>6. CASE Fill
  BY <1>6 DEF Fill, Next, Step
<1>7. CASE Continues
  BY <1>7 DEF Continues, Next, Step
<1>8. CASE Answer
  BY <1>8 DEF Answer
<1>9. QED BY <1>1, <1>2, <1>3, <1>4, <1>5, <1>6, <1>7, <1>8 DEF EnginesNext

LEMMA SendableStep ==
  ASSUME Sendable, [EnginesNext]_engineVars
  PROVE Sendable'
<1>1. CASE UNCHANGED engineVars
  BY <1>1 DEF engineVars, adapterVars, Sendable, BookOrder, Plain
<1>2. ASSUME NEW id \in Ids, NEW o \in News, OnNew(id, o)
      PROVE Sendable'
  BY <1>2 DEF OnNew, Sendable
<1>3. ASSUME NEW id \in Ids, OnCancel(id)
      PROVE Sendable'
  BY <1>3 DEF OnCancel, Sendable
<1>4. ASSUME NEW id \in Ids, NEW o \in Reorders, OnModify(id, o)
      PROVE Sendable'
  <2> DEFINE b == loOf[id] # NoId /\ lo[loOf[id]].side = "BID"
  <2>1. /\ b \in BOOLEAN
        /\ message' = [kind |-> "modify", id |-> id, buy |-> b, price |-> o.price,
                       qty |-> o.qty, ioc |-> FALSE]
    BY <1>4 DEF OnModify
  <2> HIDE DEF b
  <2>2. /\ message'.id = id /\ message'.buy = b /\ message'.price = o.price
        /\ message'.qty = o.qty /\ message'.ioc = FALSE
    BY <2>1
  <2>3. BookOrder(message') \in NewOrders
    BY <2>1, <2>2, ReorderSendable
  <2>4. BookOrder(message') = BookOrder(message)'
    BY DEF BookOrder, Plain
  <2>5. QED BY <2>2, <2>3, <2>4 DEF Sendable
<1>5. CASE Reinsert
  BY <1>5 DEF Reinsert, Sendable
<1>6. CASE Fill
  BY <1>6 DEF Fill, Sendable, BookOrder, Plain
<1>7. CASE Continues
  BY <1>7 DEF Continues, adapterVars, Sendable, BookOrder, Plain
<1>8. CASE Answer
  BY <1>8 DEF Answer, Sendable
<1>9. QED BY <1>1, <1>2, <1>3, <1>4, <1>5, <1>6, <1>7, <1>8 DEF EnginesNext

\* babobook behind its adapter is the book: every theorem about the book holds
\* of it, for every workload.
THEOREM AdapterDrivesBook == EnginesSpec => Spec
<1>1. EnginesInit => Init /\ Sendable
  BY DEF EnginesInit, Sendable
<1>2. Sendable /\ [EnginesNext]_engineVars => [Next]_vars /\ Sendable'
  BY BookStep, SendableStep
<1>3. QED BY <1>1, <1>2, PTL DEF EnginesSpec, Spec

\* Whatever the workload and however its orders interleave, the book behind the
\* adapter trades in price-time priority and within both limits.
THEOREM AdapterTradesFair == EnginesSpec => FairTrades
BY AdapterDrivesBook, TradesAreFair

\* The adapter never replaces an order: a modify is a cancel and an add.
LEMMA NoReplace ==
  ASSUME [EnginesNext]_engineVars, NEW x, NEW d, NEW p, ReplaceInPlace(x, d, p)
  PROVE UNCHANGED vars
<1>1. /\ pc = "idle" /\ reply' = "replace"
  BY DEF ReplaceInPlace
<1>2. CASE UNCHANGED engineVars
  BY <1>2 DEF engineVars
<1>3. ASSUME NEW id \in Ids, NEW o \in News, OnNew(id, o)
      PROVE FALSE
  BY <1>1, <1>3 DEF OnNew, AddSubmit
<1>4. ASSUME NEW id \in Ids, OnCancel(id)
      PROVE UNCHANGED vars
  BY <1>1, <1>4 DEF OnCancel, Cancel
<1>5. ASSUME NEW id \in Ids, NEW o \in Reorders, OnModify(id, o)
      PROVE UNCHANGED vars
  BY <1>1, <1>5 DEF OnModify, Cancel
<1>6. CASE Reinsert
  BY <1>1, <1>6 DEF Reinsert, AddSubmit
<1>7. CASE Fill
  BY <1>1, <1>7 DEF Fill, MatchTrade
<1>8. CASE Continues
  BY <1>1, <1>8
  DEF Continues, Submit, MatchEnd, Rest, Discard, BidsScanned, AsksScanned
<1>9. CASE Answer
  BY <1>9 DEF Answer
<1>10. QED BY <1>2, <1>3, <1>4, <1>5, <1>6, <1>7, <1>8, <1>9 DEF EnginesNext

LEMMA AdapterRestrained == EnginesSpec => NoOverrun
<1>1. [EnginesNext]_engineVars => [Restrained]_vars
  BY NoReplace DEF Restrained
<1>2. [][Restrained]_vars => NoOverrun
  BY PTL DEF NoOverrun, Restrained
<1>3. QED BY <1>1, <1>2, PTL DEF EnginesSpec

\* Behind the adapter nothing is overrun: every order in a tree is open and the
\* levels an audit reads are exact, for every workload.
THEOREM AdapterKeepsLevels == EnginesSpec => []ResidentsOpen /\ []LevelAggregates
BY AdapterDrivesBook, AdapterRestrained, OnlyOpenResidents, AggregatesExact

-----------------------------------------------------------------------------
(* The price of a trade.                                                   *)

LEMMA Scaled ==
  ASSUME NEW q \in Nat, NEW d \in Int, NEW p \in Int, d >= p
  PROVE q * d >= p * q
<1>1. d - p \in Nat /\ q * (d - p) >= 0
  OBVIOUS
<1>2. q * (d - p) = q * d - p * q
  OBVIOUS
<1>3. q * d \in Int /\ p * q \in Int
  OBVIOUS
<1>4. QED BY <1>1, <1>2, <1>3

LEMMA QuotientBelow ==
  ASSUME NEW p \in Nat, NEW q \in Nat \ {0}, NEW n \in Nat, n < p * q
  PROVE n \div q < p
<1>1. n \div q \in Nat /\ q * (n \div q) <= n
  OBVIOUS
<1>2. n \div q >= p => q * (n \div q) >= p * q
  BY <1>1, Scaled
<1>3. p * q \in Nat /\ q * (n \div q) \in Nat
  BY <1>1
<1>4. QED BY <1>1, <1>2, <1>3

\* Dividing the cost of a fill by its quantity gives the price back if, and only
\* if, the product has not wrapped around.
LEMMA CostGivesPrice ==
  ASSUME NEW p \in Nat, NEW q \in Nat \ {0}
  PROVE ((p * q) % WordSize) \div q = p <=> p * q < WordSize
<1> DEFINE n == p * q
<1>1. n \in Nat /\ n \div q = p /\ WordSize \in Nat \ {0}
  BY WordFacts
<1>2. CASE n < WordSize
  <2>1. n % WordSize = n
    BY <1>1, <1>2
  <2>2. QED BY <1>1, <1>2, <2>1
<1>3. CASE n >= WordSize
  <2>1. n % WordSize \in Nat /\ n % WordSize < n
    BY <1>1, <1>3
  <2>2. QED BY <1>1, <1>3, <2>1, QuotientBelow, SMTT(20)
<1>4. QED BY <1>1, <1>2, <1>3

LEMMA LastAppended ==
  ASSUME NEW S, NEW s \in Seq(S), NEW r
  PROVE /\ \E T : Append(s, r) \in Seq(T)
        /\ Len(Append(s, r)) = Len(s) + 1
        /\ Last(Append(s, r)) = r
<1>1. s \in Seq(S \cup {r})
  OBVIOUS
<1>2. Append(s, r) \in Seq(S \cup {r})
  BY <1>1
<1>3. QED BY <1>1, <1>2 DEF Last

LEMMA LastJoined ==
  ASSUME NEW S, NEW s \in Seq(S), NEW r
  PROVE /\ \E T : s \o <<r>> \in Seq(T)
        /\ Last(s \o <<r>>) = r
<1>1. s \in Seq(S \cup {r}) /\ <<r>> \in Seq(S \cup {r})
  OBVIOUS
<1>2. QED BY <1>1 DEF Last

\* A fill the book makes: its maker's price and its quantity are numbers.
LEMMA FillFacts ==
  ASSUME IInv, ResidentsOpen, MatchTrade
  PROVE /\ order[it].price \in Nat
        /\ Smaller(Open(cur), Open(it)) \in Nat \ {0}
<1>1. /\ pc = "match" /\ Matching
  BY DEF MatchTrade
<1>2. /\ TypeOK /\ cur \in Ids /\ MatchSweep
      /\ it # None /\ it \in Ids /\ tree[it] = Opposite
      /\ Open(cur) \in Nat /\ Open(cur) > 0
      /\ Opposite \in Trees /\ BookInv
  BY <1>1, SweepNow DEF IInv, Control, TypeOK, Matching
<1>3. order[it] \in Order /\ order[it].filled < order[it].qty
  BY <1>1, <1>2, SweepNow, InTrees DEF TypeOK, BookInv, ResidentsOpen
<1>4. Open(it) \in Nat /\ Open(it) > 0
  BY <1>3, OrderFields, OpenFacts DEF Open
<1>5. QED BY <1>2, <1>3, <1>4, OrderFields DEF Smaller

-----------------------------------------------------------------------------
(* The reports.                                                            *)

\* What a step does to the reports of babobook.
LEMMA ReportStep ==
  ASSUME [EnginesNext]_engineVars
  PROVE \/ babo' = babo \/ babo' = <<>>
        \/ \E r : r.type # "Trade" /\ babo' \in {<<r>>, babo \o <<r>>}
        \/ babo' = babo \o <<>>
        \/ Fill
<1>1. CASE UNCHANGED engineVars
  BY <1>1 DEF engineVars, adapterVars
<1>2. ASSUME NEW id \in Ids, NEW o \in News, OnNew(id, o)
      PROVE \E r : r.type # "Trade" /\ babo' = <<r>>
  <2>1. PICK m : m.kind = "new" /\ babo' = Opening(m)
    BY <1>2 DEF OnNew
  <2>2. babo' = <<OrderAck(m)>> /\ OrderAck(m).type # "Trade"
    BY <2>1 DEF Opening, OrderAck, Report
  <2>3. QED BY <2>2
<1>3. ASSUME NEW id \in Ids, OnCancel(id)
      PROVE \E r : r.type # "Trade" /\ babo' = <<r>>
  <2> DEFINE ack == Report("CancelAck", id, tree[id] = "bids", order[id].price, 0)
             reject == Reject("CancelReject", id)
  <2>1. ack.type # "Trade" /\ reject.type # "Trade"
    BY DEF Report, Reject
  <2>2. babo' = <<ack>> \/ babo' = <<reject>>
    BY <1>3 DEF OnCancel
  <2> HIDE DEF ack, reject
  <2>3. QED BY <2>1, <2>2
<1>4. ASSUME NEW id \in Ids, NEW o \in Reorders, OnModify(id, o)
      PROVE babo' = <<>> \/ \E r : r.type # "Trade" /\ babo' = <<r>>
  <2> DEFINE reject == Reject("ModifyReject", id)
  <2>1. reject.type # "Trade"
    BY DEF Report, Reject
  <2>2. babo' = <<>> \/ babo' = <<reject>>
    BY <1>4 DEF OnModify
  <2> HIDE DEF reject
  <2>3. QED BY <2>1, <2>2
<1>5. CASE Reinsert
  BY <1>5 DEF Reinsert
<1>6. CASE Continues
  BY <1>6 DEF Continues, adapterVars
<1>7. CASE Answer
  <2> DEFINE ack == ModifyAck(message)
             rest == Report("CancelAck", message.id, message.buy, message.price,
                            message.qty - FilledBy(babo))
  <2>1. ack.type # "Trade" /\ rest.type # "Trade"
    BY DEF ModifyAck, Report
  <2>2. babo' = babo \/ babo' = babo \o Closing(message, babo)
    BY <1>7 DEF Answer
  <2>3. Closing(message, babo) \in {<<ack>>, <<rest>>, <<>>}
    BY DEF Closing, Residual
  <2> HIDE DEF ack, rest
  <2>4. QED BY <2>1, <2>2, <2>3
<1>8. QED BY <1>1, <1>2, <1>3, <1>4, <1>5, <1>6, <1>7 DEF EnginesNext

LEMMA ReportsStay ==
  ASSUME Reports, [EnginesNext]_engineVars
  PROVE Reports'
<1>1. PICK S : babo \in Seq(S)
  BY DEF Reports
<1>2. ASSUME NEW T, babo' \in Seq(T)
      PROVE Reports'
  BY <1>2 DEF Reports
<1>3. babo \o <<>> \in Seq(S) /\ <<>> \in Seq(S)
  BY <1>1
<1>4. CASE babo' \in {babo, <<>>, babo \o <<>>}
  <2>1. babo' \in Seq(S)
    BY <1>1, <1>3, <1>4
  <2>2. QED BY <1>2, <2>1
<1>5. ASSUME NEW r, babo' \in {<<r>>, babo \o <<r>>}
      PROVE Reports'
  <2>1. <<r>> \in Seq({r})
    OBVIOUS
  <2>2. PICK T : babo \o <<r>> \in Seq(T)
    BY <1>1, LastJoined
  <2>3. QED BY <1>2, <1>5, <2>1, <2>2
<1>6. CASE Fill
  <2>1. PICK r : babo' = Append(babo, r)
    BY <1>6 DEF Fill
  <2>2. PICK T : Append(babo, r) \in Seq(T)
    BY <1>1, LastAppended
  <2>3. QED BY <1>2, <2>1, <2>2
<1>7. ASSUME NEW r, r.type # "Trade" /\ babo' \in {<<r>>, babo \o <<r>>}
      PROVE Reports'
  BY <1>5, <1>7
<1>8. (\E r : r.type # "Trade" /\ babo' \in {<<r>>, babo \o <<r>>}) => Reports'
  BY <1>7
<1>9. QED BY <1>4, <1>6, <1>8, ReportStep

\* PricesExact, of one step.
PriceExact ==
  Len(babo') = Len(babo) + 1 /\ Last(babo').type = "Trade" =>
    LET r == Last(babo')
        limit == order[r.maker].price
    IN  r.price = limit <=> limit * r.qty < WordSize

LEMMA PriceStep ==
  ASSUME Reports, IInv, ResidentsOpen, [EnginesNext]_engineVars
  PROVE PriceExact
<1>1. PICK S : babo \in Seq(S)
  BY DEF Reports
<1>2. CASE babo' \in {babo, <<>>, babo \o <<>>}
  <2>1. Len(babo') # Len(babo) + 1
    BY <1>1, <1>2
  <2>2. QED BY <2>1 DEF PriceExact
<1>3. ASSUME NEW r, r.type # "Trade", babo' \in {<<r>>, babo \o <<r>>}
      PROVE PriceExact
  <2>1. Last(babo') = r
    <3>1. Last(<<r>>) = r
      BY DEF Last
    <3>2. QED BY <1>1, <1>3, <3>1, LastJoined
  <2>2. QED BY <1>3, <2>1 DEF PriceExact
<1>4. CASE Fill
  <2> DEFINE q == Smaller(Open(cur), Open(it))
             p == order[it].price
             r == FillReport(cur, it, p, q)
  <2>1. MatchTrade /\ babo' = Append(babo, r)
    BY <1>4 DEF Fill
  <2>2. p \in Nat /\ q \in Nat \ {0}
    BY <2>1, FillFacts
  <2>3. Last(babo') = r
    BY <1>1, <2>1, LastAppended
  <2> HIDE DEF p, q
  <2>4. r.maker = it /\ r.price = ((p * q) % WordSize) \div q /\ r.qty = q
    BY DEF FillReport, Report
  <2> HIDE DEF r
  <2>5. r.price = p <=> p * q < WordSize
    BY <2>2, <2>4, CostGivesPrice
  <2>6. QED BY <2>3, <2>4, <2>5 DEF PriceExact, p
<1>5. QED BY <1>2, <1>3, <1>4, ReportStep

\* A trade is reported at its maker's limit price exactly as long as its cost
\* fits in a word, for every word size, price and quantity.
THEOREM ReportedPrices == EnginesSpec => PricesExact
<1>1. EnginesInit => Reports
  <2>1. <<>> \in Seq({})
    OBVIOUS
  <2>2. QED BY <2>1 DEF EnginesInit, Reports
<1>2. Reports /\ [EnginesNext]_engineVars => Reports'
  BY ReportsStay
<1>3. /\ Reports /\ IInv /\ ResidentsOpen /\ [EnginesNext]_engineVars
      => [PriceExact]_engineVars
  BY PriceStep
<1>4. EnginesSpec => []IInv /\ []ResidentsOpen
  BY AdapterDrivesBook, AdapterKeepsLevels, Inductive
<1>5. QED BY <1>1, <1>2, <1>3, <1>4, PTL DEF EnginesSpec, PricesExact, PriceExact
=============================================================================
