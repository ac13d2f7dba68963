--------------------------- MODULE LiquiBookProofs ---------------------------
(***************************************************************************)
(* LiquiBook, for all orders, ids, replacements and sizes of the depth:    *)
(* its types; that the trackers and the order objects agree between calls  *)
(* (InStep); that an all-or-none order trades whole or not at all          *)
(* (AonWhole); that the depth is the aggregate of the trackers while no    *)
(* callback misinforms it (DepthExact); and that what a call changes of    *)
(* the visible levels is told by its end (NotifiesChange).                 *)
(*                                                                         *)
(* The invariant is IInv of LiquiBookInv.  LiquiBookSteps carries it       *)
(* through the matching.  Here come the operations of the depth, the run   *)
(* of the callbacks, along which the depth mirrors the order objects, but  *)
(* for the inbound order whose fills it ignores, and the theorems.         *)
(***************************************************************************)
EXTENDS LiquiBookSteps

-----------------------------------------------------------------------------
(* The depth: what an operation makes of the levels of a side.             *)

\* The levels but those of the price p.
Off(L, p) == {l \in L : l.price # p}

\* There is a first and a last visible level.
LEMMA SizeIs == Size \in Nat /\ Size # 0 /\ 1 \in 1 .. Size /\ Size \in 1 .. Size
BY SizeAssumption

\* What is shown of a level.
LEMMA SeenIs ==
  ASSUME NEW l
  PROVE  /\ Seen(l).price = l.price /\ Seen(l).count = l.count /\ Seen(l).qty = l.qty
         /\ \A k : Seen(k) = Seen(l) <=> k.price = l.price /\ k.count = l.count /\ k.qty = l.qty
BY DEF Seen

\* The order of the levels of a side.
LEMMA BetterIs ==
  ASSUME NEW s, NEW p \in Nat, NEW q \in Nat
  PROVE  /\ ~ (Better(s, p, q) /\ Better(s, q, p)) /\ (Better(s, p, q) => p # q)
         /\ p # q => Better(s, p, q) \/ Better(s, q, p)
         /\ \A r \in Nat : Better(s, p, q) /\ Better(s, q, r) => Better(s, p, r)
BY DEF Better

\* The first position with a property, as find_level looks for it.
LEMMA FirstIs ==
  ASSUME NEW v \in Visibles, NEW I \in SUBSET (1 .. Size), NEW n, n = IF I # {} THEN Min(I) ELSE 0
  PROVE  /\ I = {} => n = 0
         /\ I # {} => n \in I /\ \A j \in I : n <= j
<1>1. CASE I = {}
  BY <1>1
<1>2. CASE I # {}
  <2>1. I \in SUBSET Nat
    BY SizeIs
  <2>2. \E k \in I : \A j \in I : k <= j
    BY <2>1, <1>2, LeastOf
  <2>3. n = CHOOSE x \in I : \A y \in I : x <= y
    BY <1>2 DEF Min
  <2> QED BY <2>2, <2>3, <1>2
<1> QED BY <1>1, <1>2

\* The visible levels are a sequence.
LEMMA LenIs ==
  ASSUME NEW v \in Visibles
  PROVE  Len(v) = Size /\ v \in Seq(LevelType)
BY SizeIs DEF Visibles

\* find_level, among the visible levels: the level of the price, or none.
LEMMA PositionIs ==
  ASSUME NEW d, NEW s, d.visible[s] \in Visibles, NEW p, NEW n, n = PositionOf(d, s, p)
  PROVE  /\ n \in 0 .. Size
         /\ n # 0 => n \in 1 .. Size /\ d.visible[s][n].price = p
         /\ n = 0 => \A i \in 1 .. Size : d.visible[s][i].price # p
<1>1. PICK v : v = d.visible[s]
  OBVIOUS
<1>2. v \in Visibles /\ Len(v) = Size
  BY <1>1, LenIs
<1>3. PICK I : I = {i \in 1 .. Size : v[i].price = p}
  OBVIOUS
<1>4. n = IF I # {} THEN Min(I) ELSE 0
  BY <1>1, <1>2, <1>3 DEF PositionOf, SelectInSeq
<1>5. I \in SUBSET (1 .. Size)
  BY <1>3
<1>6. (I = {} => n = 0) /\ (I # {} => n \in I)
  BY <1>2, <1>4, <1>5, FirstIs
<1> QED BY <1>1, <1>3, <1>6, SizeIs

\* Where a level of the price p is, or belongs; 0 when all visible levels are better.
LEMMA PlaceIs ==
  ASSUME NEW d, NEW s, NEW v \in Visibles, v = d.visible[s], NEW p \in Nat, NEW n,
         n = PlaceFor(d, s, p)
  PROVE  /\ n \in 0 .. Size
         /\ n # 0 => n \in 1 .. Size /\ (v[n].price \in {p, 0} \/ Better(s, p, v[n].price))
         /\ \A i \in 1 .. Size : n = 0 \/ i < n => v[i].price # 0 /\ Better(s, v[i].price, p)
<1>2. Len(v) = Size
  BY LenIs
<1>3. PICK I : I = {i \in 1 .. Size : v[i].price \in {p, 0} \/ Better(s, p, v[i].price)}
  OBVIOUS
<1>4. n = IF I # {} THEN Min(I) ELSE 0
  BY <1>2, <1>3 DEF PlaceFor, SelectInSeq, InvalidPrice
<1>5. I \in SUBSET (1 .. Size)
  BY <1>3
<1>6. (I = {} => n = 0) /\ (I # {} => n \in I /\ \A j \in I : n <= j)
  BY <1>4, <1>5, FirstIs
<1>7. n \in 0 .. Size /\ (n # 0 => n \in I)
  <2>1. CASE I = {}
    BY <2>1, <1>6, SizeIs
  <2>2. CASE I # {}
    <3>1. n \in 1 .. Size
      BY <2>2, <1>5, <1>6
    <3> QED BY <2>2, <3>1, <1>6, SizeIs
  <2> QED BY <2>1, <2>2
<1>8. ASSUME NEW i \in 1 .. Size, n = 0 \/ i < n PROVE v[i].price # 0 /\ Better(s, v[i].price, p)
  <2>1. i \notin I
    BY <1>5, <1>6, <1>7, <1>8, SizeIs
  <2>2. v[i].price \in Nat
    BY DEF Visibles, LevelType
  <2> QED BY <2>1, <2>2, <1>3, BetterIs
<1> QED BY <1>3, <1>5, <1>7, <1>8

\* Levels of different prices, finitely many: one is the best.
LEMMA BestIs ==
  ASSUME NEW s, NEW e \in SUBSET LevelType, IsFiniteSet(e), e # {},
         \A k, l \in e : k.price = l.price => k = l, NEW b, b = BestOf(s, e)
  PROVE  b \in e /\ \A l \in e : l = b \/ Better(s, b.price, l.price)
<1>0. PICK n \in Nat : ExistsBijection(1 .. n, e)
  BY FS_CardinalityType
<1>1. PICK f \in Bijection(1 .. n, e) : TRUE
  BY <1>0 DEF ExistsBijection
<1>2. f \in [1 .. n -> e] /\ \A l \in e : \E i \in 1 .. n : f[i] = l
  BY <1>1 DEF Bijection, Surjection, Injection
<1> DEFINE S == {k \in 0 .. n : k = 0 \/ \E i \in 1 .. k : \A j \in 1 .. k :
                                           f[j] = f[i] \/ Better(s, f[i].price, f[j].price)}
<1>3. 0 \in S
  OBVIOUS
<1>4. ASSUME NEW k \in 1 .. n, k - 1 \in S PROVE k \in S
  <2>1. CASE k = 1
    <3>1. \A j \in 1 .. 1 : f[j] = f[1]
      OBVIOUS
    <3>2. 1 \in 1 .. 1 /\ 1 \in 0 .. n
      BY <2>1
    <3> QED BY <2>1, <3>1, <3>2
  <2>2. CASE k # 1
    <3>1. PICK i \in 1 .. (k - 1) : \A j \in 1 .. (k - 1) : f[j] = f[i] \/ Better(s, f[i].price, f[j].price)
      BY <1>4, <2>2
    <3>2. /\ f[i] \in e /\ f[k] \in e /\ f[i].price \in Nat /\ f[k].price \in Nat
          /\ \A j \in 1 .. (k - 1) : f[j].price \in Nat
      BY <1>2 DEF LevelType
    <3>3. k \in 0 .. n /\ i \in 1 .. k /\ k \in 1 .. k
      OBVIOUS
    <3>4. \A j \in 1 .. k : j = k \/ j \in 1 .. (k - 1)
      OBVIOUS
    <3>5. CASE f[k] = f[i] \/ Better(s, f[i].price, f[k].price)
      <4>1. \A j \in 1 .. k : f[j] = f[i] \/ Better(s, f[i].price, f[j].price)
        BY <3>1, <3>4, <3>5
      <4> HIDE DEF Better
      <4> QED BY <4>1, <3>3
    <3>6. CASE ~ (f[k] = f[i] \/ Better(s, f[i].price, f[k].price))
      <4>1. Better(s, f[k].price, f[i].price)
        BY <3>2, <3>6, BetterIs
      <4>2. \A j \in 1 .. (k - 1) : Better(s, f[k].price, f[j].price)
        BY <4>1, <3>1, <3>2, BetterIs
      <4>3. \A j \in 1 .. k : f[j] = f[k] \/ Better(s, f[k].price, f[j].price)
        BY <4>2, <3>4
      <4> QED BY <4>3, <3>3
    <3> QED BY <3>5, <3>6
  <2> QED BY <2>1, <2>2
<1>5. n \in S
  <2> HIDE DEF S
  <2>1. n \in 0 .. n
    OBVIOUS
  <2> QED BY <1>3, <1>4, <2>1, Induct
<1>6. n # 0
  BY <1>2
<1>7. PICK i \in 1 .. n : \A j \in 1 .. n : f[j] = f[i] \/ Better(s, f[i].price, f[j].price)
  BY <1>5, <1>6
<1>8. f[i] \in e /\ \A l \in e : l = f[i] \/ Better(s, f[i].price, l.price)
  BY <1>2, <1>7
<1>9. b = CHOOSE l \in e : \A m \in e : m = l \/ Better(s, l.price, m.price)
  BY DEF BestOf
<1> QED BY <1>8, <1>9

PutAt(v, i, l) == [v EXCEPT ![i] = l]

\* One level is given another content, at the same price.
LEMMA Refilled ==
  ASSUME NEW s, NEW v, NEW e, SideOK(s, v, e), NEW i \in 1 .. Size, NEW l \in LevelType,
         l.price = v[i].price, l.price = 0 => l.count = 0
  PROVE  /\ SideOK(s, PutAt(v, i, l), e) /\ PutAt(v, i, l)[i] = l /\ \A j \in 1 .. Size : j # i => PutAt(v, i, l)[j] = v[j]
         /\ l.price # 0 => Listing(PutAt(v, i, l), e) = Off(Listing(v, e), l.price) \union {Seen(l)}
<1>0a. PICK w : w = PutAt(v, i, l)
  OBVIOUS
<1>1. /\ s \in Sides /\ v \in Visibles /\ e \in SUBSET LevelType /\ Ordered(s, v, e)
  BY DEF SideOK
<1>2. w \in Visibles /\ w[i] = l /\ \A j \in 1 .. Size : j # i => w[j] = v[j]
  BY <1>0a, <1>1 DEF Visibles, PutAt
<1>3. \A j \in 1 .. Size : w[j].price = v[j].price
  BY <1>2
<1>4. Ordered(s, w, e)
  BY <1>1, <1>2, <1>3 DEF Ordered
<1>5. ASSUME l.price # 0 PROVE Listing(w, e) = Off(Listing(v, e), l.price) \union {Seen(l)}
  <2>1. \A j \in 1 .. Size : j # i /\ v[j].price # 0 => v[j].price # l.price
    <3> TAKE j \in 1 .. Size
    <3> HAVE j # i /\ v[j].price # 0
    <3>1. j < i \/ i < j
      BY SizeIs
    <3>2. v[i].price \in Nat /\ v[j].price \in Nat
      BY <1>1 DEF Visibles, LevelType
    <3>3. Better(s, v[i].price, v[j].price) \/ Better(s, v[j].price, v[i].price)
      BY <3>1, <1>1, <1>5 DEF Ordered
    <3> QED BY <3>2, <3>3, BetterIs
  <2>2. \A k \in e : k.price # l.price
    <3> TAKE k \in e
    <3>1. Better(s, v[i].price, k.price) /\ v[i].price \in Nat /\ k.price \in Nat
      BY <1>1 DEF Ordered, Visibles, LevelType
    <3> QED BY <3>1, BetterIs
  <2>3. ASSUME NEW x \in Listing(w, e) PROVE x \in Off(Listing(v, e), l.price) \union {Seen(l)}
    <3>1. CASE x = Seen(l)
      BY <3>1
    <3>2. CASE \E j \in 1 .. Size : j # i /\ v[j].price # 0 /\ x = Seen(v[j])
      BY <3>2, <2>1, SeenIs DEF Listing, Off
    <3>3. CASE \E k \in e : x = Seen(k)
      BY <3>3, <2>2, SeenIs DEF Listing, Off
    <3>4. (\E j \in 1 .. Size : w[j].price # 0 /\ x = Seen(w[j])) \/ \E k \in e : x = Seen(k)
      BY DEF Listing
    <3> QED BY <3>1, <3>2, <3>3, <3>4, <1>2
  <2>4. ASSUME NEW x \in Off(Listing(v, e), l.price) PROVE x \in Listing(w, e)
    <3>1. x.price # l.price
      BY DEF Off
    <3>2. (\E j \in 1 .. Size : v[j].price # 0 /\ x = Seen(v[j])) \/ \E k \in e : x = Seen(k)
      BY DEF Off, Listing
    <3>3. CASE \E j \in 1 .. Size : v[j].price # 0 /\ x = Seen(v[j])
      <4>1. PICK j \in 1 .. Size : v[j].price # 0 /\ x = Seen(v[j])
        BY <3>3
      <4>2. j # i
        BY <4>1, <3>1, SeenIs
      <4> QED BY <4>1, <4>2, <1>2 DEF Listing
    <3> QED BY <3>2, <3>3 DEF Listing
  <2>5. Seen(l) \in Listing(w, e)
    BY <1>2, <1>5 DEF Listing
  <2> QED BY <2>3, <2>4, <2>5
<1> QED BY <1>0a, <1>1, <1>2, <1>4, <1>5 DEF SideOK

\* Nothing has the price of a level that is not there.
LEMMA Absent ==
  ASSUME NEW v, NEW e, NEW p, p # 0, \A i \in 1 .. Size : v[i].price # p, \A k \in e : k.price # p
  PROVE  Off(Listing(v, e), p) = Listing(v, e) /\ \A x \in Listing(v, e) : x.price # p
<1>1. ASSUME NEW x \in Listing(v, e) PROVE x.price # p
  <2>1. (\E j \in 1 .. Size : v[j].price # 0 /\ x = Seen(v[j])) \/ \E k \in e : x = Seen(k)
    BY DEF Listing
  <2> QED BY <2>1, SeenIs
<1> QED BY <1>1 DEF Off

\* A level of the excess is given another content, or is new there.
LEMMA Stored ==
  ASSUME NEW s, NEW v, NEW e, SideOK(s, v, e), NEW l \in LevelType, l.price # 0,
         \A i \in 1 .. Size : v[i].price # 0 /\ Better(s, v[i].price, l.price),
         NEW f, f = (e \ {k \in e : k.price = l.price}) \union {l}
  PROVE  SideOK(s, v, f) /\ Listing(v, f) = Off(Listing(v, e), l.price) \union {Seen(l)}
<1>1. s \in Sides /\ v \in Visibles /\ e \in SUBSET LevelType /\ Ordered(s, v, e)
  BY DEF SideOK
<1>2. f \in SUBSET LevelType /\ IsFiniteSet(f)
  <2>1. IsFiniteSet(e)
    BY <1>1 DEF Ordered
  <2>2. PICK g : g = e \ {k \in e : k.price = l.price}
    OBVIOUS
  <2>3. g \in SUBSET e
    BY <2>2
  <2>4. IsFiniteSet(g)
    BY <2>1, <2>3, FS_Subset
  <2>5. IsFiniteSet(g \union {l})
    BY <2>4, FS_AddElement
  <2> QED BY <2>2, <2>5, <1>1
<1>3. \A k \in f : k = l \/ (k \in e /\ k.price # l.price)
  OBVIOUS
<1>4. Ordered(s, v, f)
  <2>1. \A k \in f : k.price # 0 /\ \A i \in 1 .. Size : v[i].price # 0 /\ Better(s, v[i].price, k.price)
    BY <1>1, <1>3 DEF Ordered
  <2>2. \A k, m \in f : k.price = m.price => k = m
    BY <1>1, <1>3 DEF Ordered
  <2> QED BY <1>1, <1>2, <2>1, <2>2 DEF Ordered
<1>5. \A i \in 1 .. Size : v[i].price # l.price
  <2> TAKE i \in 1 .. Size
  <2>1. v[i].price \in Nat /\ l.price \in Nat
    BY <1>1 DEF Visibles, LevelType
  <2> QED BY <2>1, BetterIs
<1>6. ASSUME NEW x \in Listing(v, f) PROVE x \in Off(Listing(v, e), l.price) \union {Seen(l)}
  <2>1. (\E j \in 1 .. Size : v[j].price # 0 /\ x = Seen(v[j])) \/ \E k \in f : x = Seen(k)
    BY DEF Listing
  <2>2. CASE \E j \in 1 .. Size : v[j].price # 0 /\ x = Seen(v[j])
    BY <2>2, <1>5, SeenIs DEF Listing, Off
  <2>3. CASE \E k \in f : x = Seen(k)
    BY <2>3, <1>3, SeenIs DEF Listing, Off
  <2> QED BY <2>1, <2>2, <2>3
<1>7. ASSUME NEW x \in Off(Listing(v, e), l.price) PROVE x \in Listing(v, f)
  <2>1. x.price # l.price
    BY DEF Off
  <2>2. (\E j \in 1 .. Size : v[j].price # 0 /\ x = Seen(v[j])) \/ \E k \in e : x = Seen(k)
    BY DEF Off, Listing
  <2>3. CASE \E k \in e : x = Seen(k)
    <3>1. PICK k \in e : x = Seen(k)
      BY <2>3
    <3>2. k \in f
      BY <3>1, <2>1, SeenIs
    <3> QED BY <3>1, <3>2 DEF Listing
  <2> QED BY <2>2, <2>3 DEF Listing
<1>8. Seen(l) \in Listing(v, f)
  BY DEF Listing
<1> QED BY <1>1, <1>2, <1>4, <1>6, <1>7, <1>8 DEF SideOK

\* A level leaves the excess.
LEMMA Dropped ==
  ASSUME NEW s, NEW v, NEW e, SideOK(s, v, e), NEW p, p # 0,
         \A i \in 1 .. Size : v[i].price # p, NEW f, f = e \ {k \in e : k.price = p}
  PROVE  SideOK(s, v, f) /\ Listing(v, f) = Off(Listing(v, e), p)
<1>1. s \in Sides /\ v \in Visibles /\ e \in SUBSET LevelType /\ Ordered(s, v, e)
  BY DEF SideOK
<1>2. f \in SUBSET LevelType /\ IsFiniteSet(f)
  <2>1. IsFiniteSet(e) /\ f \in SUBSET e
    BY <1>1 DEF Ordered
  <2> QED BY <2>1, <1>1, FS_Subset
<1>3. Ordered(s, v, f)
  BY <1>1, <1>2 DEF Ordered
<1>4. ASSUME NEW x PROVE x \in Listing(v, f) <=> x \in Off(Listing(v, e), p)
  <2>1. x \in Listing(v, f) <=> \/ \E j \in 1 .. Size : v[j].price # 0 /\ x = Seen(v[j])
                                \/ \E k \in f : x = Seen(k)
    BY DEF Listing
  <2>2. x \in Off(Listing(v, e), p) <=>
          /\ x.price # p
          /\ (\E j \in 1 .. Size : v[j].price # 0 /\ x = Seen(v[j])) \/ \E k \in e : x = Seen(k)
    BY DEF Listing, Off
  <2>3. \A k : k \in f <=> k \in e /\ k.price # p
    OBVIOUS
  <2> QED BY <2>1, <2>2, <2>3, SeenIs
<1> QED BY <1>1, <1>2, <1>3, <1>4 DEF SideOK

\* insert_level_before on one side: i is the place of the price p, and what no
\* longer fits joins the excess.
Inserted1(v, i, p) == [j \in 1 .. Size |-> CASE j < i -> v[j]
                                             [] j = i -> Level(p)
                                             [] j > i -> Touched(v[j - 1])]
Spilt(v) == IF v[Size].price = 0 THEN {} ELSE {v[Size]}

\* A level that moves down shows the same.
LEMMA TouchedIs ==
  ASSUME NEW l \in LevelType
  PROVE  /\ Touched(l) \in LevelType /\ Seen(Touched(l)) = Seen(l)
         /\ Touched(l).price = l.price /\ Touched(l).count = l.count /\ Touched(l).qty = l.qty
<1>1. PICK b \in BOOLEAN : b = (l.fresh \/ l.price # InvalidPrice)
  OBVIOUS
<1>2. Touched(l) = [l EXCEPT !.fresh = b]
  BY <1>1 DEF Touched, LevelType
<1>3. /\ Touched(l) \in LevelType
      /\ Touched(l).price = l.price /\ Touched(l).count = l.count /\ Touched(l).qty = l.qty
  BY <1>2 DEF LevelType
<1> QED BY <1>3, SeenIs

\* A new level.
LEMMA LevelIs ==
  ASSUME NEW p \in Nat
  PROVE  /\ Level(p) \in LevelType /\ Level(p).price = p /\ Level(p).count = 0
         /\ Level(p).qty = 0 /\ Level(p).fresh
BY DEF Level, LevelType

\* The levels before i are better than the price p.
Behind(s, v, i, p) == \A j \in 1 .. Size : j < i => v[j].price # 0 /\ Better(s, v[j].price, p)

\* The levels once one of the price p is inserted at i.
InsertedOK(s, v, e, i, p) ==
  /\ SideOK(s, Inserted1(v, i, p), e \union Spilt(v)) /\ Inserted1(v, i, p)[i] = Level(p)
  /\ \A j \in 1 .. Size : j < i => Inserted1(v, i, p)[j] = v[j]
  /\ Listing(Inserted1(v, i, p), e \union Spilt(v)) = Listing(v, e) \union {Seen(Level(p))}
  /\ \A j \in 1 .. Size : v[j].price # p
  /\ \A k \in e : k.price # p

\* insert_level_before: the levels behind move down, the last one to the excess.
LEMMA SpillIs ==
  ASSUME NEW s, NEW v, NEW e, SideOK(s, v, e), NEW p \in Nat, p # 0, NEW i \in 1 .. Size,
         v[i].price # 0, Better(s, p, v[i].price),
         Behind(s, v, i, p)
  PROVE  InsertedOK(s, v, e, i, p)
<1>0. \A j \in 1 .. Size : j < i => v[j].price # 0 /\ Better(s, v[j].price, p)
  BY DEF Behind
<1>0a. PICK w : w = Inserted1(v, i, p)
  OBVIOUS
<1>0b. PICK f : f = e \union Spilt(v)
  OBVIOUS
<1>1. s \in Sides /\ v \in Visibles /\ e \in SUBSET LevelType /\ Ordered(s, v, e)
  BY DEF SideOK
<1>2. \A j \in 1 .. Size : v[j] \in LevelType /\ v[j].price \in Nat
  BY <1>1 DEF Visibles, LevelType
<1>3. /\ w[i] = Level(p) /\ \A j \in 1 .. Size : j < i => w[j] = v[j]
      /\ \A j \in 1 .. Size : j > i => w[j] = Touched(v[j - 1])
      /\ w = [j \in 1 .. Size |-> w[j]]
  BY <1>0a DEF Inserted1
<1>4. \A j \in 1 .. Size : j > i => j - 1 \in 1 .. Size /\ j - 1 >= i
  BY SizeIs
<1>5. w \in Visibles
  <2>1. \A j \in 1 .. Size : w[j] \in LevelType
    BY <1>2, <1>3, <1>4, TouchedIs, LevelIs
  <2> QED BY <2>1, <1>3 DEF Visibles
<1>6. \A a, b \in 1 .. Size : a < b /\ v[b].price # 0 => v[a].price # 0 /\ Better(s, v[a].price, v[b].price)
  BY <1>1 DEF Ordered
<1>7. \A l \in e : /\ l.price # 0 /\ l.price \in Nat /\ l \in LevelType
                   /\ \A j \in 1 .. Size : v[j].price # 0 /\ Better(s, v[j].price, l.price)
  BY <1>1 DEF Ordered, LevelType
\* The price p is better than everything from i on.
<1>8. \A b \in 1 .. Size : b >= i /\ v[b].price # 0 => Better(s, p, v[b].price)
  <2> TAKE b \in 1 .. Size
  <2> HAVE b >= i /\ v[b].price # 0
  <2>1. CASE b = i
    BY <2>1
  <2>2. CASE b # i
    <3>1. Better(s, v[i].price, v[b].price)
      BY <2>2, <1>6, SizeIs
    <3> QED BY <3>1, <1>2, BetterIs
  <2> QED BY <2>1, <2>2
<1>9. \A l \in e : Better(s, p, l.price)
  <2> TAKE l \in e
  <2>1. Better(s, v[i].price, l.price)
    BY <1>7
  <2> QED BY <2>1, <1>2, <1>7, BetterIs
<1>10. \A j \in 1 .. Size : v[j].price # p
  <2> TAKE j \in 1 .. Size
  <2>1. j < i \/ j >= i
    BY SizeIs
  <2> QED BY <2>1, <1>0, <1>2, <1>8, BetterIs
<1>11. \A k \in e : k.price # p
  BY <1>7, <1>9, BetterIs
<1>12. \A j \in 1 .. Size : w[j].price = IF j < i THEN v[j].price ELSE IF j = i THEN p ELSE v[j - 1].price
  <2> TAKE j \in 1 .. Size
  <2>1. j < i \/ j = i \/ j > i
    BY SizeIs
  <2>2. CASE j > i
    BY <2>2, <1>2, <1>3, <1>4, TouchedIs
  <2> QED BY <2>1, <2>2, <1>3, LevelIs
<1>13. ASSUME NEW a \in 1 .. Size, NEW b \in 1 .. Size, a < b, w[b].price # 0
       PROVE  w[a].price # 0 /\ Better(s, w[a].price, w[b].price)
  <2>1. CASE b < i
    <3>1. a < i
      BY <2>1, <1>13, SizeIs
    <3> QED BY <2>1, <3>1, <1>6, <1>12, <1>13
  <2>2. CASE b = i
    <3>1. a < i /\ ~ (b < i)
      BY <2>2, <1>13, SizeIs
    <3> QED BY <2>2, <3>1, <1>0, <1>12
  <2>3. CASE b > i
    <3>1. b - 1 \in 1 .. Size /\ b - 1 >= i /\ w[b].price = v[b - 1].price
      BY <2>3, <1>4, <1>12, SizeIs
    <3>2. CASE a < i
      <4>1. a < b - 1 /\ w[a].price = v[a].price
        BY <3>1, <3>2, <1>12, SizeIs
      <4> QED BY <3>1, <4>1, <1>6, <1>13
    <3>3. CASE a = i
      <4>1. w[a].price = p
        BY <3>3, <1>12, SizeIs
      <4> QED BY <3>1, <4>1, <1>8, <1>13
    <3>4. CASE a > i
      <4>1. a - 1 \in 1 .. Size /\ a - 1 < b - 1 /\ w[a].price = v[a - 1].price
        BY <3>4, <1>4, <1>12, <1>13, SizeIs
      <4> QED BY <3>1, <4>1, <1>6, <1>13
    <3>5. a < i \/ a = i \/ a > i
      BY SizeIs
    <3> QED BY <3>2, <3>3, <3>4, <3>5
  <2>4. b < i \/ b = i \/ b > i
    BY SizeIs
  <2> QED BY <2>1, <2>2, <2>3, <2>4
<1>14. \A l \in f : l \in e \/ (v[Size].price # 0 /\ l = v[Size])
  BY <1>0b DEF Spilt
<1>15. ASSUME NEW l \in f, NEW j \in 1 .. Size
       PROVE  l.price # 0 /\ w[j].price # 0 /\ Better(s, w[j].price, l.price)
  <2>1. CASE l \in e
    <3>1. j > i => v[j - 1].price # 0 /\ Better(s, v[j - 1].price, l.price)
      BY <2>1, <1>4, <1>7
    <3>2. j < i \/ j = i \/ j > i
      BY SizeIs
    <3> QED BY <2>1, <3>1, <3>2, <1>7, <1>9, <1>12
  <2>2. CASE v[Size].price # 0 /\ l = v[Size]
    <3>1. CASE j < i
      <4>1. j < Size
        BY <3>1, SizeIs
      <4> QED BY <2>2, <3>1, <4>1, <1>6, <1>12, SizeIs
    <3>2. CASE j = i
      <4>1. Better(s, p, v[Size].price) /\ w[j].price = p
        BY <2>2, <3>2, <1>8, <1>12, SizeIs
      <4> QED BY <2>2, <4>1
    <3>3. CASE j > i
      <4>1. j - 1 \in 1 .. Size /\ j - 1 < Size /\ w[j].price = v[j - 1].price
        BY <3>3, <1>4, <1>12, SizeIs
      <4> QED BY <2>2, <4>1, <1>6, SizeIs
    <3>4. j < i \/ j = i \/ j > i
      BY SizeIs
    <3> QED BY <3>1, <3>2, <3>3, <3>4
  <2> QED BY <2>1, <2>2, <1>14
<1>16. ASSUME NEW k \in f, NEW l \in f, k.price = l.price PROVE k = l
  <2>1. \A m \in e : m.price # v[Size].price
    BY <1>2, <1>7, BetterIs, SizeIs
  <2>2. \A a, b \in e : a.price = b.price => a = b
    BY <1>1 DEF Ordered
  <2> QED BY <2>1, <2>2, <1>14, <1>16
<1>17. \A j \in 1 .. Size : w[j].price = 0 => w[j].count = 0
  <2> TAKE j \in 1 .. Size
  <2> HAVE w[j].price = 0
  <2>0. \A a \in 1 .. Size : v[a].price = 0 => v[a].count = 0
    BY <1>1 DEF Ordered
  <2>1. CASE j > i
    <3>1. j - 1 \in 1 .. Size /\ w[j] = Touched(v[j - 1])
      BY <2>1, <1>3, <1>4
    <3> QED BY <3>1, <2>0, <1>2, TouchedIs
  <2>2. j < i \/ j = i \/ j > i
    BY SizeIs
  <2> QED BY <2>0, <2>1, <2>2, <1>3, LevelIs
<1>18. IsFiniteSet(f) /\ f \in SUBSET LevelType
  <2>1. IsFiniteSet(e)
    BY <1>1 DEF Ordered
  <2>2. IsFiniteSet(e \union {v[Size]})
    BY <2>1, FS_AddElement
  <2>3. f = e \/ f = e \union {v[Size]}
    BY <1>0b DEF Spilt
  <2> QED BY <2>1, <2>2, <2>3, <1>1, <1>2, SizeIs
<1>19. SideOK(s, w, f)
  <2>1. Ordered(s, w, f)
    BY <1>13, <1>15, <1>16, <1>17, <1>18 DEF Ordered
  <2> QED BY <2>1, <1>1, <1>5, <1>18 DEF SideOK
<1>20. ASSUME NEW x \in Listing(w, f) PROVE x \in Listing(v, e) \union {Seen(Level(p))}
  <2>1. (\E j \in 1 .. Size : w[j].price # 0 /\ x = Seen(w[j])) \/ \E k \in f : x = Seen(k)
    BY DEF Listing
  <2>2. CASE \E k \in f : x = Seen(k)
    BY <2>2, <1>14, SizeIs DEF Listing
  <2>3. CASE \E j \in 1 .. Size : w[j].price # 0 /\ x = Seen(w[j])
    <3>1. PICK j \in 1 .. Size : w[j].price # 0 /\ x = Seen(w[j])
      BY <2>3
    <3>2. CASE j < i
      BY <3>1, <3>2, <1>3 DEF Listing
    <3>3. CASE j = i
      BY <3>1, <3>3, <1>3
    <3>4. CASE j > i
      <4>1. j - 1 \in 1 .. Size /\ w[j] = Touched(v[j - 1])
        BY <3>4, <1>3, <1>4
      <4>2. v[j - 1].price # 0 /\ x = Seen(v[j - 1])
        BY <3>1, <4>1, <1>2, TouchedIs
      <4> QED BY <4>1, <4>2 DEF Listing
    <3>5. j < i \/ j = i \/ j > i
      BY SizeIs
    <3> QED BY <3>2, <3>3, <3>4, <3>5
  <2> QED BY <2>1, <2>2, <2>3
<1>21. ASSUME NEW x \in Listing(v, e) PROVE x \in Listing(w, f)
  <2>1. (\E j \in 1 .. Size : v[j].price # 0 /\ x = Seen(v[j])) \/ \E k \in e : x = Seen(k)
    BY DEF Listing
  <2>2. CASE \E k \in e : x = Seen(k)
    BY <2>2, <1>0b DEF Listing
  <2>3. CASE \E j \in 1 .. Size : v[j].price # 0 /\ x = Seen(v[j])
    <3>1. PICK j \in 1 .. Size : v[j].price # 0 /\ x = Seen(v[j])
      BY <2>3
    <3>2. CASE j < i
      BY <3>1, <3>2, <1>3 DEF Listing
    <3>3. CASE j >= i /\ j # Size
      <4>1. j + 1 \in 1 .. Size /\ j + 1 > i /\ (j + 1) - 1 = j
        BY <3>3, SizeIs
      <4>2. w[j + 1] = Touched(v[j])
        BY <4>1, <1>3
      <4>3. w[j + 1].price # 0 /\ x = Seen(w[j + 1])
        BY <4>2, <3>1, <1>2, TouchedIs
      <4> QED BY <4>1, <4>3 DEF Listing
    <3>4. CASE j = Size
      <4>1. v[Size] \in f
        BY <3>1, <3>4, <1>0b DEF Spilt
      <4> QED BY <3>1, <3>4, <4>1 DEF Listing
    <3>5. j < i \/ (j >= i /\ j # Size) \/ j = Size
      BY SizeIs
    <3> QED BY <3>2, <3>3, <3>4, <3>5
  <2> QED BY <2>1, <2>2, <2>3
<1>22. Seen(Level(p)) \in Listing(w, f)
  <2>1. w[i].price # 0
    BY <1>3, LevelIs
  <2> QED BY <2>1, <1>3 DEF Listing
<1> QED BY <1>0a, <1>0b, <1>3, <1>10, <1>11, <1>19, <1>20, <1>21, <1>22 DEF InsertedOK

\* erase_level on one side: the levels behind i move up, and the best of the
\* excess becomes the last one.
Erased(s, v, e, i, w, f, b) ==
  /\ \A j \in 1 .. Size : j < i => w[j] = v[j]
  /\ \A j \in 1 .. Size : i <= j /\ j < Size =>
       /\ w[j].price = v[j + 1].price /\ w[j].count = v[j + 1].count
       /\ v[j + 1].price # 0 => w[j].qty = v[j + 1].qty
  /\ e = {} => f = {} /\ w[Size].price = 0 /\ w[Size].count = 0
  /\ e # {} => /\ b \in e /\ (\A l \in e : l = b \/ Better(s, b.price, l.price))
               /\ f = e \ {b} /\ Seen(w[Size]) = Seen(b)

\* erase_level: the levels behind move up, the best of the excess to the last place.
LEMMA EraseIs ==
  ASSUME NEW s, NEW v, NEW e, SideOK(s, v, e), NEW i \in 1 .. Size, NEW p, p = v[i].price, p # 0,
         NEW w \in Visibles, NEW f, NEW b, Erased(s, v, e, i, w, f, b)
  PROVE  SideOK(s, w, f) /\ Listing(w, f) = Off(Listing(v, e), p)
<1>01. \A j \in 1 .. Size : j < i => w[j] = v[j]
  BY DEF Erased
<1>02. \A j \in 1 .. Size : i <= j /\ j < Size =>
         /\ w[j].price = v[j + 1].price /\ w[j].count = v[j + 1].count
         /\ v[j + 1].price # 0 => w[j].qty = v[j + 1].qty
  BY DEF Erased
<1>03. e = {} => f = {} /\ w[Size].price = 0 /\ w[Size].count = 0
  BY DEF Erased
<1>04. e # {} => /\ b \in e /\ (\A l \in e : l = b \/ Better(s, b.price, l.price))
                 /\ f = e \ {b} /\ Seen(w[Size]) = Seen(b)
  BY DEF Erased
<1> USE <1>01, <1>02, <1>03, <1>04
<1>1. s \in Sides /\ v \in Visibles /\ e \in SUBSET LevelType /\ Ordered(s, v, e)
  BY DEF SideOK
<1>2. \A j \in 1 .. Size : v[j].price \in Nat /\ w[j].price \in Nat
  BY <1>1 DEF Visibles, LevelType
<1>3. \A a, c \in 1 .. Size : a < c /\ v[c].price # 0 => v[a].price # 0 /\ Better(s, v[a].price, v[c].price)
  BY <1>1 DEF Ordered
<1>4. \A l \in e : /\ l.price # 0 /\ l.price \in Nat /\ l \in LevelType
                   /\ \A j \in 1 .. Size : v[j].price # 0 /\ Better(s, v[j].price, l.price)
  BY <1>1 DEF Ordered, LevelType
<1>5. \A j \in 1 .. Size : \/ j < i
                           \/ j + 1 \in 1 .. Size /\ i <= j /\ j < Size /\ j < j + 1 /\ i < j + 1
                           \/ j = Size
  BY SizeIs
<1>6. e # {} => w[Size].price = b.price /\ w[Size].count = b.count /\ w[Size].qty = b.qty
  BY SeenIs
<1>7. f \in SUBSET e
  OBVIOUS
\* Everything that is still shown is from a level behind the others' one.
<1>8. ASSUME NEW a \in 1 .. Size, NEW c \in 1 .. Size, a < c, w[c].price # 0
      PROVE  w[a].price # 0 /\ Better(s, w[a].price, w[c].price)
  <2>1. a < Size
    BY <1>8, SizeIs
  <2>2. PICK a1 \in 1 .. Size : w[a].price = v[a1].price /\ (a1 = a \/ a1 = a + 1) /\ (a1 = a => a < i)
                               /\ (a1 = a + 1 => i <= a)
    BY <2>1, <1>5, SizeIs
  <2>3. CASE c < Size \/ c < i
    <3>1. PICK c1 \in 1 .. Size : w[c].price = v[c1].price /\ (c1 = c \/ c1 = c + 1)
                                 /\ (c1 = c => c < i)
      BY <2>3, <1>5, SizeIs
    <3>2. a1 < c1
      BY <2>2, <3>1, <1>8, SizeIs
    <3> QED BY <2>2, <3>1, <3>2, <1>3, <1>8
  <2>4. CASE c = Size /\ ~ (c < i)
    <3>1. e # {}
      BY <2>4, <1>8
    <3>2. b \in e /\ w[c].price = b.price
      BY <3>1, <2>4, <1>6
    <3>3. v[a1].price # 0 /\ Better(s, v[a1].price, b.price)
      BY <3>2, <1>4
    <3> QED BY <2>2, <3>2, <3>3
  <2>5. (c < Size \/ c < i) \/ (c = Size /\ ~ (c < i))
    BY SizeIs
  <2> QED BY <2>3, <2>4, <2>5
<1>9. ASSUME NEW l \in f, NEW j \in 1 .. Size
      PROVE  l.price # 0 /\ w[j].price # 0 /\ Better(s, w[j].price, l.price)
  <2>1. l \in e /\ e # {} /\ b \in e /\ f = e \ {b}
    BY <1>7
  <2>2. l # b /\ Better(s, b.price, l.price)
    BY <2>1
  <2>3. CASE j = Size
    BY <2>1, <2>2, <2>3, <1>4, <1>6
  <2>4. CASE j # Size
    <3>1. PICK a1 \in 1 .. Size : w[j].price = v[a1].price
      BY <2>4, <1>5
    <3> QED BY <2>1, <3>1, <1>4
  <2> QED BY <2>3, <2>4
<1>10. \A k, l \in f : k.price = l.price => k = l
  <2>1. \A k, l \in e : k.price = l.price => k = l
    BY <1>1 DEF Ordered
  <2> QED BY <2>1, <1>7
<1>11. ASSUME NEW j \in 1 .. Size, w[j].price = 0 PROVE w[j].count = 0
  <2>0. \A a \in 1 .. Size : v[a].price = 0 => v[a].count = 0
    BY <1>1 DEF Ordered
  <2>1. CASE j = Size /\ ~ (j < i)
    <3>1. e = {}
      BY <2>1, <1>4, <1>6, <1>11
    <3> QED BY <2>1, <3>1
  <2>2. CASE j # Size \/ j < i
    BY <2>0, <2>2, <1>5, <1>11
  <2> QED BY <2>1, <2>2
<1>12. IsFiniteSet(f)
  <2>1. IsFiniteSet(e)
    BY <1>1 DEF Ordered
  <2> QED BY <2>1, <1>7, FS_Subset
<1>13. SideOK(s, w, f)
  <2>1. Ordered(s, w, f)
    BY <1>8, <1>9, <1>10, <1>11, <1>12 DEF Ordered
  <2> QED BY <2>1, <1>1, <1>7 DEF SideOK
<1>14. \A j \in 1 .. Size : j # i => v[j].price # p
  <2> TAKE j \in 1 .. Size
  <2> HAVE j # i
  <2>1. CASE j < i
    <3>1. Better(s, v[j].price, v[i].price)
      BY <2>1, <1>3
    <3> QED BY <3>1, <1>2, BetterIs
  <2>2. CASE i < j
    <3>1. v[j].price = 0 \/ Better(s, v[i].price, v[j].price)
      BY <2>2, <1>3
    <3> QED BY <3>1, <1>2, BetterIs
  <2>3. j < i \/ i < j
    BY SizeIs
  <2> QED BY <2>1, <2>2, <2>3
<1>15. \A l \in e : l.price # p
  <2> TAKE l \in e
  <2>1. Better(s, v[i].price, l.price)
    BY <1>4
  <2> QED BY <2>1, <1>2, <1>4, BetterIs
<1>16. ASSUME NEW x \in Listing(w, f) PROVE x \in Off(Listing(v, e), p)
  <2>1. (\E j \in 1 .. Size : w[j].price # 0 /\ x = Seen(w[j])) \/ \E k \in f : x = Seen(k)
    BY DEF Listing
  <2>2. CASE \E k \in f : x = Seen(k)
    BY <2>2, <1>7, <1>15, SeenIs DEF Listing, Off
  <2>3. CASE \E j \in 1 .. Size : w[j].price # 0 /\ x = Seen(w[j])
    <3>1. PICK j \in 1 .. Size : w[j].price # 0 /\ x = Seen(w[j])
      BY <2>3
    <3>2. CASE j < i
      BY <3>1, <3>2, <1>14, SeenIs DEF Listing, Off
    <3>3. CASE j + 1 \in 1 .. Size /\ i <= j /\ j < Size /\ j < j + 1 /\ i < j + 1
      <4>1. v[j + 1].price # 0 /\ x = Seen(v[j + 1]) /\ v[j + 1].price # p
        BY <3>1, <3>3, <1>14, SeenIs
      <4> QED BY <3>3, <4>1, SeenIs DEF Listing, Off
    <3>4. CASE j = Size /\ ~ (j < i)
      <4>1. b \in e /\ x = Seen(b)
        BY <3>1, <3>4
      <4> QED BY <4>1, <1>15, SeenIs DEF Listing, Off
    <3> QED BY <3>2, <3>3, <3>4, <1>5
  <2> QED BY <2>1, <2>2, <2>3
<1>17. ASSUME NEW x \in Off(Listing(v, e), p) PROVE x \in Listing(w, f)
  <2>0. x.price # p
    BY DEF Off
  <2>1. (\E j \in 1 .. Size : v[j].price # 0 /\ x = Seen(v[j])) \/ \E k \in e : x = Seen(k)
    BY DEF Listing, Off
  <2>2. CASE \E k \in e : x = Seen(k)
    <3>1. PICK k \in e : x = Seen(k)
      BY <2>2
    <3>2. CASE k = b
      <4>1. w[Size].price # 0 /\ x = Seen(w[Size])
        BY <3>1, <3>2, <1>4, <1>6
      <4> QED BY <4>1, SizeIs DEF Listing
    <3>3. CASE k # b
      <4>1. k \in f
        BY <3>1, <3>3
      <4> QED BY <3>1, <4>1 DEF Listing
    <3> QED BY <3>2, <3>3
  <2>3. CASE \E j \in 1 .. Size : v[j].price # 0 /\ x = Seen(v[j])
    <3>1. PICK j \in 1 .. Size : v[j].price # 0 /\ x = Seen(v[j])
      BY <2>3
    <3>2. j # i
      BY <2>0, <3>1, SeenIs
    <3>3. CASE j < i
      BY <3>1, <3>3 DEF Listing
    <3>4. CASE j > i
      <4>1. j - 1 \in 1 .. Size /\ i <= j - 1 /\ j - 1 < Size /\ (j - 1) + 1 = j
        BY <3>4, SizeIs
      <4>2. w[j - 1].price # 0 /\ x = Seen(w[j - 1])
        BY <3>1, <4>1, SeenIs
      <4> QED BY <4>1, <4>2 DEF Listing
    <3>5. j < i \/ j > i
      BY <3>2, SizeIs
    <3> QED BY <3>3, <3>4, <3>5
  <2> QED BY <2>1, <2>2, <2>3
<1> QED BY <1>13, <1>16, <1>17

\* A truth value as an argument: the provers tell TRUE from a value.
Yes == TRUE

\* The constant is a Boolean.
LEMMA YesIs == Yes \in BOOLEAN /\ Yes = TRUE /\ Yes
BY DEF Yes

\* The depth d with the side s given new levels.
Rewritten(d, s, w, f, b) ==
  [visible |-> [d.visible EXCEPT ![s] = w], excess |-> [d.excess EXCEPT ![s] = f],
   ignored |-> d.ignored, changed |-> b, lost |-> d.lost]

\* A change of what is visible is noted, on the level and on the depth.
Noted(d, r) ==
  /\ ~r.changed => /\ ~d.changed
                   /\ \A s \in Sides, i \in 1 .. Size : Seen(r.visible[s][i]) = Seen(d.visible[s][i])
  /\ \A s \in Sides : ~r.visible[s][1].fresh =>
       ~d.visible[s][1].fresh /\ Seen(r.visible[s][1]) = Seen(d.visible[s][1])

\* What an operation on side s makes of d, with the level of the price p as X says.
Turns(d, r, s, p, X) ==
  /\ Shape(r) /\ r.lost = d.lost /\ r.ignored = d.ignored /\ Noted(d, r)
  /\ \A t \in Sides : t # s => r.visible[t] = d.visible[t] /\ r.excess[t] = d.excess[t]
  /\ p # 0 => /\ Listing(r.visible[s], r.excess[s]) = Off(Listing(d.visible[s], d.excess[s]), p) \union X
              /\ Blanked(d.visible[s]) => Blanked(r.visible[s])

\* A depth and its parts.
LEMMA DepthIs ==
  ASSUME NEW d \in Depths
  PROVE  /\ d = [visible |-> d.visible, excess |-> d.excess, ignored |-> d.ignored,
                 changed |-> d.changed, lost |-> d.lost]
         /\ d.visible \in [Sides -> Visibles] /\ d.excess \in [Sides -> SUBSET LevelType]
         /\ d.ignored \in [Sides -> Int] /\ d.changed \in BOOLEAN /\ d.lost \in BOOLEAN
BY DEF Depths

\* A depth with other levels on one side.
LEMMA RewrittenIs ==
  ASSUME NEW d, Shape(d), NEW s \in Sides, NEW w, NEW f, SideOK(s, w, f),
         NEW b \in BOOLEAN, NEW r, r = Rewritten(d, s, w, f, b)
  PROVE  /\ Shape(r) /\ r.lost = d.lost /\ r.ignored = d.ignored /\ r.changed = b
         /\ r.visible[s] = w /\ r.excess[s] = f
         /\ \A t \in Sides : t # s => r.visible[t] = d.visible[t] /\ r.excess[t] = d.excess[t]
<1>1. d \in Depths /\ \A t \in Sides : SideOK(t, d.visible[t], d.excess[t])
  BY DEF Shape
<1>2. /\ d.visible \in [Sides -> Visibles] /\ d.excess \in [Sides -> SUBSET LevelType]
      /\ d.ignored \in [Sides -> Int] /\ d.changed \in BOOLEAN /\ d.lost \in BOOLEAN
  BY <1>1, DepthIs
<1>3. w \in Visibles /\ f \in SUBSET LevelType
  BY DEF SideOK
<1>4. PICK x : x = [d.visible EXCEPT ![s] = w]
  OBVIOUS
<1>5. PICK y : y = [d.excess EXCEPT ![s] = f]
  OBVIOUS
<1>6. x \in [Sides -> Visibles] /\ x[s] = w /\ \A t \in Sides : t # s => x[t] = d.visible[t]
  BY <1>2, <1>3, <1>4
<1>7. y \in [Sides -> SUBSET LevelType] /\ y[s] = f /\ \A t \in Sides : t # s => y[t] = d.excess[t]
  BY <1>2, <1>3, <1>5
<1>8. r = [visible |-> x, excess |-> y, ignored |-> d.ignored, changed |-> b, lost |-> d.lost]
  BY <1>4, <1>5 DEF Rewritten
<1>9. /\ r \in Depths /\ r.visible = x /\ r.excess = y /\ r.ignored = d.ignored
      /\ r.changed = b /\ r.lost = d.lost
  BY <1>2, <1>6, <1>7, <1>8 DEF Depths
<1>10. \A t \in Sides : SideOK(t, r.visible[t], r.excess[t])
  BY <1>1, <1>6, <1>7, <1>9
<1> QED BY <1>6, <1>7, <1>9, <1>10 DEF Shape

\* The ways the operations write a depth.
SetV(d, s, w) == [d EXCEPT !.visible[s] = w]
SetE(d, s, f) == [d EXCEPT !.excess[s] = f]
SetVE(d, s, w, f) == [d EXCEPT !.visible[s] = w, !.excess[s] = f]
SetVC(d, s, w) == [d EXCEPT !.visible[s] = w, !.changed = TRUE]
SetEC(d, s, f) == [d EXCEPT !.excess[s] = f, !.changed = TRUE]
SetVEC(d, s, w, f) == [d EXCEPT !.visible[s] = w, !.excess[s] = f, !.changed = TRUE]
SetL(d, s, i, l) == [d EXCEPT !.visible[s][i] = l]
SetLC(d, s, i, l) == [d EXCEPT !.visible[s][i] = l, !.changed = TRUE]

\* Each write of a part of a depth.
LEMMA Writes ==
  ASSUME NEW d \in Depths, NEW s \in Sides, NEW w, NEW f, NEW b
  PROVE  /\ [d EXCEPT !.visible[s] = w] =
               [visible |-> [d.visible EXCEPT ![s] = w], excess |-> d.excess, ignored |-> d.ignored,
                changed |-> d.changed, lost |-> d.lost]
         /\ [d EXCEPT !.excess[s] = f] =
               [visible |-> d.visible, excess |-> [d.excess EXCEPT ![s] = f], ignored |-> d.ignored,
                changed |-> d.changed, lost |-> d.lost]
         /\ [d EXCEPT !.changed = b] =
               [visible |-> d.visible, excess |-> d.excess, ignored |-> d.ignored,
                changed |-> b, lost |-> d.lost]
<1>1. PICK v, e, g, c, l : /\ d = [visible |-> v, excess |-> e, ignored |-> g, changed |-> c, lost |-> l]
                           /\ v \in [Sides -> Visibles] /\ e \in [Sides -> SUBSET LevelType]
  BY DepthIs
<1>2. d.visible = v /\ d.excess = e /\ d.ignored = g /\ d.changed = c /\ d.lost = l
  BY <1>1
<1>3. [d EXCEPT !.visible[s] = w] = [visible |-> [v EXCEPT ![s] = w], excess |-> e, ignored |-> g,
                                     changed |-> c, lost |-> l]
  BY <1>1
<1>4. [d EXCEPT !.excess[s] = f] = [visible |-> v, excess |-> [e EXCEPT ![s] = f], ignored |-> g,
                                    changed |-> c, lost |-> l]
  BY <1>1
<1>5. [d EXCEPT !.changed = b] = [visible |-> v, excess |-> e, ignored |-> g, changed |-> b, lost |-> l]
  BY <1>1
<1> QED BY <1>2, <1>3, <1>4, <1>5

\* The writes of the operations.
LEMMA RewriteForms ==
  ASSUME NEW d \in Depths, NEW s \in Sides, NEW w \in Visibles, NEW f \in SUBSET LevelType
  PROVE  /\ SetVE(d, s, w, f) = Rewritten(d, s, w, f, d.changed)
         /\ SetVC(d, s, w) = Rewritten(d, s, w, d.excess[s], Yes)
         /\ SetV(d, s, w) = Rewritten(d, s, w, d.excess[s], d.changed)
         /\ SetEC(d, s, f) = Rewritten(d, s, d.visible[s], f, Yes)
         /\ SetE(d, s, f) = Rewritten(d, s, d.visible[s], f, d.changed)
         /\ SetVEC(d, s, w, f) = Rewritten(d, s, w, f, Yes)
<1>1. d \in Depths
  OBVIOUS
<1>2. PICK x : x = [d.visible EXCEPT ![s] = w]
  OBVIOUS
<1>3. PICK y : y = [d.excess EXCEPT ![s] = f]
  OBVIOUS
<1>4. /\ d.visible = [d.visible EXCEPT ![s] = d.visible[s]]
      /\ d.excess = [d.excess EXCEPT ![s] = d.excess[s]]
  BY <1>1, DepthIs
<1>5. x \in [Sides -> Visibles] /\ y \in [Sides -> SUBSET LevelType]
  BY <1>1, <1>2, <1>3, DepthIs
<1>6. PICK a : a = [d EXCEPT !.visible[s] = w]
  OBVIOUS
<1>7. a = [visible |-> x, excess |-> d.excess, ignored |-> d.ignored, changed |-> d.changed, lost |-> d.lost]
  <2>1. [d EXCEPT !.visible[s] = w] =
          [visible |-> [d.visible EXCEPT ![s] = w], excess |-> d.excess, ignored |-> d.ignored,
           changed |-> d.changed, lost |-> d.lost]
    BY <1>1, Writes
  <2> QED BY <2>1, <1>2, <1>6
<1>8. PICK h : h = [d EXCEPT !.excess[s] = f]
  OBVIOUS
<1>9. h = [visible |-> d.visible, excess |-> y, ignored |-> d.ignored, changed |-> d.changed, lost |-> d.lost]
  BY <1>1, <1>3, <1>8, Writes
<1>10. a \in Depths /\ h \in Depths /\ a.excess = d.excess
  BY <1>1, <1>5, <1>7, <1>9, DepthIs DEF Depths
<1>11. PICK k : k = [a EXCEPT !.excess[s] = f]
  OBVIOUS
<1>12. k = [visible |-> x, excess |-> y, ignored |-> d.ignored, changed |-> d.changed, lost |-> d.lost]
  <2>1. k = [visible |-> a.visible, excess |-> [a.excess EXCEPT ![s] = f], ignored |-> a.ignored,
             changed |-> a.changed, lost |-> a.lost]
    BY <1>10, <1>11, Writes
  <2> QED BY <2>1, <1>3, <1>7, <1>10
<1>13. k \in Depths
  BY <1>1, <1>5, <1>12, DepthIs DEF Depths
<1>14. a = Rewritten(d, s, w, d.excess[s], d.changed)
  BY <1>2, <1>4, <1>7 DEF Rewritten
<1>15. h = Rewritten(d, s, d.visible[s], f, d.changed)
  BY <1>3, <1>4, <1>9 DEF Rewritten
<1>16. k = Rewritten(d, s, w, f, d.changed)
  BY <1>2, <1>3, <1>12 DEF Rewritten
<1>17. [a EXCEPT !.changed = TRUE] = Rewritten(d, s, w, d.excess[s], Yes)
  <2>1. [a EXCEPT !.changed = TRUE] = [visible |-> a.visible, excess |-> a.excess, ignored |-> a.ignored,
                                       changed |-> TRUE, lost |-> a.lost]
    BY <1>10, <1>13, Writes
  <2>2. /\ a.visible = x /\ a.excess = d.excess /\ a.ignored = d.ignored /\ a.lost = d.lost
    BY <1>7
  <2> QED BY <2>1, <2>2, <1>2, <1>4 DEF Rewritten, Yes
<1>18. [h EXCEPT !.changed = TRUE] = Rewritten(d, s, d.visible[s], f, Yes)
  <2>1. [h EXCEPT !.changed = TRUE] = [visible |-> h.visible, excess |-> h.excess, ignored |-> h.ignored,
                                       changed |-> TRUE, lost |-> h.lost]
    BY <1>10, <1>13, Writes
  <2>2. /\ h.visible = d.visible /\ h.excess = y /\ h.ignored = d.ignored /\ h.lost = d.lost
    BY <1>9
  <2> QED BY <2>1, <2>2, <1>3, <1>4 DEF Rewritten, Yes
<1>19. [k EXCEPT !.changed = TRUE] = Rewritten(d, s, w, f, Yes)
  <2>1. [k EXCEPT !.changed = TRUE] = [visible |-> k.visible, excess |-> k.excess, ignored |-> k.ignored,
                                       changed |-> TRUE, lost |-> k.lost]
    BY <1>10, <1>13, Writes
  <2>2. /\ k.visible = x /\ k.excess = y /\ k.ignored = d.ignored /\ k.lost = d.lost
    BY <1>12
  <2> QED BY <2>1, <2>2, <1>2, <1>3 DEF Rewritten, Yes
<1>20. SetVE(d, s, w, f) = k
  BY <1>6, <1>11 DEF SetVE, SetVEC
<1>21. SetVC(d, s, w) = [a EXCEPT !.changed = TRUE]
  BY <1>6 DEF SetVC
<1>22. SetEC(d, s, f) = [h EXCEPT !.changed = TRUE]
  BY <1>8 DEF SetEC
<1>23. SetVEC(d, s, w, f) = [k EXCEPT !.changed = TRUE]
  BY <1>6, <1>11 DEF SetVE, SetVEC
<1>24. SetV(d, s, w) = a /\ SetE(d, s, f) = h
  BY <1>6, <1>8 DEF SetV, SetE
<1> QED
  BY <1>24, <1>14, <1>15, <1>16, <1>17, <1>18, <1>19, <1>20, <1>21, <1>22, <1>23

\* Nothing changed, nothing to note.
LEMMA NotedSelf ==
  ASSUME NEW d
  PROVE  Noted(d, d)
BY DEF Noted

\* What is noted stays noted.
LEMMA NotedTrans ==
  ASSUME NEW d, NEW n, NEW r, Noted(d, n), Noted(n, r)
  PROVE  Noted(d, r)
BY DEF Noted

\* A new side that is marked as changed, and whose first level is marked or the same.
LEMMA NotedNew ==
  ASSUME NEW d, Shape(d), NEW s \in Sides, NEW r, r.changed,
         \A t \in Sides : t # s => r.visible[t] = d.visible[t],
         r.visible[s][1].fresh \/ r.visible[s][1] = d.visible[s][1]
  PROVE  Noted(d, r)
BY DEF Noted

\* The level of a price that has one.
LEMMA ListedAt ==
  ASSUME NEW d, Shape(d), NEW s \in Sides, NEW p \in Nat, p # 0, NEW c, NEW q,
         NEW x, x = [price |-> p, count |-> c, qty |-> q]
  PROVE  /\ \A i \in 1 .. Size : d.visible[s][i].price = p =>
              (x \in Listing(d.visible[s], d.excess[s]) <=>
                 c = d.visible[s][i].count /\ q = d.visible[s][i].qty)
         /\ \A l \in d.excess[s] : l.price = p =>
              (x \in Listing(d.visible[s], d.excess[s]) <=> c = l.count /\ q = l.qty)
         /\ x \in Listing(d.visible[s], d.excess[s]) =>
              \/ \E i \in 1 .. Size : d.visible[s][i].price = p
              \/ \E l \in d.excess[s] : l.price = p
<1>1. PICK v, e : v = d.visible[s] /\ e = d.excess[s]
  OBVIOUS
<1>2. SideOK(s, v, e)
  BY <1>1 DEF Shape
<1>3. v \in Visibles /\ e \in SUBSET LevelType /\ Ordered(s, v, e)
  BY <1>2 DEF SideOK
<1>4. x.price = p /\ x.count = c /\ x.qty = q
  OBVIOUS
<1>5. \A l : x = Seen(l) <=> l.price = p /\ l.count = c /\ l.qty = q
  BY DEF Seen
<1>6. x \in Listing(v, e) <=> \/ \E j \in 1 .. Size : v[j].price # 0 /\ x = Seen(v[j])
                              \/ \E l \in e : x = Seen(l)
  BY DEF Listing
<1>7. x \in Listing(v, e) <=>
        \/ \E j \in 1 .. Size : v[j].price = p /\ v[j].count = c /\ v[j].qty = q
        \/ \E l \in e : l.price = p /\ l.count = c /\ l.qty = q
  BY <1>5, <1>6
<1>8. ASSUME NEW i \in 1 .. Size, NEW j \in 1 .. Size, v[i].price = p, v[j].price = p PROVE i = j
  <2>1. v[i].price \in Nat /\ v[j].price \in Nat
    BY <1>3 DEF Visibles, LevelType
  <2>2. i < j \/ j < i \/ i = j
    BY SizeIs
  <2>3. i < j => Better(s, v[i].price, v[j].price)
    BY <1>3, <1>8 DEF Ordered
  <2>4. j < i => Better(s, v[j].price, v[i].price)
    BY <1>3, <1>8 DEF Ordered
  <2> QED BY <2>1, <2>2, <2>3, <2>4, <1>8, BetterIs
<1>9. ASSUME NEW i \in 1 .. Size, NEW l \in e, v[i].price = p, l.price = p PROVE FALSE
  <2>1. v[i].price \in Nat /\ l.price \in Nat /\ Better(s, v[i].price, l.price)
    BY <1>3 DEF Visibles, LevelType, Ordered
  <2> QED BY <2>1, <1>9, BetterIs
<1>10. \A k, l \in e : k.price = p /\ l.price = p => k = l
  BY <1>3 DEF Ordered
<1>11. \A i \in 1 .. Size : v[i].price = p =>
         (x \in Listing(v, e) <=> c = v[i].count /\ q = v[i].qty)
  BY <1>7, <1>8, <1>9
<1>12. \A l \in e : l.price = p => (x \in Listing(v, e) <=> c = l.count /\ q = l.qty)
  BY <1>7, <1>9, <1>10
<1> QED BY <1>1, <1>7, <1>11, <1>12

\* A level shows an entry when its price, count and quantity are the entry's.
LEMMA EntryIs ==
  ASSUME NEW l, NEW p, NEW c, NEW q
  PROVE  /\ Entry(p, c, q).price = p /\ Entry(p, c, q).count = c /\ Entry(p, c, q).qty = q
         /\ Seen(l) = Entry(p, c, q) <=> l.price = p /\ l.count = c /\ l.qty = q
BY DEF Seen, Entry

\* What the operations make of one level.
LEMMA EnlargedIs ==
  ASSUME NEW l \in LevelType, NEW qty \in Int
  PROVE  /\ Enlarged(l, qty) \in LevelType
         /\ Enlarged(l, qty).price = l.price
         /\ Enlarged(l, qty).count = l.count + 1
         /\ Enlarged(l, qty).qty = l.qty + qty
<1>1. PICK c \in Nat : c = l.count + 1
  BY DEF LevelType
<1>2. PICK q \in Int : q = l.qty + qty
  BY DEF LevelType
<1>3. PICK k : k = [l EXCEPT !.count = c, !.qty = q]
  OBVIOUS
<1>4. Enlarged(l, qty) = k
  BY <1>1, <1>2, <1>3 DEF Enlarged
<1>5. k \in LevelType /\ k.price = l.price /\ k.count = c /\ k.qty = q
  BY <1>3 DEF LevelType
<1> QED BY <1>1, <1>2, <1>4, <1>5

\* A level with another mark.
LEMMA FreshIs ==
  ASSUME NEW l \in LevelType, NEW b \in BOOLEAN, NEW m, m = [l EXCEPT !.fresh = b]
  PROVE  m \in LevelType /\ m.fresh = b /\ m.price = l.price /\ m.count = l.count /\ m.qty = l.qty
BY DEF LevelType

\* A level with another quantity.
LEMMA MoreIs ==
  ASSUME NEW l \in LevelType, NEW delta \in Int,
         NEW m, m = [l EXCEPT !.qty = @ + delta, !.fresh = TRUE]
  PROVE  m \in LevelType /\ m.fresh /\ m.price = l.price /\ m.count = l.count /\ m.qty = l.qty + delta
<1>1. PICK q \in Int : q = l.qty + delta
  BY DEF LevelType
<1>2. m = [l EXCEPT !.qty = q, !.fresh = TRUE]
  BY <1>1
<1> QED BY <1>1, <1>2 DEF LevelType

\* The first place without a level is given one.
LEMMA Opened ==
  ASSUME NEW s, NEW v, NEW e, SideOK(s, v, e), NEW l \in LevelType, l.price # 0, NEW i \in 1 .. Size,
         v[i].price = 0, \A j \in 1 .. Size : j < i => v[j].price # 0 /\ Better(s, v[j].price, l.price)
  PROVE  /\ SideOK(s, PutAt(v, i, l), e)
         /\ Listing(PutAt(v, i, l), e) = Listing(v, e) \union {Seen(l)} /\ PutAt(v, i, l)[i] = l
         /\ \A j \in 1 .. Size : j # i => PutAt(v, i, l)[j] = v[j]
         /\ \A j \in 1 .. Size : v[j].price # l.price
         /\ \A k \in e : k.price # l.price
<1>0a. PICK w : w = PutAt(v, i, l)
  OBVIOUS
<1>1. s \in Sides /\ v \in Visibles /\ e \in SUBSET LevelType /\ Ordered(s, v, e)
  BY DEF SideOK
<1>2. w \in Visibles /\ w[i] = l /\ \A j \in 1 .. Size : j # i => w[j] = v[j]
  BY <1>0a, <1>1 DEF Visibles, PutAt
<1>3. e = {}
  BY <1>1 DEF Ordered
<1>4. \A j \in 1 .. Size : i <= j => v[j].price = 0
  <2> TAKE j \in 1 .. Size
  <2> HAVE i <= j
  <2>1. i = j \/ i < j
    BY SizeIs
  <2> QED BY <2>1, <1>1 DEF Ordered
<1>5. \A j \in 1 .. Size : v[j].price \in Nat /\ l.price \in Nat
  BY <1>1 DEF Visibles, LevelType
<1>6. \A j \in 1 .. Size : v[j].price # l.price
  <2> TAKE j \in 1 .. Size
  <2>1. j < i \/ i <= j
    BY SizeIs
  <2> QED BY <2>1, <1>4, <1>5, BetterIs
<1>7. ASSUME NEW a \in 1 .. Size, NEW b \in 1 .. Size, a < b, w[b].price # 0
      PROVE  w[a].price # 0 /\ Better(s, w[a].price, w[b].price)
  <2>1. b = i \/ (b # i /\ b < i)
    <3>1. b < i \/ b = i \/ (b # i /\ i <= b)
      BY SizeIs
    <3> QED BY <3>1, <1>2, <1>4, <1>7
  <2>2. a < i /\ a # i
    BY <2>1, <1>7, SizeIs
  <2>3. CASE b = i
    BY <2>2, <2>3, <1>2
  <2>4. CASE b # i /\ b < i
    <3>1. v[b].price # 0 /\ v[a].price # 0 /\ Better(s, v[a].price, v[b].price)
      BY <2>2, <2>4, <1>1, <1>7 DEF Ordered
    <3> QED BY <3>1, <2>2, <2>4, <1>2
  <2> QED BY <2>1, <2>3, <2>4
<1>8. Ordered(s, w, e)
  <2>1. \A j \in 1 .. Size : w[j].price = 0 => w[j].count = 0
    BY <1>1, <1>2 DEF Ordered
  <2>2. IsFiniteSet(e)
    BY <1>1 DEF Ordered
  <2> QED BY <1>3, <1>7, <2>1, <2>2 DEF Ordered
<1>9. ASSUME NEW x PROVE x \in Listing(w, e) <=> x \in Listing(v, e) \union {Seen(l)}
  <2>1. x \in Listing(w, e) <=> \E j \in 1 .. Size : w[j].price # 0 /\ x = Seen(w[j])
    BY <1>3 DEF Listing
  <2>2. x \in Listing(v, e) <=> \E j \in 1 .. Size : v[j].price # 0 /\ x = Seen(v[j])
    BY <1>3 DEF Listing
  <2>3. \A j \in 1 .. Size : w[j].price # 0 => w[j] = l \/ (v[j].price # 0 /\ w[j] = v[j])
    BY <1>2
  <2>4. \A j \in 1 .. Size : v[j].price # 0 => w[j] = v[j]
    BY <1>2
  <2>5. x = Seen(l) => x \in Listing(w, e)
    BY <2>1, <1>2
  <2>6. x \in Listing(v, e) => x \in Listing(w, e)
    BY <2>1, <2>2, <2>4
  <2>7. x \in Listing(w, e) => x \in Listing(v, e) \/ x = Seen(l)
    BY <2>1, <2>2, <2>3
  <2> QED BY <2>5, <2>6, <2>7
<1> QED BY <1>0a, <1>1, <1>2, <1>3, <1>6, <1>8, <1>9 DEF SideOK

\* Two of the writes of an operation, on the same side.
LEMMA WriteAt ==
  ASSUME NEW d \in Depths, NEW s \in Sides, NEW i \in 1 .. Size, NEW l \in LevelType
  PROVE  /\ SetL(d, s, i, l) = Rewritten(d, s, PutAt(d.visible[s], i, l), d.excess[s], d.changed)
         /\ SetLC(d, s, i, l) = Rewritten(d, s, PutAt(d.visible[s], i, l), d.excess[s], Yes)
<1>1. PICK v : v = d.visible[s]
  OBVIOUS
<1>2. d \in Depths /\ v \in Visibles
  BY <1>1, DepthIs
<1>3. PICK w \in Visibles : w = PutAt(v, i, l)
  BY <1>2 DEF Visibles, PutAt
<1>4. SetL(d, s, i, l) = SetV(d, s, w)
  BY <1>1, <1>2, <1>3 DEF SetL, SetV, PutAt
<1>5. SetLC(d, s, i, l) = SetVC(d, s, w)
  BY <1>1, <1>2, <1>3 DEF SetLC, SetVC, PutAt
<1>6. d.excess[s] \in SUBSET LevelType
  BY DepthIs
<1>7. /\ SetV(d, s, w) = Rewritten(d, s, w, d.excess[s], d.changed)
      /\ SetVC(d, s, w) = Rewritten(d, s, w, d.excess[s], Yes)
  BY <1>6, RewriteForms
<1> QED BY <1>1, <1>3, <1>4, <1>5, <1>7

\* The parts of a depth with other levels on one side.
LEMMA RewriteOnce ==
  ASSUME NEW d \in Depths, NEW s \in Sides, NEW w \in Visibles, NEW f \in SUBSET LevelType,
         NEW b \in BOOLEAN,
         NEW r, r = Rewritten(d, s, w, f, b)
  PROVE  r \in Depths /\ r.visible[s] = w /\ r.excess[s] = f /\ r.changed = b
<1>1. PICK fv, fe : fv = [d.visible EXCEPT ![s] = w] /\ fe = [d.excess EXCEPT ![s] = f]
  OBVIOUS
<1>3. r = [visible |-> fv, excess |-> fe, ignored |-> d.ignored, changed |-> b, lost |-> d.lost]
  BY <1>1 DEF Rewritten
<1>4. fv \in [Sides -> Visibles] /\ fv[s] = w /\ fe \in [Sides -> SUBSET LevelType] /\ fe[s] = f
  BY <1>1, DepthIs
<1>6. /\ r.visible = fv /\ r.excess = fe /\ r.changed = b
  BY <1>3
<1>7. r \in Depths
  BY <1>3, <1>4, DepthIs DEF Depths
<1> QED BY <1>4, <1>6, <1>7

\* One write of a side after another.
LEMMA RewriteTwice ==
  ASSUME NEW d \in Depths, NEW s \in Sides, NEW w, NEW f, NEW b, NEW x, NEW g, NEW c,
         NEW r, r = Rewritten(d, s, w, f, b)
  PROVE  Rewritten(r, s, x, g, c) = Rewritten(d, s, x, g, c)
<1>1. PICK fv, fe : fv = [d.visible EXCEPT ![s] = w] /\ fe = [d.excess EXCEPT ![s] = f]
  OBVIOUS
<1>3. r = [visible |-> fv, excess |-> fe, ignored |-> d.ignored, changed |-> b, lost |-> d.lost]
  BY <1>1 DEF Rewritten
<1>5. /\ [fv EXCEPT ![s] = x] = [d.visible EXCEPT ![s] = x]
      /\ [fe EXCEPT ![s] = g] = [d.excess EXCEPT ![s] = g]
  BY <1>1, DepthIs
<1>6. /\ r.visible = fv /\ r.excess = fe /\ r.ignored = d.ignored /\ r.lost = d.lost
  BY <1>3
<1> QED BY <1>5, <1>6 DEF Rewritten

\* A write of one side that leaves its first level, or marks it, and marks the depth
\* unless it leaves everything that is visible.
LEMMA TurnsIs ==
  ASSUME NEW d, Shape(d), NEW s \in Sides, NEW w, NEW f, SideOK(s, w, f), NEW b \in BOOLEAN,
         NEW r, r = Rewritten(d, s, w, f, b), NEW p, NEW X,
         b = Yes \/ (b = d.changed /\ w = d.visible[s]), w[1].fresh \/ w[1] = d.visible[s][1],
         p # 0 => /\ Listing(w, f) = Off(Listing(d.visible[s], d.excess[s]), p) \union X
                  /\ Blanked(d.visible[s]) => Blanked(w)
  PROVE  Turns(d, r, s, p, X)
<1>1. /\ Shape(r) /\ r.lost = d.lost /\ r.ignored = d.ignored /\ r.changed = b
      /\ r.visible[s] = w /\ r.excess[s] = f
      /\ \A t \in Sides : t # s => r.visible[t] = d.visible[t] /\ r.excess[t] = d.excess[t]
  BY RewrittenIs
<1>2. Noted(d, r)
  <2>1. \A t \in Sides : ~ r.visible[t][1].fresh => r.visible[t][1] = d.visible[t][1]
    BY <1>1
  <2>2. ~ r.changed => ~ d.changed /\ \A t \in Sides : r.visible[t] = d.visible[t]
    BY <1>1, YesIs
  <2> QED BY <2>1, <2>2 DEF Noted
<1> QED BY <1>1, <1>2 DEF Turns

\* A side of a depth.
LEMMA SideIs ==
  ASSUME NEW d, Shape(d), NEW s \in Sides, NEW v, NEW e, v = d.visible[s], e = d.excess[s]
  PROVE  /\ SideOK(s, v, e) /\ v \in Visibles /\ e \in SUBSET LevelType /\ Ordered(s, v, e)
         /\ d.changed \in BOOLEAN /\ d \in Depths
<1>1. SideOK(s, v, e) /\ d \in Depths
  BY DEF Shape
<1> QED BY <1>1, DepthIs DEF SideOK

\* insert_level_before as one write.
LEMMA InsertForm ==
  ASSUME NEW d, Shape(d), NEW s \in Sides, NEW i \in 1 .. Size, NEW p \in Nat,
         SideOK(s, Inserted1(d.visible[s], i, p), d.excess[s] \union Spilt(d.visible[s]))
  PROVE  InsertLevelBefore(d, s, i, p) =
           Rewritten(d, s, Inserted1(d.visible[s], i, p), d.excess[s] \union Spilt(d.visible[s]), Yes)
<1>0. PICK v, e : v = d.visible[s] /\ e = d.excess[s]
  OBVIOUS
<1>1. PICK w \in Visibles : w = Inserted1(v, i, p)
  BY <1>0 DEF SideOK
<1>2. PICK f \in SUBSET LevelType : f = e \union Spilt(v)
  BY <1>0 DEF SideOK
<1>3. InsertLevelBefore(d, s, i, p) = SetVEC(d, s, w, f)
  <2>1. PICK x : x = Spilt(v)
    OBVIOUS
  <2>2. InsertLevelBefore(d, s, i, p) = [d EXCEPT !.visible[s] = w, !.excess[s] = @ \union x, !.changed = TRUE]
    BY <1>0, <1>1, <2>1 DEF InsertLevelBefore, Inserted1, Spilt, InvalidPrice
  <2>3. PICK h : h = [d EXCEPT !.visible[s] = w]
    OBVIOUS
  <2>4. h.excess = d.excess
    BY <2>3, SideIs DEF Depths
  <2>5. f = h.excess[s] \union x
    BY <2>1, <2>4, <1>0, <1>2
  <2> QED BY <2>2, <2>3, <2>5 DEF SetVEC
<1>4. SetVEC(d, s, w, f) = Rewritten(d, s, w, f, Yes)
  <2>1. d \in Depths
    BY SideIs
  <2> QED BY <2>1, RewriteForms
<1> QED BY <1>0, <1>1, <1>2, <1>3, <1>4

\* The orders of a price become one more.
AddsTo(d, r, s, p, qty, L) ==
  \E c \in Nat, q \in Int :
    /\ Turns(d, r, s, p, {Entry(p, c + 1, q + qty)})
    /\ Entry(p, c, q) \in L \/ (c = 0 /\ q = 0 /\ Off(L, p) = L)

\* One order more at a price, in a level that is there or a new one.
LEMMA AddIs ==
  ASSUME NEW d, Shape(d), NEW s \in Sides, NEW p \in Nat, p # 0, NEW qty \in Int,
         NEW r, r = DepthAdd(d, s, p, qty),
         NEW L, L = Listing(d.visible[s], d.excess[s])
  PROVE  AddsTo(d, r, s, p, qty, L)
<1> SUFFICES \E c \in Nat, q \in Int :
               /\ Turns(d, r, s, p, {Entry(p, c + 1, q + qty)})
               /\ Entry(p, c, q) \in L \/ (c = 0 /\ q = 0 /\ Off(L, p) = L)
  BY DEF AddsTo
<1>1. PICK v, e : v = d.visible[s] /\ e = d.excess[s]
  OBVIOUS
<1>2. /\ SideOK(s, v, e) /\ v \in Visibles /\ e \in SUBSET LevelType /\ Ordered(s, v, e)
      /\ d.changed \in BOOLEAN /\ d \in Depths /\ L = Listing(v, e)
  BY <1>1, SideIs
<1>3. PICK i : i = PlaceFor(d, s, p)
  OBVIOUS
<1>4. /\ i \in 0 .. Size
      /\ i # 0 => i \in 1 .. Size /\ (v[i].price \in {p, 0} \/ Better(s, p, v[i].price))
      /\ \A j \in 1 .. Size : i = 0 \/ j < i => v[j].price # 0 /\ Better(s, v[j].price, p)
  BY <1>1, <1>2, <1>3, PlaceIs
<1>5. PICK at : at = {l \in e : l.price = p}
  OBVIOUS
<1>6. ExcessAt(d, s, p) = at
  BY <1>1, <1>5 DEF ExcessAt
<1>7. CASE i = 0
  <2>1. PICK l : l = IF at = {} THEN [Level(p) EXCEPT !.fresh = FALSE] ELSE CHOOSE x \in at : TRUE
    OBVIOUS
  <2>2. l \in LevelType /\ l.price = p /\ (at = {} => l.count = 0 /\ l.qty = 0) /\ (at # {} => l \in at)
    <3>1. CASE at = {}
      <4>1. Level(p) \in LevelType /\ Level(p).price = p /\ Level(p).count = 0 /\ Level(p).qty = 0
        BY LevelIs
      <4>2. l = [Level(p) EXCEPT !.fresh = FALSE]
        BY <3>1, <2>1
      <4>3. /\ l \in LevelType /\ l.price = Level(p).price /\ l.count = Level(p).count
            /\ l.qty = Level(p).qty
        BY <4>1, <4>2, FreshIs
      <4> QED BY <3>1, <4>1, <4>3
    <3>2. CASE at # {}
      BY <3>2, <2>1, <1>2, <1>5
    <3> QED BY <3>1, <3>2
  <2>3. PICK m : m = Enlarged(l, qty)
    OBVIOUS
  <2>4. m \in LevelType /\ m.price = p /\ m.count = l.count + 1 /\ m.qty = l.qty + qty
    <3>1. /\ Enlarged(l, qty) \in LevelType /\ Enlarged(l, qty).price = l.price
          /\ Enlarged(l, qty).count = l.count + 1 /\ Enlarged(l, qty).qty = l.qty + qty
      BY <2>2, EnlargedIs
    <3> QED BY <3>1, <2>2, <2>3
  <2>5. PICK f : f = (e \ at) \union {m}
    OBVIOUS
  <2>6. SideOK(s, v, f) /\ Listing(v, f) = Off(L, p) \union {Seen(m)}
    BY <1>2, <1>4, <1>5, <1>7, <2>4, <2>5, Stored
  <2>7. r = Rewritten(d, s, v, f, d.changed)
    <3>1. r = [d EXCEPT !.excess[s] = (@ \ at) \union {m}]
      BY <1>3, <1>6, <1>7, <2>1, <2>3 DEF DepthAdd
    <3>2. r = SetE(d, s, f)
      BY <3>1, <2>5, <1>1 DEF SetE
    <3>3. f \in SUBSET LevelType
      BY <2>6 DEF SideOK
    <3>4. SetE(d, s, f) = Rewritten(d, s, d.visible[s], f, d.changed)
      BY <3>3, <1>2, RewriteForms
    <3> QED BY <3>2, <3>4, <1>1
  <2>8. Turns(d, r, s, p, {Seen(m)})
    BY <1>1, <1>2, <2>6, <2>7, TurnsIs
  <2>9. Seen(m) = Entry(p, l.count + 1, l.qty + qty) /\ Seen(l) = Entry(p, l.count, l.qty)
    BY <2>2, <2>4, EntryIs
  <2>10. l.count \in Nat /\ l.qty \in Int
    BY <2>2 DEF LevelType
  <2>11. CASE at # {}
    <3>1. Seen(l) \in L
      BY <2>2, <2>11, <1>2, <1>5 DEF Listing
    <3> QED BY <3>1, <2>8, <2>9, <2>10
  <2>12. CASE at = {}
    <3>1. \A j \in 1 .. Size : v[j].price # p
      <4> TAKE j \in 1 .. Size
      <4>1. v[j].price \in Nat /\ Better(s, v[j].price, p)
        BY <1>2, <1>4, <1>7 DEF Visibles, LevelType
      <4> QED BY <4>1, BetterIs
    <3>2. \A k \in e : k.price # p
      BY <2>12, <1>5
    <3>3. Off(L, p) = L
      BY <3>1, <3>2, <1>2, Absent
    <3> QED BY <3>3, <2>2, <2>8, <2>9, <2>10, <2>12
  <2> QED BY <2>11, <2>12
<1>8. CASE i # 0
  <2>0. i \in 1 .. Size
    BY <1>4, <1>8
  <2>1. PICK found : found = IF d.visible[s][i].price = p THEN d
                             ELSE IF d.visible[s][i].price = InvalidPrice
                             THEN [d EXCEPT !.visible[s][i] = Level(p)]
                             ELSE InsertLevelBefore(d, s, i, p)
    OBVIOUS
  <2>2. PICK more : more = [Enlarged(found.visible[s][i], qty) EXCEPT !.fresh = TRUE]
    OBVIOUS
  <2>3. r = [found EXCEPT !.visible[s][i] = more, !.changed = TRUE]
    BY <1>3, <1>8, <2>1, <2>2 DEF DepthAdd
  \* What was found, as a side that lists one level of the price p at i.
  <2>4. \E w, f, b, c, q :
          /\ found = Rewritten(d, s, w, f, b) /\ b \in BOOLEAN /\ SideOK(s, w, f)
          /\ w[i].price = p /\ w[i].count = c /\ w[i].qty = q
          /\ \A j \in 1 .. Size : j < i => w[j] = v[j]
          /\ Off(Listing(w, f), p) = Off(L, p)
          /\ Entry(p, c, q) \in L \/ (c = 0 /\ q = 0 /\ Off(L, p) = L)
          /\ Blanked(v) => Blanked(w)
    <3>1. CASE v[i].price = p
      <4>1. found = d
        BY <1>1, <2>1, <3>1
      <4>2. d = Rewritten(d, s, v, e, d.changed)
        <5>1. d.visible = [d.visible EXCEPT ![s] = v] /\ d.excess = [d.excess EXCEPT ![s] = e]
          BY <1>1, <1>2, DepthIs
        <5> QED BY <5>1, <1>2, DepthIs DEF Rewritten
      <4>3. Seen(v[i]) \in L /\ Seen(v[i]) = Entry(p, v[i].count, v[i].qty)
        BY <2>0, <3>1, <1>2, EntryIs DEF Listing
      <4> QED BY <4>1, <4>2, <4>3, <1>2, <3>1
    <3>2. CASE v[i].price # p /\ v[i].price = 0
      <4>1. Level(p) \in LevelType /\ Level(p).price = p /\ Level(p).count = 0 /\ Level(p).qty = 0
        BY LevelIs
      <4>2. PICK w : w = PutAt(v, i, Level(p))
        OBVIOUS
      <4>3. /\ SideOK(s, w, e) /\ Listing(w, e) = L \union {Seen(Level(p))} /\ w[i] = Level(p)
            /\ \A j \in 1 .. Size : j # i => w[j] = v[j]
            /\ \A j \in 1 .. Size : v[j].price # p
            /\ \A k \in e : k.price # p
        <5>1. /\ Level(p).price # 0 /\ v[i].price = 0
              /\ \A j \in 1 .. Size : j < i => v[j].price # 0 /\ Better(s, v[j].price, Level(p).price)
          BY <1>4, <3>2, <4>1
        <5>2. /\ SideOK(s, w, e) /\ Listing(w, e) = Listing(v, e) \union {Seen(Level(p))}
              /\ w[i] = Level(p)
              /\ \A j \in 1 .. Size : j # i => w[j] = v[j]
              /\ \A j \in 1 .. Size : v[j].price # Level(p).price
              /\ \A k \in e : k.price # Level(p).price
          <6>1. /\ SideOK(s, PutAt(v, i, Level(p)), e)
                /\ Listing(PutAt(v, i, Level(p)), e) = Listing(v, e) \union {Seen(Level(p))}
                /\ PutAt(v, i, Level(p))[i] = Level(p)
                /\ \A j \in 1 .. Size : j # i => PutAt(v, i, Level(p))[j] = v[j]
                /\ \A j \in 1 .. Size : v[j].price # Level(p).price
                /\ \A k \in e : k.price # Level(p).price
            BY <1>2, <2>0, <4>1, <5>1, Opened
          <6> QED BY <6>1, <4>2
        <5> QED BY <5>2, <1>2, <4>1
      <4>4. Off(L, p) = L
        BY <4>3, <1>2, Absent
      <4>5. Off(Listing(w, e), p) = Off(L, p)
        BY <4>1, <4>3, SeenIs DEF Off
      <4>6. found = Rewritten(d, s, w, e, d.changed)
        <5>1. found = SetL(d, s, i, Level(p))
          BY <1>1, <2>1, <3>2 DEF InvalidPrice, SetL
        <5>2. SetL(d, s, i, Level(p)) = Rewritten(d, s, PutAt(d.visible[s], i, Level(p)), d.excess[s], d.changed)
          BY <1>2, <2>0, <4>1, WriteAt
        <5> QED BY <5>1, <5>2, <1>1, <4>2
      <4>7. Blanked(v) => Blanked(w)
        BY <4>1, <4>3 DEF Blanked
      <4>8. \A j \in 1 .. Size : j < i => w[j] = v[j]
        BY <4>3, SizeIs
      <4> QED BY <1>2, <4>1, <4>3, <4>4, <4>5, <4>6, <4>7, <4>8
    <3>3. CASE v[i].price # p /\ v[i].price # 0
      <4>1. Better(s, p, v[i].price)
        BY <1>4, <1>8, <3>3
      <4>2. PICK w : w = Inserted1(v, i, p)
        OBVIOUS
      <4>3. PICK f : f = e \union Spilt(v)
        OBVIOUS
      <4>4. \A j \in 1 .. Size : j < i => v[j].price # 0 /\ Better(s, v[j].price, p)
        BY <1>4
      <4>5. /\ SideOK(s, w, f) /\ w[i] = Level(p)
            /\ \A j \in 1 .. Size : j < i => w[j] = v[j]
            /\ Listing(w, f) = L \union {Seen(Level(p))}
            /\ \A j \in 1 .. Size : v[j].price # p
            /\ \A k \in e : k.price # p
        <5>1. /\ SideOK(s, w, f) /\ w[i] = Level(p)
              /\ \A j \in 1 .. Size : j < i => w[j] = v[j]
              /\ Listing(w, f) = Listing(v, e) \union {Seen(Level(p))}
              /\ \A j \in 1 .. Size : v[j].price # p
              /\ \A k \in e : k.price # p
          <6>0. /\ SideOK(s, v, e) /\ i \in 1 .. Size /\ v[i].price # 0 /\ Better(s, p, v[i].price)
                /\ Behind(s, v, i, p)
            BY <1>2, <2>0, <3>3, <4>1, <4>4 DEF Behind
          <6>1. InsertedOK(s, v, e, i, p)
            BY <6>0, SpillIs
          <6> QED BY <6>1, <4>2, <4>3 DEF InsertedOK
        <5> QED BY <5>1, <1>2
      <4>6. found = Rewritten(d, s, w, f, Yes)
        <5>1. found = InsertLevelBefore(d, s, i, p)
          BY <1>1, <2>1, <3>3 DEF InvalidPrice
        <5>2. SideOK(s, Inserted1(d.visible[s], i, p), d.excess[s] \union Spilt(d.visible[s]))
          BY <1>1, <4>2, <4>3, <4>5
        <5>3. InsertLevelBefore(d, s, i, p) =
                Rewritten(d, s, Inserted1(d.visible[s], i, p), d.excess[s] \union Spilt(d.visible[s]), Yes)
          BY <5>2, <2>0, InsertForm
        <5> QED BY <5>1, <5>3, <1>1, <4>2, <4>3
      <4>7. Off(L, p) = L
        BY <4>5, <1>2, Absent
      <4>8. Level(p).price = p /\ Level(p).count = 0 /\ Level(p).qty = 0
        BY LevelIs
      <4>9. Off(Listing(w, f), p) = Off(L, p)
        BY <4>5, <4>8, SeenIs DEF Off
      <4>10. Blanked(v) => Blanked(w)
        <5> SUFFICES ASSUME Blanked(v), NEW j \in 1 .. Size, w[j].price = 0 PROVE w[j].qty = 0
          BY DEF Blanked
        <5>1. j < i \/ j = i \/ (j > i /\ j - 1 \in 1 .. Size)
          BY <2>0, SizeIs
        <5>2. CASE j > i /\ j - 1 \in 1 .. Size
          <6>1. w[j] = Touched(v[j - 1])
            BY <4>2, <5>2, SizeIs DEF Inserted1
          <6>2. v[j - 1] \in LevelType
            BY <5>2, <1>2 DEF Visibles
          <6>3. v[j - 1].price = 0 /\ w[j].qty = v[j - 1].qty
            BY <6>1, <6>2, TouchedIs
          <6> QED BY <5>2, <6>3 DEF Blanked
        <5> QED BY <5>1, <5>2, <4>5, <4>8 DEF Blanked
      <4>11. Yes \in BOOLEAN
        BY YesIs
      <4> QED BY <4>5, <4>6, <4>7, <4>8, <4>9, <4>10, <4>11
    <3> QED BY <3>1, <3>2, <3>3
  <2>5. PICK w, f, b, c, q :
          /\ found = Rewritten(d, s, w, f, b) /\ b \in BOOLEAN /\ SideOK(s, w, f)
          /\ w[i].price = p /\ w[i].count = c /\ w[i].qty = q
          /\ \A j \in 1 .. Size : j < i => w[j] = v[j]
          /\ Off(Listing(w, f), p) = Off(L, p)
          /\ Entry(p, c, q) \in L \/ (c = 0 /\ q = 0 /\ Off(L, p) = L)
          /\ Blanked(v) => Blanked(w)
    BY <2>4
  <2>6. /\ Shape(found) /\ found.visible[s] = w /\ found.excess[s] = f
        /\ found.changed = b
    BY <2>5, RewrittenIs
  <2>7. w[i] \in LevelType /\ c \in Nat /\ q \in Int
    BY <2>0, <2>5 DEF SideOK, Visibles, LevelType
  <2>8. /\ more \in LevelType /\ more.fresh /\ more.price = p /\ more.count = c + 1
        /\ more.qty = q + qty
    <3>1. PICK k : k = Enlarged(w[i], qty)
      OBVIOUS
    <3>2. more = [k EXCEPT !.fresh = TRUE]
      BY <3>1, <2>2, <2>6
    <3>3. k \in LevelType /\ k.price = w[i].price /\ k.count = w[i].count + 1 /\ k.qty = w[i].qty + qty
      BY <3>1, <2>7, EnlargedIs
    <3>4. /\ more \in LevelType /\ more.fresh = TRUE /\ more.price = k.price
          /\ more.count = k.count /\ more.qty = k.qty
      BY <3>2, <3>3, FreshIs
    <3> QED BY <3>3, <3>4, <2>5
  <2>9. PICK x : x = PutAt(w, i, more)
    OBVIOUS
  <2>10. /\ SideOK(s, x, f) /\ x[i] = more /\ \A j \in 1 .. Size : j # i => x[j] = w[j]
         /\ Listing(x, f) = Off(L, p) \union {Seen(more)}
    <3>1. /\ more.price = w[i].price /\ more.price # 0 /\ SideOK(s, w, f) /\ i \in 1 .. Size
          /\ more \in LevelType
      BY <2>0, <2>5, <2>8
    <3>2. SideOK(s, PutAt(w, i, more), f)
      BY <3>1, Refilled
    <3>3. PutAt(w, i, more)[i] = more /\ \A j \in 1 .. Size : j # i => PutAt(w, i, more)[j] = w[j]
      BY <3>1, Refilled
    <3>4. Listing(PutAt(w, i, more), f) = Off(Listing(w, f), more.price) \union {Seen(more)}
      BY <3>1, Refilled
    <3> QED BY <3>2, <3>3, <3>4, <2>5, <2>8, <2>9
  <2>11. r = Rewritten(found, s, x, f, Yes)
    <3>1. SetLC(found, s, i, more) = Rewritten(found, s, PutAt(found.visible[s], i, more), found.excess[s], Yes)
      <4>1. found \in Depths
        BY <2>6 DEF Shape
      <4> QED BY <4>1, <2>0, <2>8, WriteAt
    <3>2. r = SetLC(found, s, i, more)
      BY <2>3 DEF SetLC
    <3> QED BY <3>1, <3>2, <2>6, <2>9
  <2>12. r = Rewritten(d, s, x, f, Yes)
    <3>1. d \in Depths /\ found = Rewritten(d, s, w, f, b)
      BY <1>2, <2>5
    <3>2. Rewritten(found, s, x, f, Yes) = Rewritten(d, s, x, f, Yes)
      BY <3>1, RewriteTwice
    <3> QED BY <3>2, <2>11
  <2>13. x[1].fresh \/ x[1] = v[1]
    <3>1. i = 1 \/ (1 < i /\ 1 # i /\ 1 \in 1 .. Size)
      BY <2>0, SizeIs
    <3> QED BY <3>1, <2>5, <2>8, <2>10
  <2>14. Blanked(v) => Blanked(x)
    BY <2>5, <2>8, <2>10 DEF Blanked
  <2>15. Turns(d, r, s, p, {Seen(more)})
    BY <1>1, <1>2, <2>10, <2>12, <2>13, <2>14, TurnsIs, YesIs
  <2>16. Seen(more) = Entry(p, c + 1, q + qty)
    BY <2>8, EntryIs
  <2> QED BY <2>5, <2>7, <2>15, <2>16
<1> QED BY <1>7, <1>8

ShiftedUp(v, i) ==
  [j \in 1 .. Size |-> IF j \in i .. (Size - 1) /\ (j = i \/ v[j].price # InvalidPrice)
                       THEN [v[j + 1] EXCEPT !.fresh = TRUE] ELSE v[j]]

\* What is known of the levels once those behind i have moved up.
LEMMA ShiftIs ==
  ASSUME NEW s, NEW v, NEW e, SideOK(s, v, e), NEW i \in 1 .. Size, NEW w, w = ShiftedUp(v, i)
  PROVE  /\ w \in Visibles
         /\ \A j \in 1 .. Size : j < i => w[j] = v[j]
         /\ \A j \in 1 .. Size : i <= j /\ j < Size =>
              /\ j + 1 \in 1 .. Size
              /\ w[j].price = v[j + 1].price /\ w[j].count = v[j + 1].count
              /\ v[j + 1].price # 0 => w[j].qty = v[j + 1].qty
              /\ Blanked(v) => w[j].qty = v[j + 1].qty
         /\ w[Size] = v[Size]
         /\ 1 < Size => w[1].fresh \/ w[1] = v[1]
<1>1. v \in Visibles /\ Ordered(s, v, e)
  BY DEF SideOK
<1>2. \A j \in 1 .. Size : v[j] \in LevelType
  BY <1>1 DEF Visibles
<1>3. \A j \in 1 .. Size : i <= j /\ j < Size => j + 1 \in 1 .. Size /\ j \in i .. (Size - 1) /\ j < j + 1
  BY SizeIs
<1>4. \A j \in 1 .. Size : w[j] = IF j \in i .. (Size - 1) /\ (j = i \/ v[j].price # 0)
                                  THEN [v[j + 1] EXCEPT !.fresh = TRUE] ELSE v[j]
  BY DEF ShiftedUp, InvalidPrice
<1>5. ASSUME NEW j \in 1 .. Size, j \in i .. (Size - 1), j = i \/ v[j].price # 0
      PROVE  /\ w[j] \in LevelType /\ w[j].fresh /\ w[j].price = v[j + 1].price
             /\ w[j].count = v[j + 1].count /\ w[j].qty = v[j + 1].qty
  <2>1. j + 1 \in 1 .. Size /\ w[j] = [v[j + 1] EXCEPT !.fresh = TRUE]
    BY <1>3, <1>4, <1>5, SizeIs
  <2>2. v[j + 1] \in LevelType
    BY <2>1, <1>2
  <2> QED BY <2>1, <2>2 DEF LevelType
<1>6. w \in Visibles
  <2>1. \A j \in 1 .. Size : w[j] \in LevelType
    BY <1>2, <1>4, <1>5
  <2>2. w = [j \in 1 .. Size |-> w[j]]
    BY DEF ShiftedUp
  <2> QED BY <2>1, <2>2 DEF Visibles
<1>7. \A j \in 1 .. Size : j < i => w[j] = v[j]
  <2>1. \A j \in 1 .. Size : j < i => ~ (j \in i .. (Size - 1))
    BY SizeIs
  <2> QED BY <2>1, <1>4
<1>8. w[Size] = v[Size]
  <2>1. ~ (Size \in i .. (Size - 1)) /\ Size \in 1 .. Size
    BY SizeIs
  <2> QED BY <2>1, <1>4
<1>9. ASSUME NEW j \in 1 .. Size, i <= j, j < Size
      PROVE  /\ j + 1 \in 1 .. Size
             /\ w[j].price = v[j + 1].price /\ w[j].count = v[j + 1].count
             /\ v[j + 1].price # 0 => w[j].qty = v[j + 1].qty
             /\ Blanked(v) => w[j].qty = v[j + 1].qty
  <2>1. j + 1 \in 1 .. Size /\ j \in i .. (Size - 1) /\ j < j + 1
    BY <1>3, <1>9
  <2>2. CASE j = i \/ v[j].price # 0
    BY <2>1, <2>2, <1>5
  <2>3. CASE ~ (j = i \/ v[j].price # 0)
    <3>1. w[j] = v[j] /\ v[j].price = 0
      BY <2>3, <1>4
    <3>2. v[j + 1].price = 0
      BY <2>1, <3>1, <1>1 DEF Ordered
    <3>3. v[j].count = 0 /\ v[j + 1].count = 0
      BY <2>1, <3>1, <3>2, <1>1 DEF Ordered
    <3>4. Blanked(v) => v[j].qty = 0 /\ v[j + 1].qty = 0
      BY <2>1, <3>1, <3>2 DEF Blanked
    <3> QED BY <2>1, <3>1, <3>2, <3>3, <3>4
  <2> QED BY <2>2, <2>3
<1>10. ASSUME 1 < Size PROVE w[1].fresh \/ w[1] = v[1]
  BY <1>4, <1>5, SizeIs
<1> QED BY <1>6, <1>7, <1>8, <1>9, <1>10

\* erase_level, of the level of a price.
LEMMA EraseLevelIs ==
  ASSUME NEW d, Shape(d), NEW s \in Sides, NEW i \in 1 .. Size, NEW p, p = d.visible[s][i].price, p # 0,
         NEW r, r = EraseLevel(d, s, i)
  PROVE  Turns(d, r, s, p, {})
<1>1. PICK v, e : v = d.visible[s] /\ e = d.excess[s]
  OBVIOUS
<1>2. /\ SideOK(s, v, e) /\ v \in Visibles /\ e \in SUBSET LevelType /\ Ordered(s, v, e)
      /\ d.changed \in BOOLEAN /\ d \in Depths
  BY <1>1, SideIs
<1>3. PICK u : u = ShiftedUp(v, i)
  OBVIOUS
<1>4. /\ u \in Visibles
      /\ \A j \in 1 .. Size : j < i => u[j] = v[j]
      /\ \A j \in 1 .. Size : i <= j /\ j < Size =>
           /\ j + 1 \in 1 .. Size
           /\ u[j].price = v[j + 1].price /\ u[j].count = v[j + 1].count
           /\ v[j + 1].price # 0 => u[j].qty = v[j + 1].qty
           /\ Blanked(v) => u[j].qty = v[j + 1].qty
      /\ u[Size] = v[Size]
      /\ 1 < Size => u[1].fresh \/ u[1] = v[1]
  BY <1>2, <1>3, ShiftIs
<1>5. PICK m : m = SetVC(d, s, u)
  OBVIOUS
<1>6. m = Rewritten(d, s, u, e, Yes)
  BY <1>1, <1>2, <1>4, <1>5, RewriteForms
<1>12. d \in Depths /\ u \in Visibles /\ e \in SUBSET LevelType /\ Yes \in BOOLEAN
  BY <1>2, <1>4, YesIs
<1>7. m \in Depths /\ m.visible[s] = u /\ m.excess[s] = e /\ m.changed = Yes
  BY <1>6, <1>12, RewriteOnce
<1>8. r = IF i = Size \/ v[Size].price # 0 THEN RestoreLast(m, s) ELSE m
  BY <1>1, <1>3, <1>5 DEF EraseLevel, ShiftedUp, SetVC, InvalidPrice
\* Any levels with what RestoreLast leaves in the last place.
<1>9. ASSUME NEW w \in Visibles, NEW f, NEW b, r = Rewritten(d, s, w, f, Yes),
             \A j \in 1 .. Size : j # Size => w[j] = u[j],
             e = {} => f = {} /\ w[Size].price = 0 /\ w[Size].count = 0 /\ (Blanked(v) => w[Size].qty = 0),
             e # {} => /\ b \in e /\ (\A l \in e : l = b \/ Better(s, b.price, l.price))
                       /\ f = e \ {b} /\ Seen(w[Size]) = Seen(b),
             Size = 1 => w[1].fresh
      PROVE  Turns(d, r, s, p, {})
  <2>1. \A j \in 1 .. Size : j < i => w[j] = v[j]
    <3> TAKE j \in 1 .. Size
    <3> HAVE j < i
    <3>1. j # Size
      BY SizeIs
    <3> QED BY <3>1, <1>4, <1>9
  <2>2. \A j \in 1 .. Size : i <= j /\ j < Size =>
          /\ w[j].price = v[j + 1].price /\ w[j].count = v[j + 1].count
          /\ v[j + 1].price # 0 => w[j].qty = v[j + 1].qty
    BY <1>4, <1>9, SizeIs
  <2>3. p = v[i].price
    BY <1>1
  <2>4. SideOK(s, w, f) /\ Listing(w, f) = Off(Listing(v, e), p)
    <3>1. Erased(s, v, e, i, w, f, b)
      BY <1>9, <2>1, <2>2 DEF Erased
    <3>2. SideOK(s, v, e) /\ w \in Visibles /\ i \in 1 .. Size
      BY <1>2
    <3> QED BY <3>1, <3>2, <2>3, EraseIs
  <2>5. w[1].fresh \/ w[1] = v[1]
    <3>1. Size = 1 \/ (1 < Size /\ 1 # Size /\ 1 \in 1 .. Size)
      BY SizeIs
    <3> QED BY <3>1, <1>4, <1>9
  <2>6. Blanked(v) => Blanked(w)
    <3> SUFFICES ASSUME Blanked(v), NEW j \in 1 .. Size, w[j].price = 0 PROVE w[j].qty = 0
      BY DEF Blanked
    <3>1. j < i \/ (i <= j /\ j < Size /\ j # Size) \/ j = Size
      BY SizeIs
    <3>2. CASE j < i
      BY <2>1, <3>2 DEF Blanked
    <3>3. CASE i <= j /\ j < Size /\ j # Size
      <4>1. w[j] = u[j] /\ j + 1 \in 1 .. Size /\ u[j].price = v[j + 1].price /\ u[j].qty = v[j + 1].qty
        BY <1>4, <1>9, <3>3
      <4> QED BY <4>1 DEF Blanked
    <3>4. CASE j = Size
      <4>1. CASE e = {}
        BY <4>1, <1>9, <3>4
      <4>2. CASE e # {}
        <5>1. w[Size].price = b.price /\ b \in e
          BY <4>2, <1>9, SeenIs
        <5>2. b.price # 0
          BY <5>1, <1>2 DEF Ordered
        <5> QED BY <5>1, <5>2, <3>4
      <4> QED BY <4>1, <4>2
    <3> QED BY <3>1, <3>2, <3>3, <3>4
  <2>7. Listing(w, f) = Off(Listing(d.visible[s], d.excess[s]), p) \union {}
    BY <2>4, <1>1
  <2>8. Shape(d) /\ Yes \in BOOLEAN /\ SideOK(s, w, f) /\ r = Rewritten(d, s, w, f, Yes)
        /\ (w[1].fresh \/ w[1] = d.visible[s][1])
        /\ (p # 0 => /\ Listing(w, f) = Off(Listing(d.visible[s], d.excess[s]), p) \union {}
                     /\ Blanked(d.visible[s]) => Blanked(w))
    BY <2>4, <2>5, <2>6, <2>7, <1>1, <1>9, YesIs
  <2> QED BY <2>8, TurnsIs
<1>10. CASE ~ (i = Size \/ v[Size].price # 0)
  <2>1. v[Size].price = 0 /\ r = Rewritten(d, s, u, e, Yes)
    BY <1>6, <1>8, <1>10
  <2>2. e = {} /\ v[Size].count = 0 /\ (Blanked(v) => v[Size].qty = 0)
    BY <2>1, <1>2, SizeIs DEF Ordered, Blanked
  <2>3. Size # 1
    BY <1>10, SizeIs
  <2>4. e = {} => e = {} /\ u[Size].price = 0 /\ u[Size].count = 0 /\ (Blanked(v) => u[Size].qty = 0)
    BY <2>1, <2>2, <1>4
  <2>5. PICK f, b : f = e /\ b = e
    OBVIOUS
  <2> QED BY <2>1, <2>2, <2>3, <2>4, <2>5, <1>4, <1>9
<1>11. CASE i = Size \/ v[Size].price # 0
  <2>1. r = RestoreLast(m, s)
    BY <1>8, <1>11
  <2>2. CASE e = {}
    <3>1. PICK l : l = Level(0)
      OBVIOUS
    <3>2. l \in LevelType /\ l.price = 0 /\ l.count = 0 /\ l.qty = 0 /\ l.fresh
      BY <3>1, LevelIs
    <3>3. r = SetL(m, s, Size, l)
      BY <2>1, <2>2, <1>7, <3>1 DEF RestoreLast, SetL, InvalidPrice
    <3>4. PICK w : w = PutAt(u, Size, l)
      OBVIOUS
    <3>5. r = Rewritten(m, s, w, e, Yes)
      BY <1>7, <3>2, <3>3, <3>4, WriteAt, SizeIs
    <3>6. r = Rewritten(d, s, w, e, Yes)
      <4>1. Rewritten(m, s, w, e, Yes) = Rewritten(d, s, w, e, Yes)
        BY <1>6, <1>12, RewriteTwice
      <4> QED BY <4>1, <3>5
    <3>7. w \in Visibles /\ w[Size] = l /\ \A j \in 1 .. Size : j # Size => w[j] = u[j]
      BY <1>4, <3>2, <3>4, SizeIs DEF PutAt, Visibles
    <3> QED BY <3>2, <3>6, <3>7, <2>2, <1>9
  <2>3. CASE e # {}
    <3>1. PICK b : b = BestOf(s, e)
      OBVIOUS
    <3>2. IsFiniteSet(e) /\ \A k, l \in e : k.price = l.price => k = l
      BY <1>2 DEF Ordered
    <3>3. b \in e /\ \A l \in e : l = b \/ Better(s, b.price, l.price)
      BY <1>2, <2>3, <3>1, <3>2, BestIs
    <3>4. PICK l : l = [b EXCEPT !.fresh = TRUE]
      OBVIOUS
    <3>5. l \in LevelType /\ l.fresh = TRUE /\ Seen(l) = Seen(b)
      <4>1. b \in LevelType
        BY <1>2, <3>3
      <4>2. l \in LevelType /\ l.fresh = TRUE /\ l.price = b.price /\ l.count = b.count /\ l.qty = b.qty
        BY <4>1, <3>4 DEF LevelType
      <4> QED BY <4>2, SeenIs
    <3>6. PICK f : f = e \ {b}
      OBVIOUS
    <3>7. PICK w : w = PutAt(u, Size, l)
      OBVIOUS
    <3>8. w \in Visibles /\ w[Size] = l /\ \A j \in 1 .. Size : j # Size => w[j] = u[j]
      BY <1>4, <3>5, <3>7, SizeIs DEF PutAt, Visibles
    <3>9. r = SetVE(m, s, w, f)
      <4>1. r = [m EXCEPT !.visible[s][Size] = l, !.excess[s] = @ \ {b}]
        BY <2>1, <2>3, <1>7, <3>1, <3>4 DEF RestoreLast
      <4>2. PICK h : h = [m EXCEPT !.visible[s][Size] = l]
        OBVIOUS
      <4>3. h = [m EXCEPT !.visible[s] = w]
        BY <4>2, <1>7, <3>7 DEF PutAt
      <4>4. h.excess = m.excess
        BY <4>3, <1>7 DEF Depths
      <4>5. r = [h EXCEPT !.excess[s] = f]
        BY <4>1, <4>2, <4>4, <1>7, <3>6
      <4>6. SetVE(m, s, w, f) = [[m EXCEPT !.visible[s] = w] EXCEPT !.excess[s] = f]
        BY DEF SetVE
      <4> QED BY <4>3, <4>5, <4>6
    <3>10. f \in SUBSET LevelType
      BY <1>2, <3>6
    <3>11. r = Rewritten(m, s, w, f, Yes)
      BY <1>7, <3>8, <3>9, <3>10, RewriteForms
    <3>12. r = Rewritten(d, s, w, f, Yes)
      <4>1. Rewritten(m, s, w, f, Yes) = Rewritten(d, s, w, f, Yes)
        BY <1>6, <1>12, RewriteTwice
      <4> QED BY <4>1, <3>11
    <3> QED BY <3>3, <3>5, <3>6, <3>8, <3>12, <2>3, <1>9
  <2> QED BY <2>2, <2>3
<1> QED BY <1>10, <1>11

\* A visible level is given another content and marked; p may be the price of no level.
LEMMA SetVisible ==
  ASSUME NEW d, Shape(d), NEW s \in Sides, NEW i \in 1 .. Size, NEW p, p = d.visible[s][i].price,
         NEW l \in LevelType, l.price = p, p = 0 => l.count = 0, l.fresh, NEW r, r = SetLC(d, s, i, l)
  PROVE  Turns(d, r, s, p, {Seen(l)})
<1>1. PICK v, e : v = d.visible[s] /\ e = d.excess[s]
  OBVIOUS
<1>2. /\ SideOK(s, v, e) /\ v \in Visibles /\ e \in SUBSET LevelType /\ d \in Depths
  BY <1>1, SideIs
<1>3. PICK w : w = PutAt(v, i, l)
  OBVIOUS
<1>4. SideOK(s, v, e) /\ l.price = v[i].price /\ (l.price = 0 => l.count = 0)
  BY <1>1, <1>2
<1>5. SideOK(s, PutAt(v, i, l), e)
  BY <1>4, Refilled
<1>6. PutAt(v, i, l)[i] = l /\ \A j \in 1 .. Size : j # i => PutAt(v, i, l)[j] = v[j]
  BY <1>4, Refilled
<1>7. l.price # 0 => Listing(PutAt(v, i, l), e) = Off(Listing(v, e), l.price) \union {Seen(l)}
  BY <1>4, Refilled
<1>8. r = Rewritten(d, s, w, e, Yes)
  <2>1. SetLC(d, s, i, l) = Rewritten(d, s, PutAt(d.visible[s], i, l), d.excess[s], Yes)
    BY <1>2, WriteAt
  <2> QED BY <2>1, <1>1, <1>3
<1>9. w[1].fresh \/ w[1] = d.visible[s][1]
  BY <1>1, <1>3, <1>6, SizeIs
<1>10. p # 0 => /\ Listing(w, e) = Off(Listing(d.visible[s], d.excess[s]), p) \union {Seen(l)}
                /\ Blanked(d.visible[s]) => Blanked(w)
  <2>1. p # 0 /\ Blanked(v) => Blanked(w)
    BY <1>3, <1>6 DEF Blanked
  <2> QED BY <2>1, <1>1, <1>3, <1>7
<1>11. Yes \in BOOLEAN /\ SideOK(s, w, e)
  BY <1>3, <1>5, YesIs
<1> QED BY <1>8, <1>9, <1>10, <1>11, TurnsIs

\* A level of the excess is given another content.
LEMMA SetExcess ==
  ASSUME NEW d, Shape(d), NEW s \in Sides, NEW p, NEW k \in d.excess[s], k.price = p,
         NEW l \in LevelType, l.price = p,
         NEW r, r = SetEC(d, s, (d.excess[s] \ ExcessAt(d, s, p)) \union {l})
  PROVE  p # 0 /\ Turns(d, r, s, p, {Seen(l)})
<1>1. PICK v, e : v = d.visible[s] /\ e = d.excess[s]
  OBVIOUS
<1>2. /\ SideOK(s, v, e) /\ v \in Visibles /\ e \in SUBSET LevelType /\ d \in Depths /\ Ordered(s, v, e)
  BY <1>1, SideIs
<1>3. p # 0 /\ \A i \in 1 .. Size : v[i].price # 0 /\ Better(s, v[i].price, l.price)
  BY <1>1, <1>2 DEF Ordered
<1>4. PICK f : f = (e \ {x \in e : x.price = l.price}) \union {l}
  OBVIOUS
<1>5. SideOK(s, v, f) /\ Listing(v, f) = Off(Listing(v, e), l.price) \union {Seen(l)}
  BY <1>2, <1>3, <1>4, Stored
<1>6. r = SetEC(d, s, f)
  BY <1>1, <1>4 DEF ExcessAt
<1>7. r = Rewritten(d, s, v, f, Yes)
  <2>1. f \in SUBSET LevelType
    BY <1>5 DEF SideOK
  <2>2. SetEC(d, s, f) = Rewritten(d, s, d.visible[s], f, Yes)
    BY <2>1, <1>2, RewriteForms
  <2> QED BY <2>2, <1>1, <1>6
<1>8. /\ Yes \in BOOLEAN /\ SideOK(s, v, f) /\ v[1] = d.visible[s][1]
      /\ p # 0 => /\ Listing(v, f) = Off(Listing(d.visible[s], d.excess[s]), p) \union {Seen(l)}
                  /\ Blanked(d.visible[s]) => Blanked(v)
  BY <1>1, <1>5, YesIs
<1> QED BY <1>3, <1>7, <1>8, TurnsIs

\* A level of the excess is erased.
LEMMA LeaveExcess ==
  ASSUME NEW d, Shape(d), NEW s \in Sides, NEW p, NEW k \in d.excess[s], k.price = p,
         NEW r, r = SetE(d, s, d.excess[s] \ ExcessAt(d, s, p))
  PROVE  p # 0 /\ Turns(d, r, s, p, {})
<1>1. PICK v, e : v = d.visible[s] /\ e = d.excess[s]
  OBVIOUS
<1>2. /\ SideOK(s, v, e) /\ v \in Visibles /\ e \in SUBSET LevelType /\ d \in Depths /\ Ordered(s, v, e)
      /\ d.changed \in BOOLEAN
  BY <1>1, SideIs
<1>3. p # 0 /\ \A i \in 1 .. Size : v[i].price # p
  <2>1. p # 0 /\ \A i \in 1 .. Size : Better(s, v[i].price, p)
    BY <1>1, <1>2 DEF Ordered
  <2>2. p \in Nat /\ \A i \in 1 .. Size : v[i].price \in Nat
    BY <1>1, <1>2 DEF Visibles, LevelType
  <2> QED BY <2>1, <2>2, BetterIs
<1>4. PICK f : f = e \ {x \in e : x.price = p}
  OBVIOUS
<1>5. SideOK(s, v, f) /\ Listing(v, f) = Off(Listing(v, e), p)
  BY <1>2, <1>3, <1>4, Dropped
<1>6. r = SetE(d, s, f)
  BY <1>1, <1>4 DEF ExcessAt
<1>7. r = Rewritten(d, s, v, f, d.changed)
  <2>1. f \in SUBSET LevelType
    BY <1>5 DEF SideOK
  <2>2. SetE(d, s, f) = Rewritten(d, s, d.visible[s], f, d.changed)
    BY <2>1, <1>2, RewriteForms
  <2> QED BY <2>2, <1>1, <1>6
<1>8. /\ d.changed \in BOOLEAN /\ SideOK(s, v, f) /\ v[1] = d.visible[s][1] /\ v = d.visible[s]
      /\ p # 0 => /\ Listing(v, f) = Off(Listing(d.visible[s], d.excess[s]), p) \union {}
                  /\ Blanked(d.visible[s]) => Blanked(v)
  BY <1>1, <1>2, <1>5
<1> QED BY <1>3, <1>7, <1>8, TurnsIs

\* The entry of a price is what its level shows.
LEMMA LevelFound ==
  ASSUME NEW d, Shape(d), NEW s \in Sides, NEW p \in Nat, NEW c, NEW q,
         p # 0, Entry(p, c, q) \in Listing(d.visible[s], d.excess[s])
  PROVE  /\ \A i \in 1 .. Size : d.visible[s][i].price = p =>
              c = d.visible[s][i].count /\ q = d.visible[s][i].qty
         /\ \A l \in d.excess[s] : l.price = p => c = l.count /\ q = l.qty
         /\ \/ \E i \in 1 .. Size : d.visible[s][i].price = p
            \/ \E l \in d.excess[s] : l.price = p
<1>1. PICK x : x = [price |-> p, count |-> c, qty |-> q]
  OBVIOUS
<1>2. x \in Listing(d.visible[s], d.excess[s])
  BY <1>1 DEF Entry
<1> QED BY <1>1, <1>2, ListedAt

\* The order of a price that is closed leaves, and its level with the last one.
Closed(p, c, q) == IF c = 1 THEN {} ELSE {Entry(p, c - 1, q)}

\* close_order: its level has one order less, or the levels are left.
LEMMA CloseIs ==
  ASSUME NEW d, Shape(d), NEW s \in Sides, NEW p \in Nat, NEW qty \in Int,
         NEW r, r = DepthClose(d, s, p, qty),
         NEW L, L = Listing(d.visible[s], d.excess[s])
  PROVE  \/ /\ r = Lose(d)
            /\ \A c \in Nat, q \in Int : p # 0 /\ Entry(p, c, q) \in L => c = 0 \/ (c > 1 /\ q < qty)
         \/ /\ p # 0
            /\ \E c \in Nat, q \in Int : Entry(p, c, q) \in L /\ c # 0 /\ Turns(d, r, s, p, Closed(p, c, q - qty))
<1>1. PICK v, e : v = d.visible[s] /\ e = d.excess[s]
  OBVIOUS
<1>2. /\ SideOK(s, v, e) /\ v \in Visibles /\ e \in SUBSET LevelType /\ d \in Depths /\ Ordered(s, v, e)
      /\ L = Listing(v, e)
  BY <1>1, SideIs
<1>3. PICK i : i = PositionOf(d, s, p)
  OBVIOUS
<1>4. /\ i \in 0 .. Size /\ (i # 0 => i \in 1 .. Size /\ v[i].price = p)
      /\ i = 0 => \A j \in 1 .. Size : v[j].price # p
  BY <1>1, <1>2, <1>3, PositionIs
<1>5. PICK at : at = ExcessAt(d, s, p)
  OBVIOUS
<1>6. at = {l \in e : l.price = p}
  BY <1>1, <1>5 DEF ExcessAt
<1>7. PICK l : l = IF i # 0 THEN v[i] ELSE CHOOSE x \in at : TRUE
  OBVIOUS
<1>8. PICK left : left = [l EXCEPT !.count = @ - 1, !.qty = @ - qty, !.fresh = TRUE]
  OBVIOUS
<1>9. r = IF (i = 0 /\ at = {}) \/ l.count = 0 \/ (l.count > 1 /\ l.qty < qty) THEN Lose(d)
          ELSE IF l.count = 1
          THEN IF i # 0 THEN EraseLevel(d, s, i) ELSE SetE(d, s, d.excess[s] \ at)
          ELSE IF i # 0 THEN SetLC(d, s, i, left)
          ELSE SetEC(d, s, (d.excess[s] \ at) \union {left})
  BY <1>1, <1>3, <1>5, <1>7, <1>8 DEF DepthClose, SetE, SetLC, SetEC
<1>10. \A c, q : p # 0 /\ Entry(p, c, q) \in L =>
         /\ ~ (i = 0 /\ at = {})
         /\ c = l.count /\ q = l.qty
  <2> TAKE c, q
  <2> HAVE p # 0 /\ Entry(p, c, q) \in L
  <2>1. /\ \A j \in 1 .. Size : v[j].price = p => c = v[j].count /\ q = v[j].qty
        /\ \A k \in e : k.price = p => c = k.count /\ q = k.qty
        /\ (\E j \in 1 .. Size : v[j].price = p) \/ (\E k \in e : k.price = p)
    BY <1>1, LevelFound
  <2> QED BY <2>1, <1>4, <1>6, <1>7
<1>11. CASE (i = 0 /\ at = {}) \/ l.count = 0 \/ (l.count > 1 /\ l.qty < qty)
  <2>1. r = Lose(d)
    BY <1>9, <1>11
  <2> QED BY <2>1, <1>10, <1>11
<1>12. CASE ~ ((i = 0 /\ at = {}) \/ l.count = 0 \/ (l.count > 1 /\ l.qty < qty))
  <2>1. l \in LevelType /\ l.price = p /\ l.count \in Nat /\ l.qty \in Int /\ l.count # 0
    <3>1. CASE i # 0
      BY <3>1, <1>2, <1>4, <1>7, <1>12 DEF Visibles, LevelType
    <3>2. CASE i = 0
      <4>1. l \in at
        BY <3>2, <1>7, <1>12
      <4> QED BY <4>1, <1>2, <1>6, <1>12 DEF LevelType
    <3> QED BY <3>1, <3>2
  <2>2. p # 0
    <3>1. CASE i # 0
      BY <3>1, <2>1, <1>2, <1>4, <1>7 DEF Ordered
    <3>2. CASE i = 0
      <4>1. l \in e
        BY <3>2, <1>6, <1>7, <1>12
      <4> QED BY <4>1, <2>1, <1>2 DEF Ordered
    <3> QED BY <3>1, <3>2
  <2>3. Seen(l) \in L /\ Seen(l) = Entry(p, l.count, l.qty)
    <3>1. Seen(l) = Entry(p, l.count, l.qty)
      BY <2>1, EntryIs
    <3>2. CASE i # 0
      BY <3>1, <3>2, <2>1, <2>2, <1>2, <1>4, <1>7 DEF Listing
    <3>3. CASE i = 0
      <4>1. l \in e
        BY <3>3, <1>6, <1>7, <1>12
      <4> QED BY <3>1, <4>1, <1>2 DEF Listing
    <3> QED BY <3>2, <3>3
  <2>4. /\ left \in LevelType /\ left.fresh /\ left.price = p
        /\ left.count = l.count - 1 /\ left.qty = l.qty - qty
    <3>1. l \in LevelType /\ l.count # 0
      BY <2>1
    <3>2. /\ left \in LevelType /\ left.fresh /\ left.price = l.price
          /\ left.count = l.count - 1 /\ left.qty = l.qty - qty
      <4>1. PICK c \in Nat : c = l.count - 1
        BY <3>1 DEF LevelType
      <4>2. PICK q \in Int : q = l.qty - qty
        BY <3>1 DEF LevelType
      <4>3. left = [l EXCEPT !.count = c, !.qty = q, !.fresh = TRUE]
        BY <4>1, <4>2, <1>8
      <4> QED BY <3>1, <4>1, <4>2, <4>3 DEF LevelType
    <3> QED BY <3>2, <2>1
  <2>5. Seen(left) = Entry(p, l.count - 1, l.qty - qty)
    BY <2>4, EntryIs
  <2>6. Turns(d, r, s, p, Closed(p, l.count, l.qty - qty))
    <3>1. CASE l.count = 1 /\ i # 0
      <4>1. r = EraseLevel(d, s, i) /\ i \in 1 .. Size /\ p = d.visible[s][i].price
        BY <3>1, <1>1, <1>4, <1>9, <1>12
      <4>2. Turns(d, r, s, p, {})
        BY <4>1, <2>2, EraseLevelIs
      <4> QED BY <4>2, <3>1 DEF Closed
    <3>2. CASE l.count = 1 /\ i = 0
      <4>1. r = SetE(d, s, d.excess[s] \ ExcessAt(d, s, p)) /\ l \in d.excess[s]
        BY <3>2, <1>1, <1>5, <1>6, <1>7, <1>9, <1>12
      <4>2. Turns(d, r, s, p, {})
        BY <4>1, <2>1, LeaveExcess
      <4> QED BY <4>2, <3>2 DEF Closed
    <3>3. CASE l.count # 1 /\ i # 0
      <4>1. r = SetLC(d, s, i, left) /\ i \in 1 .. Size /\ p = d.visible[s][i].price
        BY <3>3, <1>1, <1>4, <1>9, <1>12
      <4>2. Turns(d, r, s, p, {Seen(left)})
        BY <4>1, <2>2, <2>4, SetVisible
      <4> QED BY <4>2, <2>5, <3>3 DEF Closed
    <3>4. CASE l.count # 1 /\ i = 0
      <4>1. r = SetEC(d, s, (d.excess[s] \ ExcessAt(d, s, p)) \union {left}) /\ l \in d.excess[s]
        BY <3>4, <1>1, <1>5, <1>6, <1>7, <1>9, <1>12
      <4>2. Turns(d, r, s, p, {Seen(left)})
        BY <4>1, <2>1, <2>4, SetExcess
      <4> QED BY <4>2, <2>5, <3>4 DEF Closed
    <3> QED BY <3>1, <3>2, <3>3, <3>4
  <2> QED BY <2>1, <2>2, <2>3, <2>6
<1> QED BY <1>11, <1>12

\* change_qty_order: its level has another quantity, or the levels are left.
LEMMA ChangeIs ==
  ASSUME NEW d, Shape(d), NEW s \in Sides, NEW p \in Nat, NEW delta \in Int, delta # 0,
         NEW r, r = DepthChange(d, s, p, delta),
         NEW L, L = Listing(d.visible[s], d.excess[s])
  PROVE  \/ /\ r = Lose(d)
            /\ \A c \in Nat, q \in Int : p # 0 /\ Entry(p, c, q) \in L => q + delta < 0
         \/ \E c \in Nat, q \in Int :
              (p # 0 => Entry(p, c, q) \in L) /\ Turns(d, r, s, p, {Entry(p, c, q + delta)})
<1>1. PICK v, e : v = d.visible[s] /\ e = d.excess[s]
  OBVIOUS
<1>2. /\ SideOK(s, v, e) /\ v \in Visibles /\ e \in SUBSET LevelType /\ d \in Depths /\ Ordered(s, v, e)
      /\ L = Listing(v, e)
  BY <1>1, SideIs
<1>3. PICK i : i = PositionOf(d, s, p)
  OBVIOUS
<1>4. /\ i \in 0 .. Size /\ (i # 0 => i \in 1 .. Size /\ v[i].price = p)
      /\ i = 0 => \A j \in 1 .. Size : v[j].price # p
  BY <1>1, <1>2, <1>3, PositionIs
<1>5. PICK at : at = ExcessAt(d, s, p)
  OBVIOUS
<1>6. at = {l \in e : l.price = p}
  BY <1>1, <1>5 DEF ExcessAt
<1>7. PICK l : l = IF i # 0 THEN v[i] ELSE CHOOSE x \in at : TRUE
  OBVIOUS
<1>8. PICK left : left = [l EXCEPT !.qty = @ + delta, !.fresh = TRUE]
  OBVIOUS
<1>9. r = IF (i = 0 /\ at = {}) \/ left.qty < 0 THEN Lose(d)
          ELSE IF i # 0 THEN SetLC(d, s, i, left)
          ELSE SetEC(d, s, (d.excess[s] \ at) \union {left})
  BY <1>1, <1>3, <1>5, <1>7, <1>8 DEF DepthChange, SetLC, SetEC
<1>10. ASSUME ~ (i = 0 /\ at = {})
       PROVE  l \in LevelType /\ l.price = p /\ (i = 0 => l \in e)
  <2>1. CASE i # 0
    BY <2>1, <1>2, <1>4, <1>7 DEF Visibles
  <2>2. CASE i = 0
    <3>1. l \in at
      BY <2>2, <1>7, <1>10
    <3> QED BY <3>1, <1>2, <1>6
  <2> QED BY <2>1, <2>2
<1>11. ASSUME ~ (i = 0 /\ at = {})
       PROVE  /\ left \in LevelType /\ left.fresh /\ left.price = p
              /\ left.count = l.count /\ left.qty = l.qty + delta /\ l.count \in Nat /\ l.qty \in Int
  <2>1. l \in LevelType /\ l.price = p
    BY <1>10, <1>11
  <2>2. /\ left \in LevelType /\ left.fresh /\ left.price = l.price /\ left.count = l.count
        /\ left.qty = l.qty + delta
    BY <2>1, <1>8, MoreIs
  <2> QED BY <2>1, <2>2 DEF LevelType
<1>12. \A c, q : p # 0 /\ Entry(p, c, q) \in L =>
         /\ ~ (i = 0 /\ at = {})
         /\ c = l.count /\ q = l.qty
  <2> TAKE c, q
  <2> HAVE p # 0 /\ Entry(p, c, q) \in L
  <2>1. /\ \A j \in 1 .. Size : v[j].price = p => c = v[j].count /\ q = v[j].qty
        /\ \A k \in e : k.price = p => c = k.count /\ q = k.qty
        /\ (\E j \in 1 .. Size : v[j].price = p) \/ (\E k \in e : k.price = p)
    BY <1>1, LevelFound
  <2> QED BY <2>1, <1>4, <1>6, <1>7
<1>13. CASE (i = 0 /\ at = {}) \/ left.qty < 0
  <2>1. r = Lose(d)
    BY <1>9, <1>13
  <2> QED BY <2>1, <1>11, <1>12, <1>13
<1>14. CASE ~ ((i = 0 /\ at = {}) \/ left.qty < 0)
  <2>1. Seen(left) = Entry(p, l.count, l.qty + delta)
    BY <1>11, <1>14, EntryIs
  <2>2. p # 0 => Entry(p, l.count, l.qty) \in L
    <3> SUFFICES ASSUME p # 0 PROVE Entry(p, l.count, l.qty) \in L
      OBVIOUS
    <3>1. Seen(l) = Entry(p, l.count, l.qty)
      BY <1>10, <1>14, EntryIs
    <3>2. CASE i # 0
      BY <3>1, <3>2, <1>2, <1>4, <1>7 DEF Listing
    <3>3. CASE i = 0
      BY <3>1, <3>3, <1>2, <1>10, <1>14 DEF Listing
    <3> QED BY <3>2, <3>3
  <2>3. Turns(d, r, s, p, {Seen(left)})
    <3>1. CASE i # 0
      <4>1. r = SetLC(d, s, i, left) /\ i \in 1 .. Size /\ p = d.visible[s][i].price
        BY <3>1, <1>1, <1>4, <1>9, <1>14
      <4>2. p = 0 => left.count = 0
        BY <3>1, <1>2, <1>4, <1>7, <1>11, <1>14 DEF Ordered
      <4>3. left \in LevelType /\ left.price = p /\ left.fresh
        BY <1>11, <1>14
      <4> QED BY <4>1, <4>2, <4>3, SetVisible
    <3>2. CASE i = 0
      <4>1. r = SetEC(d, s, (d.excess[s] \ ExcessAt(d, s, p)) \union {left})
        BY <3>2, <1>1, <1>5, <1>9, <1>14
      <4>2. l \in d.excess[s] /\ l.price = p
        BY <3>2, <1>1, <1>10, <1>14
      <4>3. left \in LevelType /\ left.price = p
        BY <1>11, <1>14
      <4> QED BY <4>1, <4>2, <4>3, SetExcess
    <3> QED BY <3>1, <3>2
  <2> QED BY <2>1, <2>2, <2>3, <1>11, <1>14
<1> QED BY <1>13, <1>14

-----------------------------------------------------------------------------
(* What every update keeps: the shape of the depth, and that a change of what it
   shows is noted. *)

Sound(d, r) == Shape(r) /\ (d.lost => r.lost) /\ (r.lost \/ Noted(d, r))

\* One after the other.
LEMMA SoundTrans ==
  ASSUME NEW d, NEW n, NEW r, Sound(d, n), Sound(n, r)
  PROVE  Sound(d, r)
<1>1. CASE r.lost
  BY <1>1 DEF Sound
<1>2. CASE ~r.lost
  <2>1. Noted(n, r) /\ ~n.lost
    BY <1>2 DEF Sound
  <2>2. Noted(d, n)
    BY <2>1 DEF Sound
  <2>3. Noted(d, r)
    BY <2>1, <2>2, NotedTrans
  <2> QED BY <2>3 DEF Sound
<1> QED BY <1>1, <1>2

\* No update.
LEMMA SoundSelf ==
  ASSUME NEW d, Shape(d)
  PROVE  Sound(d, d)
BY NotedSelf DEF Sound

\* An update of one price level.
LEMMA TurnsSound ==
  ASSUME NEW d, NEW r, NEW s, NEW p, NEW X, Turns(d, r, s, p, X)
  PROVE  Sound(d, r)
BY DEF Turns, Sound

\* An update that has left the levels.
LEMMA LoseIs ==
  ASSUME NEW d, Shape(d), NEW r, r = Lose(d)
  PROVE  Sound(d, r) /\ r.lost
<1>1. d \in Depths
  BY DEF Shape
<1>2. /\ d = [visible |-> d.visible, excess |-> d.excess, ignored |-> d.ignored,
              changed |-> d.changed, lost |-> d.lost]
      /\ d.visible \in [Sides -> Visibles] /\ d.excess \in [Sides -> SUBSET LevelType]
      /\ d.ignored \in [Sides -> Int] /\ d.changed \in BOOLEAN /\ d.lost \in BOOLEAN
  BY <1>1, DepthIs
<1>3. r = [visible |-> d.visible, excess |-> d.excess, ignored |-> d.ignored,
           changed |-> d.changed, lost |-> TRUE]
  BY <1>2 DEF Lose
<1>4. r \in Depths /\ r.visible = d.visible /\ r.excess = d.excess /\ r.lost
  BY <1>2, <1>3 DEF Depths
<1> QED BY <1>4 DEF Shape, Sound

\* The update of the fills to ignore.
WithIgnored(d, s, n) == [d EXCEPT !.ignored[s] = n]
Ignoring(d, r, s, n) ==
  /\ r.visible = d.visible /\ r.excess = d.excess /\ r.changed = d.changed /\ r.lost = d.lost
  /\ r.ignored[s] = n /\ \A t \in Sides : t # s => r.ignored[t] = d.ignored[t]

\* A depth with another quantity to ignore.
LEMMA WithIgnoredIs ==
  ASSUME NEW d, Shape(d), NEW s \in Sides, NEW n \in Int, NEW r, r = WithIgnored(d, s, n)
  PROVE  Sound(d, r) /\ Ignoring(d, r, s, n)
<1>1. d \in Depths
  BY DEF Shape
<1>2. /\ d = [visible |-> d.visible, excess |-> d.excess, ignored |-> d.ignored,
              changed |-> d.changed, lost |-> d.lost]
      /\ d.visible \in [Sides -> Visibles] /\ d.excess \in [Sides -> SUBSET LevelType]
      /\ d.ignored \in [Sides -> Int] /\ d.changed \in BOOLEAN /\ d.lost \in BOOLEAN
  BY <1>1, DepthIs
<1>3. PICK g : g = [d.ignored EXCEPT ![s] = n]
  OBVIOUS
<1>4. g \in [Sides -> Int] /\ g[s] = n /\ \A t \in Sides : t # s => g[t] = d.ignored[t]
  BY <1>2, <1>3
<1>5. r = [visible |-> d.visible, excess |-> d.excess, ignored |-> g,
           changed |-> d.changed, lost |-> d.lost]
  BY <1>2, <1>3 DEF WithIgnored
<1>6. /\ r \in Depths /\ r.visible = d.visible /\ r.excess = d.excess /\ r.lost = d.lost
      /\ r.ignored = g /\ r.changed = d.changed
  BY <1>2, <1>4, <1>5 DEF Depths
<1>7. Noted(d, r)
  BY <1>6 DEF Noted
<1>8. Shape(r)
  BY <1>6 DEF Shape
<1> QED BY <1>4, <1>6, <1>7, <1>8 DEF Sound, Ignoring

\* ignore_fill_qty.
LEMMA IgnoreSound ==
  ASSUME NEW d, Shape(d), NEW s \in Sides, NEW qty \in Int, NEW r, r = DepthIgnore(d, s, qty)
  PROVE  Sound(d, r)
<1>1. r = Lose(d) \/ r = WithIgnored(d, s, qty)
  BY DEF DepthIgnore, WithIgnored
<1> QED BY <1>1, LoseIs, WithIgnoredIs

\* add_order.
LEMMA AddSound ==
  ASSUME NEW d, Shape(d), NEW s \in Sides, NEW p \in Nat, p # 0, NEW qty \in Int,
         NEW r, r = DepthAdd(d, s, p, qty)
  PROVE  Sound(d, r)
<1>1. PICK L : L = Listing(d.visible[s], d.excess[s])
  OBVIOUS
<1>2. \E c \in Nat, q \in Int : Turns(d, r, s, p, {Entry(p, c + 1, q + qty)})
  <2>1. AddsTo(d, r, s, p, qty, L)
    BY <1>1, AddIs
  <2> QED BY <2>1 DEF AddsTo
<1> QED BY <1>2, TurnsSound

\* close_order.
LEMMA CloseSound ==
  ASSUME NEW d, Shape(d), NEW s \in Sides, NEW p \in Nat, NEW qty \in Int,
         NEW r, r = DepthClose(d, s, p, qty)
  PROVE  Sound(d, r)
<1>1. PICK L : L = Listing(d.visible[s], d.excess[s])
  OBVIOUS
<1>2. r = Lose(d) \/ \E c \in Nat, q \in Int : Turns(d, r, s, p, Closed(p, c, q - qty))
  BY <1>1, CloseIs
<1> QED BY <1>2, LoseIs, TurnsSound

\* change_qty_order.
LEMMA ChangeSound ==
  ASSUME NEW d, Shape(d), NEW s \in Sides, NEW p \in Nat, NEW delta \in Int,
         NEW r, r = DepthChange(d, s, p, delta)
  PROVE  Sound(d, r)
<1>1. CASE delta = 0
  <2>1. r = d
    BY <1>1 DEF DepthChange
  <2> QED BY <2>1, SoundSelf
<1>2. CASE delta # 0
  <2>1. PICK L : L = Listing(d.visible[s], d.excess[s])
    OBVIOUS
  <2>2. r = Lose(d) \/ \E c \in Nat, q \in Int : Turns(d, r, s, p, {Entry(p, c, q + delta)})
    BY <1>2, <2>1, ChangeIs
  <2> QED BY <2>2, LoseIs, TurnsSound
<1> QED BY <1>1, <1>2

\* fill_order.
LEMMA FillSound ==
  ASSUME NEW d, Shape(d), NEW s \in Sides, NEW p \in Nat, NEW qty \in Int, NEW b \in BOOLEAN,
         NEW r, r = DepthFill(d, s, p, qty, b)
  PROVE  Sound(d, r)
<1>1. d.ignored[s] \in Int
  BY DEF Shape, Depths
<1>2. CASE d.ignored[s] # 0
  <2>1. PICK n \in Int : n = d.ignored[s] - qty
    BY <1>1
  <2>2. r = Lose(d) \/ r = WithIgnored(d, s, n)
    BY <1>2, <2>1 DEF DepthFill, WithIgnored
  <2> QED BY <2>2, LoseIs, WithIgnoredIs
<1>3. CASE d.ignored[s] = 0
  <2>1. PICK n \in Int : n = -qty
    OBVIOUS
  <2>2. r = DepthClose(d, s, p, qty) \/ r = DepthChange(d, s, p, n)
    BY <1>3, <2>1 DEF DepthFill
  <2> QED BY <2>2, CloseSound, ChangeSound
<1> QED BY <1>2, <1>3

\* replace_order.
LEMMA ReplaceSound ==
  ASSUME NEW d, Shape(d), NEW s \in Sides, NEW p \in Nat, NEW n \in Nat, n = 0 => p = 0,
         NEW qty \in Int, NEW new \in Int, NEW r, r = DepthReplace(d, s, p, n, qty, new)
  PROVE  Sound(d, r)
<1>1. CASE p = n
  <2>1. PICK delta \in Int : delta = new - qty
    OBVIOUS
  <2>2. r = DepthChange(d, s, p, delta)
    BY <1>1, <2>1 DEF DepthReplace
  <2> QED BY <2>2, ChangeSound
<1>2. CASE p # n
  <2>1. PICK a : a = DepthAdd(d, s, n, new)
    OBVIOUS
  <2>2. n # 0
    BY <1>2
  <2>3. Sound(d, a)
    BY <2>1, <2>2, AddSound
  <2>4. r = DepthClose(a, s, p, qty)
    BY <1>2, <2>1 DEF DepthReplace
  <2>5. Shape(a)
    BY <2>3 DEF Sound
  <2>6. Sound(a, r)
    BY <2>4, <2>5, CloseSound
  <2> QED BY <2>3, <2>6, SoundTrans
<1> QED BY <1>1, <1>2

\* A publication changes nothing that is shown.
Settles(d, r) ==
  /\ Shape(r) /\ r.lost = d.lost /\ r.ignored = d.ignored
  /\ \A s \in Sides : /\ \A i \in 1 .. Size : Seen(r.visible[s][i]) = Seen(d.visible[s][i])
                      /\ Listing(r.visible[s], r.excess[s]) = Listing(d.visible[s], d.excess[s])
                      /\ Blanked(d.visible[s]) => Blanked(r.visible[s])

Dull(l) == [l EXCEPT !.fresh = FALSE]

\* A level that is published shows the same.
LEMMA DullIs ==
  ASSUME NEW l \in LevelType
  PROVE  /\ Dull(l) \in LevelType /\ Seen(Dull(l)) = Seen(l)
         /\ Dull(l).price = l.price /\ Dull(l).count = l.count /\ Dull(l).qty = l.qty
BY DEF Dull, LevelType, Seen

DullV(v) == [i \in 1 .. Size |-> Dull(v[i])]
DullE(e) == {Dull(l) : l \in e}

\* A side of it.
LEMMA DullSide ==
  ASSUME NEW s, NEW v, NEW e, SideOK(s, v, e), NEW w, w = DullV(v), NEW f, f = DullE(e)
  PROVE  /\ SideOK(s, w, f) /\ Listing(w, f) = Listing(v, e) /\ (Blanked(v) => Blanked(w))
         /\ \A i \in 1 .. Size : Seen(w[i]) = Seen(v[i])
<1>1. /\ s \in Sides /\ v \in Visibles /\ e \in SUBSET LevelType /\ Ordered(s, v, e)
      /\ \A i \in 1 .. Size : v[i] \in LevelType
  BY DEF SideOK, Visibles
<1>2. \A i \in 1 .. Size :
        /\ w[i] = Dull(v[i]) /\ w[i] \in LevelType /\ Seen(w[i]) = Seen(v[i])
        /\ w[i].price = v[i].price /\ w[i].count = v[i].count /\ w[i].qty = v[i].qty
  BY <1>1, DullIs DEF DullV
<1>3. w \in Visibles
  BY <1>2 DEF DullV, Visibles
<1>4. \A k \in f : \E l \in e :
        k = Dull(l) /\ k \in LevelType /\ k.price = l.price /\ Seen(k) = Seen(l)
  BY <1>1, DullIs DEF DullE
<1>5. \A l \in e : Dull(l) \in f /\ Seen(Dull(l)) = Seen(l)
  BY <1>1, DullIs DEF DullE
<1>6. Ordered(s, w, f)
  <2>1. \A i, j \in 1 .. Size :
          i < j /\ w[j].price # 0 => w[i].price # 0 /\ Better(s, w[i].price, w[j].price)
    BY <1>1, <1>2 DEF Ordered
  <2>2. \A l \in f : l.price # 0 /\ \A i \in 1 .. Size : w[i].price # 0 /\ Better(s, w[i].price, l.price)
    BY <1>1, <1>2, <1>4 DEF Ordered
  <2>3. \A k, l \in f : k.price = l.price => k = l
    BY <1>1, <1>4 DEF Ordered
  <2>4. \A i \in 1 .. Size : w[i].price = 0 => w[i].count = 0
    BY <1>1, <1>2 DEF Ordered
  <2>5. IsFiniteSet(f)
    <3>1. IsFiniteSet(e)
      BY <1>1 DEF Ordered
    <3>2. PICK h : h = [l \in e |-> Dull(l)]
      OBVIOUS
    <3>3. h \in Surjection(e, f)
      BY <3>2 DEF DullE, Surjection
    <3> QED BY <3>1, <3>3, FS_Surjection
  <2> QED BY <2>1, <2>2, <2>3, <2>4, <2>5 DEF Ordered
<1>7. Listing(w, f) = Listing(v, e)
  <2>1. {Seen(l) : l \in f} = {Seen(l) : l \in e}
    BY <1>4, <1>5
  <2>2. {Seen(w[i]) : i \in {i \in 1 .. Size : w[i].price # 0}} =
          {Seen(v[i]) : i \in {i \in 1 .. Size : v[i].price # 0}}
    BY <1>2
  <2> QED BY <2>1, <2>2 DEF Listing
<1>8. Blanked(v) => Blanked(w)
  BY <1>2 DEF Blanked
<1>9. f \in SUBSET LevelType
  BY <1>4
<1> QED BY <1>1, <1>2, <1>3, <1>6, <1>7, <1>8, <1>9 DEF SideOK

\* published.
LEMMA PublishedIs ==
  ASSUME NEW d, Shape(d), NEW r, r = Published(d)
  PROVE  Settles(d, r)
<1>1. d \in Depths
  BY DEF Shape
<1>2. /\ d = [visible |-> d.visible, excess |-> d.excess, ignored |-> d.ignored,
              changed |-> d.changed, lost |-> d.lost]
      /\ d.visible \in [Sides -> Visibles] /\ d.excess \in [Sides -> SUBSET LevelType]
      /\ d.ignored \in [Sides -> Int] /\ d.changed \in BOOLEAN /\ d.lost \in BOOLEAN
  BY <1>1, DepthIs
<1>3. PICK v : v = [s \in Sides |-> DullV(d.visible[s])]
  OBVIOUS
<1>4. PICK e : e = [s \in Sides |-> DullE(d.excess[s])]
  OBVIOUS
<1>5. r = [visible |-> v, excess |-> e, ignored |-> d.ignored, changed |-> FALSE, lost |-> d.lost]
  BY <1>2, <1>3, <1>4 DEF Published, DullV, DullE, Dull
<1>6. ASSUME NEW s \in Sides
      PROVE  /\ SideOK(s, v[s], e[s]) /\ Listing(v[s], e[s]) = Listing(d.visible[s], d.excess[s])
             /\ Blanked(d.visible[s]) => Blanked(v[s])
             /\ \A i \in 1 .. Size : Seen(v[s][i]) = Seen(d.visible[s][i])
  <2>1. SideOK(s, d.visible[s], d.excess[s])
    BY DEF Shape
  <2>2. v[s] = DullV(d.visible[s]) /\ e[s] = DullE(d.excess[s])
    BY <1>3, <1>4
  <2> QED BY <2>1, <2>2, DullSide
<1>7. v \in [Sides -> Visibles] /\ e \in [Sides -> SUBSET LevelType]
  BY <1>3, <1>4, <1>6 DEF SideOK
<1>8. r \in Depths
  BY <1>2, <1>5, <1>7 DEF Depths
<1>9. /\ r.visible = v /\ r.excess = e /\ r.ignored = d.ignored /\ r.lost = d.lost
  BY <1>5
<1> QED BY <1>6, <1>8, <1>9 DEF Shape, Settles

-----------------------------------------------------------------------------
(* What a callback makes of the depth.                                     *)

AcceptDepth(d, o, cb) ==
  IF o.price = MarketPrice THEN d
  ELSE IF cb.qty = o.qty THEN DepthIgnore(d, o.side, cb.qty)
  ELSE DepthAdd(d, o.side, o.price, o.qty)
FillDepth(d, o, qty, filled) ==
  IF o.price = MarketPrice THEN d ELSE DepthFill(d, o.side, o.price, qty, filled)
CancelDepth(d, o, qty) ==
  IF o.price = MarketPrice THEN d ELSE DepthClose(d, o.side, o.price, qty)
UpdateDepth(d) == IF d.changed THEN Published(d) ELSE d

Informs(c, r, cb) ==
  /\ cb.type = "accept" => r.depth = AcceptDepth(c.depth, c.order[cb.order], cb)
  /\ cb.type = "fill" =>
       r.depth = FillDepth(FillDepth(c.depth, c.order[cb.matched], cb.qty, cb.matchedFilled),
                           c.order[cb.order], cb.qty, cb.orderFilled)
  /\ cb.type = "cancel" => r.depth = CancelDepth(c.depth, c.order[cb.order], cb.qty)
  /\ cb.type = "replace" =>
       r.depth = DepthReplace(c.depth, c.order[cb.order].side, c.order[cb.order].price, cb.price,
                              c.order[cb.order].qty, c.order[cb.order].qty + cb.delta)
  /\ cb.type = "update" => r.depth = UpdateDepth(c.depth) /\ r.told = c.told \union Told(c.depth)
  /\ cb.type # "update" => r.told = c.told
  /\ cb.type \in Refusals => r.depth = c.depth

Noticed(m, c, r, cb) ==
  r.undisturbed => c.undisturbed /\ ~Misinforms(m, c, cb, c.order[cb.order])

\* A callback while the levels are there.
LEMMA InformsIs ==
  ASSUME NEW m, NEW c, Underway(c), ~c.depth.lost, NEW cb \in Callbacks,
         NEW r, r = Handle(m, c, cb)
  PROVE  Informs(c, r, cb) /\ Noticed(m, c, r, cb)
<1> DEFINE o == c.order[cb.order]
           n == [c EXCEPT !.undisturbed = @ /\ ~Misinforms(m, c, cb, o)]
<1>1. /\ n = [order |-> c.order, depth |-> c.depth, told |-> c.told, undisturbed |-> n.undisturbed]
      /\ n.undisturbed = (c.undisturbed /\ ~Misinforms(m, c, cb, o))
  BY DEF Underway
<1>2. n.undisturbed => c.undisturbed /\ ~Misinforms(m, c, cb, c.order[cb.order])
  <2>1. n.undisturbed = (c.undisturbed /\ ~Misinforms(m, c, cb, c.order[cb.order]))
    BY <1>1
  <2> HIDE DEF n
  <2> QED BY <2>1
<1>3. /\ cb.type = "accept" => r = OnAccept(n, cb, o)
      /\ cb.type = "fill" => r = OnFill(n, cb, o)
      /\ cb.type = "cancel" => r = OnCancel(n, cb, o)
      /\ cb.type = "replace" => r = OnReplace(n, cb, o)
      /\ cb.type = "update" => r = OnBookUpdate(n)
      /\ cb.type \in Refusals => r = n
  BY DEF Handle, Refusals
<1>4. PICK w : w = n
  OBVIOUS
<1>5. o = c.order[cb.order]
  OBVIOUS
<1> HIDE DEF n, o
<1>6. /\ w = [order |-> c.order, depth |-> c.depth, told |-> c.told, undisturbed |-> w.undisturbed]
      /\ w.order = c.order /\ w.depth = c.depth /\ w.told = c.told
  BY <1>1, <1>4
<1>7. SUFFICES Informs(c, r, cb) /\ r.undisturbed = w.undisturbed
  BY <1>2, <1>4 DEF Noticed
<1>8. CASE cb.type = "accept"
  <2>1. r = OnAccept(w, cb, o)
    BY <1>3, <1>4, <1>8
  <2>2. PICK d : d = AcceptDepth(c.depth, o, cb)
    OBVIOUS
  <2>3. PICK a : r = [w EXCEPT !.depth = d, !.order = a]
    BY <1>6, <2>1, <2>2 DEF OnAccept, AcceptDepth
  <2>4. r.depth = d /\ r.told = c.told /\ r.undisturbed = w.undisturbed
    BY <1>6, <2>3
  <2> QED BY <2>2, <2>4, <1>5, <1>8 DEF Informs, Refusals
<1>9. CASE cb.type = "fill"
  <2>1. r = OnFill(w, cb, o)
    BY <1>3, <1>4, <1>9
  <2>2. PICK e : e = FillDepth(c.depth, c.order[cb.matched], cb.qty, cb.matchedFilled)
    OBVIOUS
  <2>3. PICK d : d = FillDepth(e, o, cb.qty, cb.orderFilled)
    OBVIOUS
  <2>4. PICK a : a = [w.order EXCEPT ![cb.matched] = Fill(@, cb.qty), ![cb.order] = Fill(@, cb.qty)]
    OBVIOUS
  <2>5. r = [w EXCEPT !.depth = d, !.order = a]
    BY <1>6, <2>1, <2>2, <2>3, <2>4 DEF OnFill, FillDepth
  <2>6. r.depth = d /\ r.told = c.told /\ r.undisturbed = w.undisturbed
    BY <1>6, <2>5
  <2> QED BY <2>2, <2>3, <2>6, <1>5, <1>9 DEF Informs, Refusals
<1>10. CASE cb.type = "cancel"
  <2>1. r = OnCancel(w, cb, o)
    BY <1>3, <1>4, <1>10
  <2>2. PICK d : d = CancelDepth(c.depth, o, cb.qty)
    OBVIOUS
  <2>3. PICK a : r = [w EXCEPT !.depth = d, !.order = a]
    BY <1>6, <2>1, <2>2 DEF OnCancel, CancelDepth
  <2>4. r.depth = d /\ r.told = c.told /\ r.undisturbed = w.undisturbed
    BY <1>6, <2>3
  <2> QED BY <2>2, <2>4, <1>5, <1>10 DEF Informs, Refusals
<1>11. CASE cb.type = "replace"
  <2>1. r = OnReplace(w, cb, o)
    BY <1>3, <1>4, <1>11
  <2>2. PICK d : d = DepthReplace(c.depth, o.side, o.price, cb.price, o.qty, o.qty + cb.delta)
    OBVIOUS
  <2>3. PICK a : r = [w EXCEPT !.depth = d, !.order = a]
    BY <1>6, <2>1, <2>2 DEF OnReplace
  <2>4. r.depth = d /\ r.told = c.told /\ r.undisturbed = w.undisturbed
    BY <1>6, <2>3
  <2> QED BY <2>2, <2>4, <1>5, <1>11 DEF Informs, Refusals
<1>12. CASE cb.type = "update"
  <2>1. r = OnBookUpdate(w)
    BY <1>3, <1>4, <1>12
  <2>2. PICK t, d : t = c.told \union Told(c.depth) /\ d = UpdateDepth(c.depth)
    OBVIOUS
  <2>3. r = [w EXCEPT !.told = t, !.depth = d]
    BY <1>6, <2>1, <2>2 DEF OnBookUpdate, UpdateDepth
  <2>4. r.depth = d /\ r.told = t /\ r.undisturbed = w.undisturbed
    BY <1>6, <2>3
  <2> QED BY <2>2, <2>4, <1>12 DEF Informs, Refusals
<1>13. CASE cb.type \in Refusals
  <2>1. r = w
    BY <1>3, <1>4, <1>13
  <2> QED BY <2>1, <1>6, <1>13 DEF Informs, Refusals
<1> QED
  <2>1. cb.type \in Types
    BY DEF Callbacks
  <2> QED BY <2>1, <1>8, <1>9, <1>10, <1>11, <1>12, <1>13 DEF Types, Refusals

\* A callback before the update keeps the shape of the depth, and notes its changes.
LEMMA InformsSound ==
  ASSUME NEW c, NEW r, NEW cb \in Callbacks, Informs(c, r, cb), Shape(c.depth),
         Objects(c.order), Proper(c.order, cb), cb.type # "update"
  PROVE  Sound(c.depth, r.depth)
<1>1. PICK d, o, x : d = c.depth /\ o = c.order[cb.order] /\ x = c.order[cb.matched]
  OBVIOUS
<1>2. /\ o \in Object /\ x \in Object /\ cb.qty \in Int /\ cb.price \in Nat /\ cb.delta \in Int
      /\ cb.orderFilled \in BOOLEAN /\ cb.matchedFilled \in BOOLEAN /\ cb.type \in Types
  BY <1>1 DEF Objects, Callbacks
<1>3. /\ o.side \in Sides /\ o.price \in Nat /\ o.qty \in Int
      /\ x.side \in Sides /\ x.price \in Nat
  BY <1>2 DEF Object
<1>4. Shape(d)
  BY <1>1
<1>5. CASE cb.type = "accept"
  <2>1. r.depth = AcceptDepth(d, o, cb)
    BY <1>1, <1>5 DEF Informs
  <2>2. \/ r.depth = d
        \/ r.depth = DepthIgnore(d, o.side, cb.qty)
        \/ o.price # 0 /\ r.depth = DepthAdd(d, o.side, o.price, o.qty)
    BY <2>1 DEF AcceptDepth, MarketPrice
  <2> QED BY <2>2, <1>1, <1>2, <1>3, <1>4, SoundSelf, IgnoreSound, AddSound
<1>6. ASSUME NEW e, Shape(e), NEW y \in Object, NEW b \in BOOLEAN, NEW f,
             f = FillDepth(e, y, cb.qty, b)
      PROVE  Sound(e, f)
  <2>1. f = e \/ f = DepthFill(e, y.side, y.price, cb.qty, b)
    BY <1>6 DEF FillDepth
  <2>2. y.side \in Sides /\ y.price \in Nat
    BY DEF Object
  <2> QED BY <2>1, <2>2, <1>2, <1>6, SoundSelf, FillSound
<1>7. CASE cb.type = "fill"
  <2>1. PICK e : e = FillDepth(d, x, cb.qty, cb.matchedFilled)
    OBVIOUS
  <2>2. r.depth = FillDepth(e, o, cb.qty, cb.orderFilled)
    BY <2>1, <1>1, <1>7 DEF Informs
  <2>3. Sound(d, e)
    BY <2>1, <1>2, <1>4, <1>6
  <2>4. Shape(e)
    BY <2>3 DEF Sound
  <2>5. Sound(e, r.depth)
    BY <2>2, <2>4, <1>2, <1>6
  <2> QED BY <2>3, <2>5, <1>1, SoundTrans
<1>8. CASE cb.type = "cancel"
  <2>1. r.depth = CancelDepth(d, o, cb.qty)
    BY <1>1, <1>8 DEF Informs
  <2>2. r.depth = d \/ r.depth = DepthClose(d, o.side, o.price, cb.qty)
    BY <2>1 DEF CancelDepth
  <2> QED BY <2>2, <1>1, <1>2, <1>3, <1>4, SoundSelf, CloseSound
<1>9. CASE cb.type = "replace"
  <2>1. r.depth = DepthReplace(d, o.side, o.price, cb.price, o.qty, o.qty + cb.delta)
    BY <1>1, <1>9 DEF Informs
  <2>2. cb.price = 0 => o.price = 0
    BY <1>1, <1>9 DEF Proper, MarketPrice
  <2>3. o.qty + cb.delta \in Int
    BY <1>2, <1>3
  <2> QED BY <2>1, <2>2, <2>3, <1>1, <1>2, <1>3, <1>4, ReplaceSound
<1>10. CASE cb.type \in Refusals
  <2>1. r.depth = d
    BY <1>1, <1>10 DEF Informs
  <2> QED BY <2>1, <1>1, <1>4, SoundSelf
<1> QED BY <1>2, <1>5, <1>7, <1>8, <1>9, <1>10 DEF Types, Refusals

\* The callbacks of a call, up to the i-th: either the depth is lost on the way,
\* or the objects are on their path.
On(c, g, i) == Underway(c) /\ (~c.depth.lost => c.order = g[i])
Passes(m, q, f, g, o) ==
  /\ q = m.queue /\ q \in Seq(Callbacks) /\ Leads(m.order, q, o, g) /\ Objects(m.order)
  /\ ~depth.lost /\ Shape(depth)
  /\ f[0] = Start(m) /\ f[Len(q)] = Perform(m)
  /\ \A i \in 1 .. Len(q) : f[i] = Handle(m, f[i - 1], q[i])

\* The path of the objects.
LEMMA PathIs ==
  ASSUME NEW m, NEW q, NEW f, NEW g, NEW o, Passes(m, q, f, g, o), NEW i \in 1 .. Len(q)
  PROVE  /\ i - 1 \in 0 .. Len(q) /\ Objects(g[i - 1]) /\ Objects(g[i]) /\ q[i] \in Callbacks
         /\ g[i] = Effect(g[i - 1], q[i]) /\ Proper(g[i - 1], q[i])
         /\ f[i] = Handle(m, f[i - 1], q[i])
<1>1. Len(q) \in Nat /\ q[i] \in Callbacks
  BY DEF Passes
<1>2. \A j \in 1 .. Len(q) : Objects(g[j])
  BY DEF Passes, Leads, Towards
<1>3. Objects(g[0])
  BY DEF Passes, Leads
<1>4. i - 1 = 0 \/ i - 1 \in 1 .. Len(q)
  BY <1>1
<1>5. Objects(g[i - 1])
  BY <1>2, <1>3, <1>4
<1> QED BY <1>1, <1>2, <1>5 DEF Passes, Leads

\* Up to the update the changes are noted and nobody is told.
LEMMA PassesSound ==
  ASSUME NEW m, NEW q, NEW f, NEW g, NEW o, Passes(m, q, f, g, o), undisturbed \in BOOLEAN,
         NEW n \in Nat, n <= Len(q), \A i \in 1 .. n : q[i].type # "update"
  PROVE  \A i \in 0 .. n : On(f[i], g, i) /\ Sound(depth, f[i].depth) /\ f[i].told = {}
<1> DEFINE At(i) == On(f[i], g, i) /\ Sound(depth, f[i].depth) /\ f[i].told = {}
           Good == {i \in 0 .. n : At(i)}
<1>1. At(0)
  <2>1. f[0] = Start(m) /\ g[0] = m.order /\ Shape(depth)
    BY DEF Passes, Leads
  <2>2. f[0].depth = depth /\ f[0].told = {} /\ f[0].order = m.order /\ Underway(f[0])
    BY <2>1 DEF Start, Underway
  <2> QED BY <2>1, <2>2, SoundSelf DEF On
<1>2. ASSUME NEW i \in 1 .. n, At(i - 1) PROVE At(i)
  <2>1. i \in 1 .. Len(q)
    <3>1. Len(q) \in Nat
      BY DEF Passes
    <3> QED BY <3>1
  <2>2. /\ Objects(g[i - 1]) /\ q[i] \in Callbacks
        /\ g[i] = Effect(g[i - 1], q[i]) /\ Proper(g[i - 1], q[i])
        /\ f[i] = Handle(m, f[i - 1], q[i])
    BY <2>1, PathIs
  <2>3. PICK c, r, cb, a : c = f[i - 1] /\ r = f[i] /\ cb = q[i] /\ a = g[i - 1]
    OBVIOUS
  <2>4. Underway(c) /\ (~c.depth.lost => c.order = a) /\ Sound(depth, c.depth) /\ c.told = {}
    BY <1>2, <2>3 DEF On
  <2>5. r = Handle(m, c, cb) /\ cb \in Callbacks /\ cb.type # "update" /\ Objects(a) /\ Proper(a, cb)
    BY <2>2, <2>3
  <2>6. /\ Underway(r) /\ r.order = (IF c.depth.lost THEN c.order ELSE Effect(c.order, cb))
        /\ (c.depth.lost => r = c)
    BY <2>4, <2>5, HandleIs
  <2>7. CASE c.depth.lost
    <3>1. r = c
      BY <2>6, <2>7
    <3> QED BY <3>1, <2>3, <2>4, <2>7 DEF On
  <2>8. CASE ~c.depth.lost
    <3>1. Informs(c, r, cb)
      BY <2>4, <2>5, <2>8, InformsIs
    <3>2. c.order = a /\ Objects(c.order) /\ Proper(c.order, cb)
      BY <2>4, <2>5, <2>8
    <3>3. Shape(c.depth)
      BY <2>4 DEF Sound
    <3>4. Sound(c.depth, r.depth)
      BY <3>1, <3>2, <3>3, <2>5, InformsSound
    <3>5. Sound(depth, r.depth)
      BY <3>4, <2>4, SoundTrans
    <3>6. r.told = {}
      BY <3>1, <2>4, <2>5 DEF Informs
    <3>7. r.order = g[i]
      BY <3>2, <2>2, <2>3, <2>6, <2>8
    <3> QED BY <3>5, <3>6, <3>7, <2>3, <2>6 DEF On
  <2> QED BY <2>7, <2>8
<1>3. \A i \in 0 .. n : At(i)
  <2>1. 0 \in Good /\ \A i \in 1 .. n : i - 1 \in Good => i \in Good
    BY <1>1, <1>2
  <2>2. \A i \in 0 .. n : i \in Good
    <3> HIDE DEF Good
    <3> QED BY <2>1, Induct
  <2> QED BY <2>2
<1> QED BY <1>3

-----------------------------------------------------------------------------
(* The end of a call.                                                      *)

\* The callbacks of a call that can end, and the states between them.
LEMMA PassesIs ==
  ASSUME NEW m, NEW o, Ends(m, o), ~depth.lost, Shape(depth)
  PROVE  \E q, f, g : Passes(m, q, f, g, o) /\ Closes(q)
<1>1. PICK q : q = m.queue
  OBVIOUS
<1>2. Reached(m.order, q, o) /\ Closes(q) /\ Objects(m.order)
  BY <1>1 DEF Ends, Covers
<1>3. q \in Seq(Callbacks)
  BY <1>2 DEF Reached
<1>4. PICK g : Leads(m.order, q, o, g)
  BY <1>2 DEF Reached
<1>5. PICK f : /\ f[0] = Start(m) /\ f[Len(q)] = Perform(m)
               /\ \A i \in 1 .. Len(q) : f[i] = Handle(m, f[i - 1], q[i])
  BY <1>1, <1>3, PerformRun
<1>6. Passes(m, q, f, g, o)
  BY <1>1, <1>2, <1>3, <1>4, <1>5 DEF Passes
<1> QED BY <1>2, <1>6

\* What misinforms the depth is not forgotten.
LEMMA UndisturbedIs ==
  ASSUME NEW m, NEW q, NEW f, NEW g, NEW o, Passes(m, q, f, g, o), undisturbed \in BOOLEAN,
         m.parked => q[1].type = "accept", Len(q) > 0, f[Len(q)].undisturbed
  PROVE  undisturbed /\ ~Astray(m)
<1>1. PICK n \in Nat : n = Len(q) /\ n > 0
  BY DEF Passes
<1> DEFINE At(i) == /\ Underway(f[i])
                    /\ f[i].undisturbed => undisturbed /\ (i # 0 => f[1].undisturbed)
           Good == {i \in 0 .. n : At(i)}
<1>2. Underway(f[0]) /\ f[0].depth = depth /\ f[0].undisturbed = undisturbed /\ f[0].order = m.order
  BY DEF Passes, Start, Underway
<1>3. ASSUME NEW i \in 1 .. n, At(i - 1) PROVE At(i)
  <2>1. q[i] \in Callbacks /\ f[i] = Handle(m, f[i - 1], q[i])
    BY <1>1, PathIs
  <2>2. PICK c, r, cb : c = f[i - 1] /\ r = f[i] /\ cb = q[i]
    OBVIOUS
  <2>3. Underway(c) /\ r = Handle(m, c, cb) /\ cb \in Callbacks
    BY <2>1, <2>2, <1>3
  <2>4. Underway(r) /\ (c.depth.lost => r = c)
    BY <2>3, HandleIs
  <2>5. r.undisturbed => c.undisturbed
    <3>1. CASE c.depth.lost
      BY <3>1, <2>4
    <3>2. CASE ~c.depth.lost
      BY <3>2, <2>3, InformsIs DEF Noticed
    <3> QED BY <3>1, <3>2
  <2>6. CASE i = 1
    BY <2>2, <2>4, <2>5, <2>6, <1>3
  <2>7. CASE i # 1
    <3>1. i - 1 # 0 /\ i # 0
      BY <2>7
    <3> QED BY <3>1, <2>2, <2>4, <2>5, <1>3
  <2> QED BY <2>6, <2>7
<1>4. At(n)
  <2> HIDE DEF At
  <2>1. At(0)
    BY <1>2 DEF At
  <2>2. 0 \in Good /\ \A j \in 1 .. n : j - 1 \in Good => j \in Good
    BY <1>3, <2>1
  <2>3. \A j \in 0 .. n : j \in Good
    <3> HIDE DEF Good
    <3> QED BY <2>2, Induct
  <2> QED BY <2>3
<1>5. undisturbed /\ f[1].undisturbed
  BY <1>1, <1>4
<1>6. 1 \in 1 .. Len(q) /\ 1 - 1 = 0
  BY <1>1
<1>7. q[1] \in Callbacks /\ f[1] = Handle(m, f[0], q[1])
  BY <1>6, PathIs
<1>8. ~f[0].depth.lost
  BY <1>2 DEF Passes
<1>9. Noticed(m, f[0], f[1], q[1])
  BY <1>2, <1>7, <1>8, InformsIs
<1>10. ~Misinforms(m, f[0], q[1], m.order[q[1].order])
  BY <1>2, <1>5, <1>9 DEF Noticed
<1>11. ~Astray(m)
  <2>1. m.queue = q
    BY DEF Passes
  <2>2. m.parked => q[1].type = "accept"
    OBVIOUS
  <2> QED BY <2>1, <2>2, <1>10 DEF Misinforms, Astray
<1> QED BY <1>5, <1>11

\* Who is told of what the depth d shows when it is e.
Notified(d, e, t) ==
  ~e.lost =>
    \A s \in Sides :
      /\ (\E i \in 1 .. Size : Seen(e.visible[s][i]) # Seen(d.visible[s][i])) => "depth" \in t
      /\ Seen(e.visible[s][1]) # Seen(d.visible[s][1]) => "bbo" \in t

\* The update of the book tells what was noted.
LEMMA ToldIs ==
  ASSUME NEW d, NEW n, Sound(d, n), NEW e, e = UpdateDepth(n)
  PROVE  (~e.lost => ~n.lost) /\ Shape(e) /\ Notified(d, e, {} \union Told(n))
<1>1. Shape(n) /\ (n.lost \/ Noted(d, n))
  BY DEF Sound
<1>2. Settles(n, e)
  <2>1. CASE n.changed
    BY <2>1, <1>1, PublishedIs DEF UpdateDepth
  <2>2. CASE ~n.changed
    BY <2>2, <1>1 DEF UpdateDepth, Settles
  <2> QED BY <2>1, <2>2
<1>3. /\ Shape(e) /\ e.lost = n.lost
      /\ \A s \in Sides, i \in 1 .. Size : Seen(e.visible[s][i]) = Seen(n.visible[s][i])
  BY <1>2 DEF Settles
<1>4. ASSUME ~e.lost, NEW s \in Sides
      PROVE  /\ (\E i \in 1 .. Size : Seen(e.visible[s][i]) # Seen(d.visible[s][i]))
                => "depth" \in Told(n)
             /\ Seen(e.visible[s][1]) # Seen(d.visible[s][1]) => "bbo" \in Told(n)
  <2>1. Noted(d, n) /\ 1 \in 1 .. Size
    BY <1>1, <1>3, <1>4, SizeAssumption
  <2>2. (\E i \in 1 .. Size : Seen(e.visible[s][i]) # Seen(d.visible[s][i])) => n.changed
    BY <2>1, <1>3 DEF Noted
  <2>3. Seen(e.visible[s][1]) # Seen(d.visible[s][1]) => n.changed /\ n.visible[s][1].fresh
    BY <2>1, <1>3 DEF Noted
  <2> QED BY <2>2, <2>3 DEF Told
<1>5. {} \union Told(n) = Told(n)
  OBVIOUS
<1> QED BY <1>3, <1>4, <1>5 DEF Notified

\* The depth at the end of a call, and who is told.
LEMMA ClosedIs ==
  ASSUME NEW m, NEW q, NEW f, NEW g, NEW o, Passes(m, q, f, g, o), undisturbed \in BOOLEAN,
         Closes(q), NEW c, c = f[Len(q)], ~c.depth.lost
  PROVE  Shape(c.depth) /\ Notified(depth, c.depth, c.told)
<1>1. q \in Seq(Callbacks) /\ Shape(depth) /\ ~depth.lost
  BY DEF Passes
<1>2. CASE Len(q) = 1 /\ q[1].type \in Refusals
  <2>1. \A i \in 1 .. 1 : q[i].type # "update"
    BY <1>2 DEF Refusals
  <2>2. /\ \A i \in 0 .. 1 : On(f[i], g, i) /\ Sound(depth, f[i].depth) /\ f[i].told = {}
    <3>1. 1 \in Nat /\ 1 <= Len(q)
      BY <1>2
    <3> QED BY <3>1, <2>1, PassesSound
  <2>3. Shape(c.depth)
    BY <2>2, <1>2 DEF Sound
  <2>4. f[1] = Handle(m, f[0], q[1]) /\ q[1] \in Callbacks
    <3>1. 1 \in 1 .. Len(q) /\ 1 - 1 = 0
      BY <1>2
    <3> QED BY <3>1, PathIs
  <2>5. Underway(f[0]) /\ f[0].depth = depth
    BY DEF Passes, Start, Underway
  <2>6. Informs(f[0], f[1], q[1])
    BY <2>4, <2>5, <1>1, InformsIs
  <2>7. c.depth = depth
    BY <2>5, <2>6, <1>2 DEF Informs
  <2> QED BY <2>3, <2>7 DEF Notified
<1>3. CASE /\ Len(q) > 1 /\ q[Len(q)].type = "update" /\ q[1].type \in Openers
           /\ \A i \in 2 .. (Len(q) - 1) : q[i].type \in {"fill", "cancel"}
  <2>1. PICK n : n = Len(q) - 1
    OBVIOUS
  <2>2. n \in Nat /\ n <= Len(q) /\ n + 1 = Len(q) /\ n + 1 \in 1 .. Len(q) /\ (n + 1) - 1 = n
    BY <2>1, <1>1, <1>3
  <2>3. \A i \in 1 .. n : q[i].type # "update"
    <3> TAKE i \in 1 .. n
    <3>1. CASE i = 1
      BY <3>1, <1>3 DEF Openers
    <3>2. CASE i # 1
      <4>1. i \in 2 .. (Len(q) - 1)
        BY <3>2, <2>1, <2>2
      <4> QED BY <4>1, <1>3
    <3> QED BY <3>1, <3>2
  <2>4. On(f[n], g, n) /\ Sound(depth, f[n].depth) /\ f[n].told = {}
    <3>1. \A i \in 0 .. n : On(f[i], g, i) /\ Sound(depth, f[i].depth) /\ f[i].told = {}
      BY <2>2, <2>3, PassesSound
    <3> QED BY <3>1, <2>2
  <2>5. PICK b, cb : b = f[n] /\ cb = q[n + 1]
    OBVIOUS
  <2>6. c = Handle(m, b, cb) /\ cb \in Callbacks /\ cb.type = "update" /\ Underway(b)
    BY <2>2, <2>4, <2>5, <1>3, PathIs DEF On
  <2>7. ~b.depth.lost
    BY <2>6, HandleIs
  <2>8. c.depth = UpdateDepth(b.depth) /\ c.told = b.told \union Told(b.depth)
    BY <2>6, <2>7, InformsIs DEF Informs
  <2>9. Sound(depth, b.depth) /\ b.told = {}
    BY <2>4, <2>5
  <2> QED BY <2>8, <2>9, ToldIs
<1> QED BY <1>2, <1>3 DEF Closes

-----------------------------------------------------------------------------
(* Sums over the ids.                                                      *)

\* The ids have an upper bound.
LEMMA BoundIs == \E b \in Nat : \A id \in Ids : id <= b
<1>1. PICK n \in Nat : ExistsBijection(1 .. n, Ids)
  BY OrdersAssumption, FS_NatBijection
<1>2. PICK f : f \in Bijection(1 .. n, Ids)
  BY <1>1 DEF ExistsBijection
<1>3. /\ \A i \in 1 .. n : f[i] \in Nat
      /\ \A id \in Ids : \E i \in 1 .. n : f[i] = id
  BY <1>2, OrdersAssumption DEF Bijection, Injection, Surjection
<1> DEFINE Good == {i \in 0 .. n : \E b \in Nat : \A j \in 1 .. i : f[j] <= b}
<1>4. 0 \in Good
  <2>1. 0 \in Nat /\ \A j \in 1 .. 0 : f[j] <= 0
    OBVIOUS
  <2> QED BY <2>1
<1>5. ASSUME NEW i \in 1 .. n, i - 1 \in Good PROVE i \in Good
  <2>1. PICK b \in Nat : \A j \in 1 .. (i - 1) : f[j] <= b
    BY <1>5
  <2>2. PICK c \in Nat : c = b + f[i]
    BY <1>3
  <2>3. \A j \in 1 .. i : f[j] <= c
    <3> TAKE j \in 1 .. i
    <3>1. f[i] \in Nat /\ f[j] \in Nat
      BY <1>3
    <3>2. CASE j = i
      BY <3>1, <3>2, <2>2
    <3>3. CASE j # i
      <4>1. f[j] <= b
        BY <3>3, <2>1
      <4> QED BY <4>1, <3>1, <2>2
    <3> QED BY <3>2, <3>3
  <2> QED BY <2>3
<1>6. n \in Good
  <2> HIDE DEF Good
  <2>1. \A i \in 0 .. n : i \in Good
    BY <1>4, <1>5, Induct
  <2> QED BY <2>1
<1> QED BY <1>3, <1>6

\* The last id.
LEMMA LastIs == LastId \in Nat /\ Ids \subseteq 1 .. LastId
<1>1. PICK b \in Nat : \A id \in Ids : id <= b
  BY BoundIs
<1>2. PICK S : S = Ids \union {0}
  OBVIOUS
<1>3. S \subseteq Nat /\ 0 \in S /\ \A x \in S : x <= b
  BY <1>1, <1>2, OrdersAssumption
<1>4. PICK T : T = {b - x : x \in S}
  OBVIOUS
<1>5. T \in SUBSET Nat /\ T # {}
  BY <1>3, <1>4
<1>6. PICK t \in T : \A u \in T : t <= u
  BY <1>5, LeastOf
<1>7. PICK x \in S : t = b - x
  BY <1>4, <1>6
<1>8. \A y \in S : x >= y
  <2> TAKE y \in S
  <2>1. t <= b - y
    BY <1>4, <1>6
  <2>2. x \in Nat /\ y \in Nat
    BY <1>3
  <2> QED BY <2>1, <2>2, <1>7
<1>9. LastId = CHOOSE n \in S : \A y \in S : n >= y
  BY <1>2 DEF LastId, Max
<1>10. LastId \in S /\ \A y \in S : LastId >= y
  BY <1>8, <1>9
<1>11. LastId \in Nat
  BY <1>3, <1>10
<1>12. ASSUME NEW id \in Ids PROVE id \in 1 .. LastId
  <2>1. id \in Nat /\ id # 0 /\ LastId >= id
    BY <1>2, <1>10, OrdersAssumption
  <2> QED BY <2>1, <1>11
<1> QED BY <1>11, <1>12

\* The run of the sum.
LEMMA TotalRun ==
  ASSUME NEW w
  PROVE  \E h : /\ h[0] = 0 /\ h[LastId] = Total(w)
                /\ \A i \in 1 .. LastId : h[i] = h[i - 1] + w[i]
<1>0. PICK n \in Nat : n = LastId
  BY LastIs
<1> DEFINE Is(k, f) == f = [i \in 0 .. k |-> IF i = 0 THEN 0 ELSE f[i - 1] + w[i]]
           Good == {k \in 0 .. n : \E f : Is(k, f)}
<1>1. 0 \in Good
  <2>1. Is(0, [i \in 0 .. 0 |-> 0])
    OBVIOUS
  <2>2. \E f : Is(0, f)
    BY <2>1
  <2>3. 0 \in 0 .. n
    OBVIOUS
  <2> QED BY <2>2, <2>3
<1>2. ASSUME NEW k \in 1 .. n, k - 1 \in Good PROVE k \in Good
  <2>1. PICK f : Is(k - 1, f)
    BY <1>2
  <2>2. PICK v : v = f[k - 1] + w[k]
    OBVIOUS
  <2>3. k \in Nat \ {0}
    OBVIOUS
  <2>4. PICK h : Extension(h, k, f, v)
    BY <2>3, ExtendIs
  <2>5. h = [i \in 0 .. k |-> h[i]] /\ h[k] = v /\ \A i \in 0 .. (k - 1) : h[i] = f[i]
    BY <2>4 DEF Extension
  <2>6. \A i \in 0 .. (k - 1) : f[i] = IF i = 0 THEN 0 ELSE f[i - 1] + w[i]
    BY <2>1
  <2>7. \A i \in 0 .. k : h[i] = IF i = 0 THEN 0 ELSE h[i - 1] + w[i]
    <3> TAKE i \in 0 .. k
    <3>1. CASE i = k
      <4>1. h[i] = v /\ k - 1 \in 0 .. (k - 1) /\ i # 0 /\ i - 1 = k - 1
        BY <3>1, <2>5
      <4>2. h[i - 1] = f[k - 1]
        BY <4>1, <2>5
      <4> QED BY <4>1, <4>2, <3>1, <2>2
    <3>2. CASE i # k
      <4>1. i \in 0 .. (k - 1) /\ (i # 0 => i - 1 \in 0 .. (k - 1))
        BY <3>2
      <4>2. h[i] = f[i] /\ (i # 0 => h[i - 1] = f[i - 1])
        BY <4>1, <2>5
      <4>3. CASE i = 0
        BY <4>1, <4>2, <4>3, <2>6
      <4>4. CASE i # 0
        <5>1. f[i] = f[i - 1] + w[i]
          BY <4>1, <4>4, <2>6
        <5> QED BY <5>1, <4>2, <4>4
      <4> QED BY <4>3, <4>4
    <3> QED BY <3>1, <3>2
  <2>8. \E g : Is(k, g)
    BY <2>5, <2>7
  <2>9. k \in 0 .. n
    OBVIOUS
  <2> QED BY <2>8, <2>9
<1>3. n \in Good
  <2> HIDE DEF Good
  <2>1. \A i \in 0 .. n : i \in Good
    BY <1>1, <1>2, Induct
  <2> QED BY <2>1
<1>4. PICK f : f = CHOOSE h : Is(n, h)
  OBVIOUS
<1>5. Is(n, f)
  BY <1>3, <1>4
<1>6. Total(w) = f[n]
  BY <1>0, <1>4 DEF Total
<1>7. f[0] = 0
  BY <1>5
<1>8. \A i \in 1 .. n : f[i] = f[i - 1] + w[i]
  BY <1>5
<1> QED BY <1>0, <1>6, <1>7, <1>8

\* One weight changes.
Weights == [1 .. LastId -> Int]

\* One weight changes.
LEMMA TotalShift ==
  ASSUME NEW w \in Weights, NEW v \in Weights, NEW x \in 1 .. LastId,
         \A i \in 1 .. LastId : i # x => v[i] = w[i]
  PROVE  Total(w) \in Int /\ Total(v) = Total(w) - w[x] + v[x]
<1>1. PICK n \in Nat : n = LastId
  BY LastIs
<1>2. PICK h : h[0] = 0 /\ h[n] = Total(w) /\ \A i \in 1 .. n : h[i] = h[i - 1] + w[i]
  BY <1>1, TotalRun
<1>3. PICK g : g[0] = 0 /\ g[n] = Total(v) /\ \A i \in 1 .. n : g[i] = g[i - 1] + v[i]
  BY <1>1, TotalRun
<1>4. /\ \A i \in 1 .. n : w[i] \in Int /\ v[i] \in Int
      /\ \A i \in 1 .. n : i # x => v[i] = w[i]
      /\ x \in 1 .. n
  BY <1>1 DEF Weights
<1> DEFINE At2(i) == h[i] \in Int /\ g[i] = h[i] + IF i < x THEN 0 ELSE v[x] - w[x]
           Good == {i \in 0 .. n : At2(i)}
<1>5. 0 \in Good
  BY <1>2, <1>3, <1>4
<1>6. ASSUME NEW i \in 1 .. n, i - 1 \in Good PROVE i \in Good
  <2>1. /\ h[i] = h[i - 1] + w[i] /\ g[i] = g[i - 1] + v[i] /\ h[i - 1] \in Int
        /\ g[i - 1] = h[i - 1] + IF i - 1 < x THEN 0 ELSE v[x] - w[x]
    BY <1>2, <1>3, <1>6
  <2>2. w[i] \in Int /\ v[i] \in Int /\ w[x] \in Int /\ v[x] \in Int /\ (i # x => v[i] = w[i])
        /\ x \in Int
    BY <1>4
  <2>3. At2(i)
    <3>1. CASE i < x
      BY <3>1, <2>1, <2>2
    <3>2. CASE i = x
      BY <3>2, <2>1, <2>2
    <3>3. CASE i > x
      BY <3>3, <2>1, <2>2
    <3> QED BY <3>1, <3>2, <3>3, <2>2
  <2> QED BY <2>3
<1>7. n \in Good
  <2>1. \A i \in 0 .. n : i \in Good
    <3> HIDE DEF Good
    <3> QED BY <1>5, <1>6, Induct
  <2> QED BY <2>1
<1>8. h[n] \in Int /\ g[n] = h[n] + (v[x] - w[x]) /\ w[x] \in Int /\ v[x] \in Int
  BY <1>4, <1>7
<1> QED BY <1>2, <1>3, <1>8

\* A sum of naturals.
LEMMA TotalBounds ==
  ASSUME NEW w \in Weights, \A i \in 1 .. LastId : w[i] >= 0
  PROVE  /\ Total(w) \in Nat /\ \A x \in 1 .. LastId : w[x] <= Total(w)
         /\ (\A i \in 1 .. LastId : w[i] = 0) => Total(w) = 0
<1>1. PICK n \in Nat : n = LastId
  BY LastIs
<1>2. PICK h : h[0] = 0 /\ h[n] = Total(w) /\ \A i \in 1 .. n : h[i] = h[i - 1] + w[i]
  BY <1>1, TotalRun
<1>3. \A i \in 1 .. n : w[i] \in Nat
  BY <1>1 DEF Weights
<1> DEFINE Zero == \A i \in 1 .. n : w[i] = 0
           At2(i) == h[i] \in Nat /\ (\A x \in 1 .. i : w[x] <= h[i]) /\ (Zero => h[i] = 0)
           Good == {i \in 0 .. n : At2(i)}
<1>5. 0 \in Good
  BY <1>2
<1>6. ASSUME NEW i \in 1 .. n, i - 1 \in Good PROVE i \in Good
  <2>1. /\ h[i] = h[i - 1] + w[i] /\ h[i - 1] \in Nat /\ w[i] \in Nat
        /\ \A x \in 1 .. (i - 1) : w[x] <= h[i - 1]
        /\ Zero => h[i - 1] = 0
    BY <1>2, <1>3, <1>6
  <2>2. \A x \in 1 .. i : w[x] <= h[i]
    <3> TAKE x \in 1 .. i
    <3>1. w[x] \in Nat
      BY <1>3
    <3>2. CASE x = i
      BY <3>2, <2>1
    <3>3. CASE x # i
      <4>1. w[x] <= h[i - 1]
        BY <3>3, <2>1
      <4> QED BY <4>1, <3>1, <2>1
    <3> QED BY <3>2, <3>3
  <2>3. Zero => h[i] = 0
    BY <2>1
  <2> QED BY <2>1, <2>2, <2>3
<1>7. n \in Good
  <2>1. \A i \in 0 .. n : i \in Good
    <3> HIDE DEF Good
    <3> QED BY <1>5, <1>6, Induct
  <2> QED BY <2>1
<1> QED BY <1>1, <1>2, <1>7

\* The open quantities of some orders, summed.
LEMMA SumForm ==
  ASSUME NEW o, Objects(o), NEW S \in SUBSET Ids
  PROVE  \E w \in Weights : /\ SumOf(o, S) = Total(w)
                            /\ \A i \in 1 .. LastId : w[i] = IF i \in S THEN OpenQty(o[i]) ELSE 0
                            /\ \A i \in 1 .. LastId : w[i] >= 0
<1>1. \A i \in Ids : OpenQty(o[i]) \in Nat
  <2> TAKE i \in Ids
  <2>1. o[i].filled \in Nat /\ o[i].qty \in Nat
    BY DEF Objects, Object
  <2> QED BY <2>1 DEF OpenQty
<1>2. PICK w : w = [i \in 1 .. LastId |-> IF i \in S THEN OpenQty(o[i]) ELSE 0]
  OBVIOUS
<1>3. \A i \in 1 .. LastId : w[i] = IF i \in S THEN OpenQty(o[i]) ELSE 0
  BY <1>2
<1>4. \A i \in 1 .. LastId : w[i] \in Nat
  BY <1>1, <1>3
<1>5. w \in Weights
  BY <1>2, <1>4 DEF Weights
<1>6. SumOf(o, S) = Total(w)
  BY <1>2 DEF SumOf
<1>7. \A i \in 1 .. LastId : w[i] >= 0
  BY <1>4
<1> QED BY <1>3, <1>5, <1>6, <1>7

\* A sum is at least each of its terms, and over no order it is nothing.
LEMMA SumIs ==
  ASSUME NEW o, Objects(o), NEW S \in SUBSET Ids
  PROVE  /\ SumOf(o, S) \in Nat /\ \A x \in S : OpenQty(o[x]) \in Nat /\ OpenQty(o[x]) <= SumOf(o, S)
         /\ S = {} => SumOf(o, S) = 0
<1>1. PICK w \in Weights :
        /\ SumOf(o, S) = Total(w)
        /\ \A i \in 1 .. LastId : w[i] = IF i \in S THEN OpenQty(o[i]) ELSE 0
        /\ \A i \in 1 .. LastId : w[i] >= 0
  BY SumForm
<1>2. /\ Total(w) \in Nat /\ \A x \in 1 .. LastId : w[x] <= Total(w)
      /\ (\A i \in 1 .. LastId : w[i] = 0) => Total(w) = 0
  BY <1>1, TotalBounds
<1>3. \A x \in S : x \in 1 .. LastId /\ w[x] = OpenQty(o[x]) /\ w[x] \in Int
  BY <1>1, LastIs DEF Weights
<1>4. \A x \in S : OpenQty(o[x]) \in Nat /\ OpenQty(o[x]) <= SumOf(o, S)
  <2> TAKE x \in S
  <2>1. w[x] = OpenQty(o[x]) /\ w[x] \in Int /\ w[x] >= 0 /\ w[x] <= Total(w)
    BY <1>1, <1>2, <1>3
  <2> QED BY <2>1, <1>1
<1>5. S = {} => SumOf(o, S) = 0
  BY <1>1, <1>2
<1> QED BY <1>1, <1>2, <1>4, <1>5

\* One order more.
LEMMA SumAdds ==
  ASSUME NEW o, Objects(o), NEW S \in SUBSET Ids, NEW x \in Ids, x \notin S
  PROVE  SumOf(o, S \union {x}) = SumOf(o, S) + OpenQty(o[x])
<1>1. PICK w \in Weights :
        /\ SumOf(o, S) = Total(w)
        /\ \A i \in 1 .. LastId : w[i] = IF i \in S THEN OpenQty(o[i]) ELSE 0
        /\ \A i \in 1 .. LastId : w[i] >= 0
  BY SumForm
<1>2. S \union {x} \in SUBSET Ids
  OBVIOUS
<1>3. PICK v \in Weights :
        /\ SumOf(o, S \union {x}) = Total(v)
        /\ \A i \in 1 .. LastId : v[i] = IF i \in S \union {x} THEN OpenQty(o[i]) ELSE 0
        /\ \A i \in 1 .. LastId : v[i] >= 0
  BY <1>2, SumForm
<1>4. x \in 1 .. LastId /\ \A i \in 1 .. LastId : i # x => v[i] = w[i]
  BY <1>1, <1>3, LastIs
<1>5. Total(w) \in Int /\ Total(v) = Total(w) - w[x] + v[x]
  BY <1>4, TotalShift
<1>6. w[x] = 0 /\ v[x] = OpenQty(o[x]) /\ v[x] \in Int
  BY <1>1, <1>3, <1>4 DEF Weights
<1> QED BY <1>1, <1>3, <1>5, <1>6

\* A sum depends on the objects of its orders alone.
LEMMA SumSame ==
  ASSUME NEW o, NEW u, NEW S, \A i \in S : u[i] = o[i]
  PROVE  SumOf(u, S) = SumOf(o, S)
<1>1. \A i \in 1 .. LastId : (IF i \in S THEN OpenQty(u[i]) ELSE 0) = (IF i \in S THEN OpenQty(o[i]) ELSE 0)
  BY DEF OpenQty
<1>2. [i \in 1 .. LastId |-> IF i \in S THEN OpenQty(u[i]) ELSE 0]
        = [i \in 1 .. LastId |-> IF i \in S THEN OpenQty(o[i]) ELSE 0]
  BY <1>1
<1> QED BY <1>2 DEF SumOf

-----------------------------------------------------------------------------
(* The levels that the orders make: without an order, and with one more.   *)

\* The orders that make a level.
LEMMA LiveIs ==
  ASSUME NEW o, NEW z, NEW s, NEW p
  PROVE  /\ Live(o, z, s, p) \in SUBSET Ids /\ IsFiniteSet(Live(o, z, s, p))
         /\ \A y : Live(o, y, s, p) \in SUBSET Ids
         /\ \A x \in Live(o, z, s, p) : o[x].price = p
<1>1. Live(o, z, s, p) \subseteq Ids /\ \A y : Live(o, y, s, p) \in SUBSET Ids
  BY DEF Live
<1>2. IsFiniteSet(Live(o, z, s, p))
  BY <1>1, OrdersAssumption, FS_Subset
<1>3. \A x \in Live(o, z, s, p) : o[x].price = p
  BY DEF Live
<1> QED BY <1>1, <1>2, <1>3

\* An order that makes no level hides none.
LEMMA HideNone ==
  ASSUME NEW o, NEW z, NEW y, NEW s, NEW L, Agrees(L, o, z, s),
         \A p : p # 0 => Live(o, y, s, p) = Live(o, z, s, p), \A l \in L : l.price # 0
  PROVE  Agrees(L, o, y, s)
BY DEF Agrees

\* A hidden order may change.
LEMMA HiddenChanges ==
  ASSUME NEW o, NEW u, NEW x, NEW s, NEW L, Agrees(L, o, x, s),
         \A i \in Ids : i # x => u[i] = o[i]
  PROVE  Agrees(L, u, x, s)
<1>1. ASSUME NEW p PROVE Live(u, x, s, p) = Live(o, x, s, p) /\ SumOf(u, Live(o, x, s, p)) = SumOf(o, Live(o, x, s, p))
  <2>1. Live(u, x, s, p) = Live(o, x, s, p)
    BY DEF Live
  <2>2. \A i \in Live(o, x, s, p) : u[i] = o[i]
    BY DEF Live
  <2> QED BY <2>1, <2>2, SumSame
<1>2. \A l \in L : LET S == Live(u, x, s, l.price)
                   IN  S # {} /\ l.count = Cardinality(S) /\ l.qty = SumOf(u, S)
  <2> TAKE l \in L
  <2>1. LET S == Live(o, x, s, l.price)
        IN  S # {} /\ l.count = Cardinality(S) /\ l.qty = SumOf(o, S)
    BY DEF Agrees
  <2> QED BY <2>1, <1>1
<1>3. ASSUME NEW id \in Ids, u[id].price # 0, id \in Live(u, x, s, u[id].price)
      PROVE  \E l \in L : l.price = u[id].price
  <2>1. id # x /\ u[id] = o[id]
    BY <1>3 DEF Live
  <2>2. id \in Live(o, x, s, o[id].price)
    BY <1>1, <1>3, <2>1
  <2> QED BY <2>1, <2>2, <1>3 DEF Agrees
<1> QED BY <1>2, <1>3 DEF Agrees

\* The levels of one price are those that these orders make.
Holds(X, o, S, p) == IF S = {} THEN X = {} ELSE X = {Entry(p, Cardinality(S), SumOf(o, S))}

\* The levels of the other prices stay.
LEMMA LevelsElse ==
  ASSUME NEW o, NEW z, NEW y, NEW s, NEW L, Agrees(L, o, z, s), NEW p,
         \A q : q # p => Live(o, y, s, q) = Live(o, z, s, q),
         NEW X, Holds(X, o, Live(o, y, s, p), p)
  PROVE  Agrees(Off(L, p) \union X, o, y, s)
<1>1. ASSUME NEW l \in Off(L, p) \union X
      PROVE  LET S == Live(o, y, s, l.price)
             IN  S # {} /\ l.count = Cardinality(S) /\ l.qty = SumOf(o, S)
  <2>1. CASE l \in Off(L, p)
    <3>1. l \in L /\ l.price # p
      BY <2>1 DEF Off
    <3>2. LET S == Live(o, z, s, l.price)
          IN  S # {} /\ l.count = Cardinality(S) /\ l.qty = SumOf(o, S)
      BY <3>1 DEF Agrees
    <3> QED BY <3>1, <3>2
  <2>2. CASE l \in X
    <3>1. /\ Live(o, y, s, p) # {}
          /\ l = Entry(p, Cardinality(Live(o, y, s, p)), SumOf(o, Live(o, y, s, p)))
      BY <2>2 DEF Holds
    <3> QED BY <3>1 DEF Entry
  <2> QED BY <2>1, <2>2
<1>2. ASSUME NEW id \in Ids, o[id].price # 0, id \in Live(o, y, s, o[id].price)
      PROVE  \E l \in Off(L, p) \union X : l.price = o[id].price
  <2>1. CASE o[id].price = p
    <3>1. X = {Entry(p, Cardinality(Live(o, y, s, p)), SumOf(o, Live(o, y, s, p)))}
      BY <2>1, <1>2 DEF Holds
    <3>2. PICK l : l = Entry(p, Cardinality(Live(o, y, s, p)), SumOf(o, Live(o, y, s, p)))
      OBVIOUS
    <3>3. l \in X /\ l.price = p
      BY <3>1, <3>2 DEF Entry
    <3> QED BY <2>1, <3>3
  <2>2. CASE o[id].price # p
    <3>1. id \in Live(o, z, s, o[id].price)
      BY <2>2, <1>2
    <3>2. PICK l \in L : l.price = o[id].price
      BY <3>1, <1>2 DEF Agrees
    <3> QED BY <3>2, <2>2 DEF Off
  <2> QED BY <2>1, <2>2
<1> QED BY <1>1, <1>2 DEF Agrees

\* The level of a price is there exactly when an order makes it, and then as it makes it.
LEMMA LevelThere ==
  ASSUME NEW o, Objects(o), NEW z, NEW s, NEW L, Agrees(L, o, z, s), NEW p, p # 0,
         NEW S, S = Live(o, z, s, p)
  PROVE  /\ S = {} => Off(L, p) = L
         /\ S # {} => \E l \in L : l.price = p
         /\ \A l \in L : l.price = p => l.count = Cardinality(S) /\ l.qty = SumOf(o, S)
<1>1. S = {} => Off(L, p) = L
  <2>1. S = {} => \A l \in L : l.price # p
    BY DEF Agrees
  <2> QED BY <2>1 DEF Off
<1>2. ASSUME S # {} PROVE \E l \in L : l.price = p
  <2>1. PICK x : x \in S
    BY <1>2
  <2>2. x \in Ids /\ o[x].price = p
    BY <2>1, LiveIs
  <2> QED BY <2>1, <2>2 DEF Agrees
<1>3. \A l \in L : l.price = p => l.count = Cardinality(S) /\ l.qty = SumOf(o, S)
  BY DEF Agrees
<1> QED BY <1>1, <1>2, <1>3

\* The orders of a level with the order x and without it.
Splits(o, s, p, x, S) ==
  /\ S \in SUBSET Ids /\ x \notin S /\ Live(o, 0, s, p) = S \union {x} /\ IsFiniteSet(S)
  /\ Cardinality(S) \in Nat /\ Cardinality(S \union {x}) = Cardinality(S) + 1
  /\ SumOf(o, S) \in Nat /\ OpenQty(o[x]) \in Nat
  /\ SumOf(o, S \union {x}) = SumOf(o, S) + OpenQty(o[x])
  /\ Cardinality(S) = 0 => S = {}
  /\ S = {} => Cardinality(S) = 0 /\ SumOf(o, S) = 0
  /\ o[x].price = p /\ x # 0
  /\ \A q : q # p => Live(o, 0, s, q) = Live(o, x, s, q)

\* The order x and the others of its level.
LEMMA OneMore ==
  ASSUME NEW o, Objects(o), NEW s, NEW p, NEW x \in Ids, x \in Live(o, 0, s, p),
         NEW S, S = Live(o, x, s, p)
  PROVE  Splits(o, s, p, x, S)
<1>1. S \in SUBSET Ids /\ IsFiniteSet(S)
  BY LiveIs
<1>2. x # 0 /\ \A id \in Ids : id # 0
  BY OrdersAssumption
<1>3. o[x].price = p /\ x \notin S /\ Live(o, 0, s, p) = S \union {x}
  BY <1>2 DEF Live
<1>4. \A q : q # p => Live(o, 0, s, q) = Live(o, x, s, q)
  BY <1>2, <1>3 DEF Live
<1>5. Cardinality(S) \in Nat /\ (Cardinality(S) = 0 => S = {})
  BY <1>1, FS_CardinalityType, FS_EmptySet
<1>6. Cardinality(S \union {x}) = Cardinality(S) + 1
  BY <1>1, <1>3, FS_AddElement
<1>7. SumOf(o, S) \in Nat /\ (S = {} => SumOf(o, S) = 0)
  BY <1>1, SumIs
<1>8. {x} \in SUBSET Ids
  OBVIOUS
<1>9. OpenQty(o[x]) \in Nat
  BY <1>8, SumIs
<1>10. SumOf(o, S \union {x}) = SumOf(o, S) + OpenQty(o[x])
  BY <1>1, <1>3, SumAdds
<1>11. S = {} => Cardinality(S) = 0
  BY FS_EmptySet
<1> QED BY <1>1, <1>2, <1>3, <1>4, <1>5, <1>6, <1>7, <1>9, <1>10, <1>11 DEF Splits

\* A level loses an order.
LEMMA LevelHides ==
  ASSUME NEW o, Objects(o), NEW s, NEW L, Agrees(L, o, 0, s), NEW p, p # 0, NEW x \in Ids,
         x \in Live(o, 0, s, p), NEW c, NEW q, Entry(p, c, q) \in L
  PROVE  /\ c \in Nat /\ c # 0 /\ q \in Nat /\ OpenQty(o[x]) \in Nat /\ OpenQty(o[x]) <= q
         /\ c = 1 => q = OpenQty(o[x])
         /\ Agrees(Off(L, p) \union Closed(p, c, q - OpenQty(o[x])), o, x, s)
<1>1. PICK S : S = Live(o, x, s, p)
  OBVIOUS
<1>20. Splits(o, s, p, x, S)
  BY <1>1, OneMore
<1>2. /\ S \in SUBSET Ids /\ x \notin S /\ Live(o, 0, s, p) = S \union {x} /\ IsFiniteSet(S)
      /\ Cardinality(S) \in Nat /\ Cardinality(S \union {x}) = Cardinality(S) + 1
      /\ SumOf(o, S) \in Nat /\ OpenQty(o[x]) \in Nat
      /\ SumOf(o, S \union {x}) = SumOf(o, S) + OpenQty(o[x])
      /\ Cardinality(S) = 0 => S = {}
      /\ S = {} => Cardinality(S) = 0 /\ SumOf(o, S) = 0
      /\ \A r : r # p => Live(o, 0, s, r) = Live(o, x, s, r)
  BY <1>20 DEF Splits
<1>3. c = Cardinality(S \union {x}) /\ q = SumOf(o, S \union {x})
  <2>1. PICK T : T = Live(o, 0, s, p)
    OBVIOUS
  <2>2. \A l \in L : l.price = p => l.count = Cardinality(T) /\ l.qty = SumOf(o, T)
    BY <2>1, LevelThere
  <2>3. Entry(p, c, q).price = p /\ Entry(p, c, q).count = c /\ Entry(p, c, q).qty = q
    BY EntryIs
  <2>4. c = Cardinality(T) /\ q = SumOf(o, T)
    BY <2>2, <2>3
  <2> QED BY <2>1, <2>4, <1>2
<1>4. c = Cardinality(S) + 1 /\ q = SumOf(o, S) + OpenQty(o[x])
  BY <1>2, <1>3
<1>5. Holds(Closed(p, c, q - OpenQty(o[x])), o, S, p)
  <2>1. q - OpenQty(o[x]) = SumOf(o, S) /\ c - 1 = Cardinality(S) /\ (c = 1 <=> S = {})
    BY <1>2, <1>4
  <2> QED BY <2>1 DEF Holds, Closed
<1>6. \A r : r # p => Live(o, x, s, r) = Live(o, 0, s, r)
  BY <1>2
<1>7. Holds(Closed(p, c, q - OpenQty(o[x])), o, Live(o, x, s, p), p)
  BY <1>1, <1>5
<1>8. Agrees(Off(L, p) \union Closed(p, c, q - OpenQty(o[x])), o, x, s)
  BY <1>6, <1>7, LevelsElse
<1>9. /\ c \in Nat /\ c # 0 /\ q \in Nat /\ OpenQty(o[x]) \in Nat /\ OpenQty(o[x]) <= q
      /\ c = 1 => q = OpenQty(o[x])
  BY <1>2, <1>4
<1> QED BY <1>8, <1>9

\* A level gains an order.
LEMMA LevelShows ==
  ASSUME NEW o, Objects(o), NEW s, NEW L, NEW x \in Ids, Agrees(L, o, x, s), NEW p, p # 0,
         x \in Live(o, 0, s, p), NEW c, NEW q,
         Entry(p, c, q) \in L \/ (c = 0 /\ q = 0 /\ Off(L, p) = L)
  PROVE  Agrees(Off(L, p) \union {Entry(p, c + 1, q + OpenQty(o[x]))}, o, 0, s)
<1>1. PICK S : S = Live(o, x, s, p)
  OBVIOUS
<1>20. Splits(o, s, p, x, S)
  BY <1>1, OneMore
<1>2. /\ S \in SUBSET Ids /\ x \notin S /\ Live(o, 0, s, p) = S \union {x} /\ IsFiniteSet(S)
      /\ Cardinality(S) \in Nat /\ Cardinality(S \union {x}) = Cardinality(S) + 1
      /\ SumOf(o, S) \in Nat /\ OpenQty(o[x]) \in Nat
      /\ SumOf(o, S \union {x}) = SumOf(o, S) + OpenQty(o[x])
      /\ Cardinality(S) = 0 => S = {}
      /\ S = {} => Cardinality(S) = 0 /\ SumOf(o, S) = 0
      /\ \A r : r # p => Live(o, 0, s, r) = Live(o, x, s, r)
  BY <1>20 DEF Splits
<1>3. c = Cardinality(S) /\ q = SumOf(o, S)
  <2>1. /\ \A l \in L : l.price = p => l.count = Cardinality(S) /\ l.qty = SumOf(o, S)
        /\ S # {} => \E l \in L : l.price = p
    BY <1>1, LevelThere
  <2>2. CASE Entry(p, c, q) \in L
    BY <2>1, <2>2, EntryIs
  <2>3. CASE c = 0 /\ q = 0 /\ Off(L, p) = L
    <3>1. S = {}
      BY <2>1, <2>3 DEF Off
    <3> QED BY <3>1, <2>3, <1>2
  <2> QED BY <2>2, <2>3
<1>4. c + 1 = Cardinality(S \union {x}) /\ q + OpenQty(o[x]) = SumOf(o, S \union {x})
  BY <1>2, <1>3
<1>5. Holds({Entry(p, c + 1, q + OpenQty(o[x]))}, o, Live(o, 0, s, p), p)
  BY <1>2, <1>4 DEF Holds
<1>6. \A r : r # p => Live(o, 0, s, r) = Live(o, x, s, r)
  BY <1>2
<1> QED BY <1>5, <1>6, LevelsElse

\* A level keeps its orders, and one of them changes.
LEMMA LevelChanges ==
  ASSUME NEW o, Objects(o), NEW u, Objects(u), NEW s, NEW L, Agrees(L, o, 0, s), NEW p, p # 0,
         NEW x \in Ids, x \in Live(o, 0, s, p), x \in Live(u, 0, s, p),
         \A i \in Ids : i # x => u[i] = o[i], NEW c, NEW q, Entry(p, c, q) \in L,
         NEW delta \in Int, OpenQty(u[x]) = OpenQty(o[x]) + delta
  PROVE  /\ c \in Nat /\ q \in Nat /\ q + delta >= 0
         /\ Agrees(Off(L, p) \union {Entry(p, c, q + delta)}, u, 0, s)
<1>1. /\ c \in Nat /\ c # 0 /\ q \in Nat /\ OpenQty(o[x]) \in Nat /\ OpenQty(o[x]) <= q
      /\ c = 1 => q = OpenQty(o[x])
      /\ Agrees(Off(L, p) \union Closed(p, c, q - OpenQty(o[x])), o, x, s)
  BY LevelHides
<1>2. PICK K : K = Off(L, p) \union Closed(p, c, q - OpenQty(o[x]))
  OBVIOUS
<1>3. Agrees(K, u, x, s)
  BY <1>1, <1>2, HiddenChanges
<1>4. Off(K, p) = Off(L, p)
  BY <1>2, EntryIs DEF Off, Closed
<1>5. OpenQty(u[x]) \in Nat
  <2>1. {x} \in SUBSET Ids
    OBVIOUS
  <2> QED BY <2>1, SumIs
<1>6. q + delta >= 0
  BY <1>1, <1>5
<1>7. CASE c = 1
  <2>1. K = Off(L, p)
    BY <1>2, <1>7 DEF Closed
  <2>2. Off(K, p) = K
    BY <1>4, <2>1
  <2>3. PICK b, r : b = 0 /\ r = 0
    OBVIOUS
  <2>4. Entry(p, b, r) \in K \/ (b = 0 /\ r = 0 /\ Off(K, p) = K)
    BY <2>2, <2>3
  <2>5. Agrees(Off(K, p) \union {Entry(p, b + 1, r + OpenQty(u[x]))}, u, 0, s)
    BY <1>3, <2>4, LevelShows
  <2>6. b + 1 = c /\ r + OpenQty(u[x]) = q + delta
    BY <2>3, <1>1, <1>5, <1>7
  <2> QED BY <2>5, <2>6, <1>1, <1>4, <1>6
<1>8. CASE c # 1
  <2>1. PICK b, r : b = c - 1 /\ r = q - OpenQty(o[x])
    OBVIOUS
  <2>2. Entry(p, b, r) \in K
    BY <1>2, <1>8, <2>1 DEF Closed
  <2>3. Entry(p, b, r) \in K \/ (b = 0 /\ r = 0 /\ Off(K, p) = K)
    BY <2>2
  <2>4. Agrees(Off(K, p) \union {Entry(p, b + 1, r + OpenQty(u[x]))}, u, 0, s)
    BY <1>3, <2>3, LevelShows
  <2>5. b + 1 = c /\ r + OpenQty(u[x]) = q + delta
    BY <2>1, <1>1, <1>5
  <2> QED BY <2>4, <2>5, <1>1, <1>4, <1>6
<1> QED BY <1>7, <1>8

-----------------------------------------------------------------------------
(* The operations of the depth on levels that agree with the orders.       *)

AgreesOn(d, o, z, s) == Agrees(Listing(d.visible[s], d.excess[s]), o, z, s)

\* Where an order is accepted with a price there is a level.
LEMMA LevelOfLive ==
  ASSUME NEW d, NEW o, Objects(o), NEW s, NEW z, AgreesOn(d, o, z, s), NEW p, p # 0,
         Live(o, z, s, p) # {}
  PROVE  \E c, q : Entry(p, c, q) \in Listing(d.visible[s], d.excess[s])
<1>1. PICK L : L = Listing(d.visible[s], d.excess[s])
  OBVIOUS
<1>2. Agrees(L, o, z, s)
  BY <1>1 DEF AgreesOn
<1>3. PICK S : S = Live(o, z, s, p)
  OBVIOUS
<1>4. PICK l \in L : l.price = p
  BY <1>2, <1>3, LevelThere
<1>5. PICK k : l = Seen(k)
  BY <1>1, <1>4 DEF Listing
<1>6. l = Entry(l.price, l.count, l.qty)
  BY <1>5 DEF Seen, Entry
<1> QED BY <1>1, <1>4, <1>6

\* Closing what the order x has open at its level, or a level it has alone.
LEMMA CloseHides ==
  ASSUME NEW d, Shape(d), NEW s \in Sides, NEW o, Objects(o), AgreesOn(d, o, 0, s),
         NEW p \in Nat, p # 0, NEW x \in Ids, x \in Live(o, 0, s, p), NEW qty \in Int,
         \/ qty = OpenQty(o[x])
         \/ \A c \in Nat : \A q : Entry(p, c, q) \in Listing(d.visible[s], d.excess[s]) => ~(c > 1),
         NEW r, r = DepthClose(d, s, p, qty)
  PROVE  \E X : Turns(d, r, s, p, X) /\ AgreesOn(r, o, x, s)
<1>1. PICK L : L = Listing(d.visible[s], d.excess[s])
  OBVIOUS
<1>2. Agrees(L, o, 0, s)
  BY <1>1 DEF AgreesOn
<1>3. ASSUME NEW c, NEW q, Entry(p, c, q) \in L
      PROVE  /\ c \in Nat /\ c # 0 /\ q \in Nat /\ OpenQty(o[x]) \in Nat /\ OpenQty(o[x]) <= q
             /\ c = 1 => q = OpenQty(o[x])
             /\ Agrees(Off(L, p) \union Closed(p, c, q - OpenQty(o[x])), o, x, s)
             /\ c > 1 => qty = OpenQty(o[x])
  <2>1. /\ c \in Nat /\ c # 0 /\ q \in Nat /\ OpenQty(o[x]) \in Nat /\ OpenQty(o[x]) <= q
        /\ c = 1 => q = OpenQty(o[x])
        /\ Agrees(Off(L, p) \union Closed(p, c, q - OpenQty(o[x])), o, x, s)
    BY <1>2, <1>3, LevelHides
  <2> QED BY <2>1, <1>1, <1>3
<1>4. PICK c, q : Entry(p, c, q) \in L
  BY <1>1, LevelOfLive
<1>5. \/ /\ r = Lose(d)
         /\ \A b \in Nat, n \in Int : p # 0 /\ Entry(p, b, n) \in L => b = 0 \/ (b > 1 /\ n < qty)
      \/ /\ p # 0
         /\ \E b \in Nat, n \in Int : Entry(p, b, n) \in L /\ b # 0 /\ Turns(d, r, s, p, Closed(p, b, n - qty))
  BY <1>1, CloseIs
<1>6. ~ \A b \in Nat, n \in Int : p # 0 /\ Entry(p, b, n) \in L => b = 0 \/ (b > 1 /\ n < qty)
  <2>1. /\ c \in Nat /\ c # 0 /\ q \in Nat /\ OpenQty(o[x]) \in Nat /\ OpenQty(o[x]) <= q
        /\ c > 1 => qty = OpenQty(o[x])
    BY <1>3, <1>4
  <2>2. c \in Nat /\ q \in Int /\ ~(c = 0 \/ (c > 1 /\ q < qty))
    BY <2>1
  <2> QED BY <2>2, <1>4
<1>7. PICK b \in Nat, n \in Int : Entry(p, b, n) \in L /\ b # 0 /\ Turns(d, r, s, p, Closed(p, b, n - qty))
  BY <1>5, <1>6
<1>8. /\ b \in Nat /\ b # 0 /\ Agrees(Off(L, p) \union Closed(p, b, n - OpenQty(o[x])), o, x, s)
      /\ b > 1 => qty = OpenQty(o[x])
  BY <1>3, <1>7
<1>9. Closed(p, b, n - qty) = Closed(p, b, n - OpenQty(o[x]))
  <2>1. CASE b = 1
    BY <2>1 DEF Closed
  <2>2. CASE b # 1
    <3>1. qty = OpenQty(o[x])
      BY <2>2, <1>8
    <3> QED BY <3>1
  <2> QED BY <2>1, <2>2
<1>10. Listing(r.visible[s], r.excess[s]) = Off(L, p) \union Closed(p, b, n - qty)
  BY <1>1, <1>7 DEF Turns
<1>11. AgreesOn(r, o, x, s)
  BY <1>8, <1>9, <1>10 DEF AgreesOn
<1> QED BY <1>7, <1>11

\* Adding the order x to its level.
LEMMA AddShows ==
  ASSUME NEW d, Shape(d), NEW s \in Sides, NEW o, Objects(o), NEW x \in Ids, AgreesOn(d, o, x, s),
         NEW p \in Nat, p # 0, x \in Live(o, 0, s, p), NEW qty \in Int, qty = OpenQty(o[x]),
         NEW r, r = DepthAdd(d, s, p, qty)
  PROVE  \E X : Turns(d, r, s, p, X) /\ AgreesOn(r, o, 0, s)
<1>1. PICK L : L = Listing(d.visible[s], d.excess[s])
  OBVIOUS
<1>2. Agrees(L, o, x, s)
  BY <1>1 DEF AgreesOn
<1>7. AddsTo(d, r, s, p, qty, L)
  <2>1. \A n \in Int : r = DepthAdd(d, s, p, n) => AddsTo(d, r, s, p, n, L)
    BY <1>1, AddIs
  <2> QED BY <2>1
<1>3. PICK c \in Nat, q \in Int :
        /\ Turns(d, r, s, p, {Entry(p, c + 1, q + qty)})
        /\ Entry(p, c, q) \in L \/ (c = 0 /\ q = 0 /\ Off(L, p) = L)
  BY <1>7 DEF AddsTo
<1>4. Agrees(Off(L, p) \union {Entry(p, c + 1, q + OpenQty(o[x]))}, o, 0, s)
  BY <1>2, <1>3, LevelShows
<1>5. Listing(r.visible[s], r.excess[s]) = Off(L, p) \union {Entry(p, c + 1, q + qty)}
  BY <1>1, <1>3 DEF Turns
<1>6. AgreesOn(r, o, 0, s)
  BY <1>4, <1>5 DEF AgreesOn
<1> QED BY <1>3, <1>6

\* Changing the level of x by what x changes.
LEMMA ChangeAgrees ==
  ASSUME NEW d, Shape(d), NEW s \in Sides, NEW o, Objects(o), NEW u, Objects(u), AgreesOn(d, o, 0, s),
         NEW p \in Nat, p # 0, NEW x \in Ids, x \in Live(o, 0, s, p), x \in Live(u, 0, s, p),
         \A i \in Ids : i # x => u[i] = o[i], NEW delta \in Int, delta # 0,
         OpenQty(u[x]) = OpenQty(o[x]) + delta, NEW r, r = DepthChange(d, s, p, delta)
  PROVE  \E X : Turns(d, r, s, p, X) /\ AgreesOn(r, u, 0, s)
<1>1. PICK L : L = Listing(d.visible[s], d.excess[s])
  OBVIOUS
<1>2. Agrees(L, o, 0, s)
  BY <1>1 DEF AgreesOn
<1>3. ASSUME NEW c, NEW q, Entry(p, c, q) \in L
      PROVE  /\ c \in Nat /\ q \in Nat /\ q + delta >= 0
             /\ Agrees(Off(L, p) \union {Entry(p, c, q + delta)}, u, 0, s)
  BY <1>2, <1>3, LevelChanges
<1>4. PICK c, q : Entry(p, c, q) \in L
  BY <1>1, LevelOfLive
<1>5. \/ /\ r = Lose(d)
         /\ \A b \in Nat, n \in Int : p # 0 /\ Entry(p, b, n) \in L => n + delta < 0
      \/ \E b \in Nat, n \in Int :
           (p # 0 => Entry(p, b, n) \in L) /\ Turns(d, r, s, p, {Entry(p, b, n + delta)})
  BY <1>1, ChangeIs
<1>6. ~ \A b \in Nat, n \in Int : p # 0 /\ Entry(p, b, n) \in L => n + delta < 0
  <2>1. c \in Nat /\ q \in Nat /\ q + delta >= 0
    BY <1>3, <1>4
  <2>2. c \in Nat /\ q \in Int /\ ~(q + delta < 0)
    BY <2>1
  <2> QED BY <2>2, <1>4
<1>7. PICK b \in Nat, n \in Int : Entry(p, b, n) \in L /\ Turns(d, r, s, p, {Entry(p, b, n + delta)})
  BY <1>5, <1>6
<1>8. Agrees(Off(L, p) \union {Entry(p, b, n + delta)}, u, 0, s)
  BY <1>3, <1>7
<1>9. Listing(r.visible[s], r.excess[s]) = Off(L, p) \union {Entry(p, b, n + delta)}
  BY <1>1, <1>7 DEF Turns
<1>10. AgreesOn(r, u, 0, s)
  BY <1>8, <1>9 DEF AgreesOn
<1> QED BY <1>7, <1>10

-----------------------------------------------------------------------------
(* The depth as a mirror of the orders, from one callback to the next.     *)

\* A level that is listed has a price.
LEMMA PricesShown ==
  ASSUME NEW d, Shape(d), NEW s \in Sides, NEW l \in Listing(d.visible[s], d.excess[s])
  PROVE  l.price # 0
<1>1. Ordered(s, d.visible[s], d.excess[s])
  BY DEF Shape, SideOK
<1>2. \A k \in d.excess[s] : k.price # 0
  BY <1>1 DEF Ordered
<1>3. CASE \E i \in 1 .. Size : d.visible[s][i].price # 0 /\ l = Seen(d.visible[s][i])
  BY <1>3, SeenIs
<1>4. CASE \E k \in d.excess[s] : l = Seen(k)
  BY <1>2, <1>4, SeenIs
<1> QED BY <1>3, <1>4 DEF Listing

\* The orders of the levels stay as they are.
LEMMA AgreesSame ==
  ASSUME NEW o, NEW z, NEW u, NEW y, NEW s, NEW L, Agrees(L, o, z, s), \A l \in L : l.price # 0,
         \A p : p # 0 => Live(u, y, s, p) = Live(o, z, s, p),
         \A p : p # 0 => \A i \in Live(o, z, s, p) : u[i] = o[i]
  PROVE  Agrees(L, u, y, s)
<1>1. ASSUME NEW l \in L
      PROVE  LET S == Live(u, y, s, l.price)
             IN  S # {} /\ l.count = Cardinality(S) /\ l.qty = SumOf(u, S)
  <2>1. PICK S : S = Live(o, z, s, l.price)
    OBVIOUS
  <2>2. S # {} /\ l.count = Cardinality(S) /\ l.qty = SumOf(o, S)
    BY <2>1 DEF Agrees
  <2>3. S = Live(u, y, s, l.price) /\ \A i \in S : u[i] = o[i]
    BY <2>1
  <2>4. SumOf(u, S) = SumOf(o, S)
    BY <2>3, SumSame
  <2> QED BY <2>2, <2>3, <2>4
<1>2. ASSUME NEW id \in Ids, u[id].price # 0, id \in Live(u, y, s, u[id].price)
      PROVE  \E l \in L : l.price = u[id].price
  <2>1. id \in Live(o, z, s, u[id].price)
    BY <1>2
  <2>2. o[id].price = u[id].price
    BY <2>1 DEF Live
  <2> QED BY <2>1, <2>2, <1>2 DEF Agrees
<1> QED BY <1>1, <1>2 DEF Agrees

\* u is o but for the order x, which stays on its side.
Differs(o, u, x) == (\A i \in Ids : i # x => u[i] = o[i]) /\ u[x].side = o[x].side
IgnoredBy(o, y, s) == IF y \in Ids /\ o[y].side = s THEN OpenQty(o[y]) ELSE 0

\* The mirror, side by side.
LEMMA MirrorIs ==
  ASSUME NEW d, NEW o, NEW z
  PROVE  Mirror(d, o, z) <=>
           /\ Shape(d) /\ ~d.lost
           /\ \A s \in Sides : /\ AgreesOn(d, o, z, s) /\ Blanked(d.visible[s])
                               /\ d.ignored[s] = IgnoredBy(o, z, s)
BY DEF Mirror, AgreesOn, IgnoredBy

\* What an operation on the side s leaves alone.
Aside(d, r, s) ==
  /\ Shape(r) /\ ~r.lost /\ Blanked(r.visible[s])
  /\ \A t \in Sides : t # s => /\ r.visible[t] = d.visible[t] /\ r.excess[t] = d.excess[t]
                               /\ r.ignored[t] = d.ignored[t]

\* What happens to the order x on its side leaves the other side alone.
LEMMA MirrorFrom ==
  ASSUME NEW d, NEW o, NEW u, NEW z, NEW y, Mirror(d, o, z), NEW x \in Ids, Differs(o, u, x),
         NEW s \in Sides, s = o[x].side, y = z \/ (y \in {0, x} /\ z \in {0, x}),
         NEW r, Aside(d, r, s), AgreesOn(r, u, y, s), r.ignored[s] = IgnoredBy(u, y, s)
  PROVE  Mirror(r, u, y)
<1>1. ASSUME NEW t \in Sides, t # s
      PROVE  AgreesOn(r, u, y, t) /\ Blanked(r.visible[t]) /\ r.ignored[t] = IgnoredBy(u, y, t)
  <2>1. AgreesOn(d, o, z, t) /\ Blanked(d.visible[t]) /\ d.ignored[t] = IgnoredBy(o, z, t) /\ Shape(d)
    BY MirrorIs
  <2>2. /\ r.visible[t] = d.visible[t] /\ r.excess[t] = d.excess[t] /\ r.ignored[t] = d.ignored[t]
    BY <1>1 DEF Aside
  <2>3. x # 0 /\ \A i \in Ids : i # 0
    BY OrdersAssumption
  <2>4. \A i \in Ids : i # x => u[i] = o[i]
    BY DEF Differs
  <2>5. o[x].side # t /\ u[x].side # t
    BY <1>1 DEF Differs
  <2>6. \A p : Live(u, y, t, p) = Live(o, z, t, p)
    <3> TAKE p
    <3>1. ASSUME NEW i \in Ids PROVE i \in Live(u, y, t, p) <=> i \in Live(o, z, t, p)
      <4>1. CASE i = x
        BY <4>1, <2>5 DEF Live
      <4>2. CASE i # x
        <5>1. u[i] = o[i] /\ (i # y <=> i # z)
          BY <4>2, <2>3, <2>4
        <5> QED BY <5>1 DEF Live
      <4> QED BY <4>1, <4>2
    <3> QED BY <3>1 DEF Live
  <2>7. \A p : \A i \in Live(o, z, t, p) : u[i] = o[i]
    BY <2>4, <2>5 DEF Live
  <2>8. PICK L : L = Listing(d.visible[t], d.excess[t])
    OBVIOUS
  <2>9. Agrees(L, o, z, t) /\ \A l \in L : l.price # 0
    BY <2>1, <2>8, PricesShown DEF AgreesOn
  <2>10. Agrees(L, u, y, t)
    BY <2>6, <2>7, <2>9, AgreesSame
  <2>11. AgreesOn(r, u, y, t)
    BY <2>2, <2>8, <2>10 DEF AgreesOn
  <2>12. IgnoredBy(u, y, t) = IgnoredBy(o, z, t)
    <3>1. CASE y = x
      <4>1. z \in {0, x}
        BY <3>1
      <4> QED BY <3>1, <4>1, <2>3, <2>5, OrdersAssumption DEF IgnoredBy
    <3>2. CASE y # x
      <4>1. y = z \/ (y = 0 /\ z = x)
        BY <3>2
      <4>2. y \in Ids => u[y] = o[y]
        BY <3>2, <2>4
      <4> QED BY <4>1, <4>2, <2>3, <2>5, OrdersAssumption DEF IgnoredBy
    <3> QED BY <3>1, <3>2
  <2> QED BY <2>1, <2>2, <2>11, <2>12
<1>2. \A t \in Sides : AgreesOn(r, u, y, t) /\ Blanked(r.visible[t]) /\ r.ignored[t] = IgnoredBy(u, y, t)
  BY <1>1 DEF Aside
<1> QED BY <1>2, MirrorIs DEF Aside

\* An order without a price has no level.
LEMMA MirrorPriceless ==
  ASSUME NEW d, NEW o, NEW u, NEW z, Mirror(d, o, z), NEW x \in Ids, Differs(o, u, x),
         o[x].side \in Sides, z # x, o[x].price = 0, u[x].price = 0
  PROVE  Mirror(d, u, z)
<1>1. PICK s \in Sides : s = o[x].side
  OBVIOUS
<1>2. /\ AgreesOn(d, o, z, s) /\ Blanked(d.visible[s]) /\ d.ignored[s] = IgnoredBy(o, z, s)
      /\ Shape(d) /\ ~d.lost
  BY MirrorIs
<1>3. \A i \in Ids : i # x => u[i] = o[i]
  BY DEF Differs
<1>4. \A p : p # 0 => Live(u, z, s, p) = Live(o, z, s, p)
  <2> TAKE p
  <2> HAVE p # 0
  <2>1. ASSUME NEW i \in Ids PROVE i \in Live(u, z, s, p) <=> i \in Live(o, z, s, p)
    <3>1. CASE i = x
      BY <3>1 DEF Live
    <3>2. CASE i # x
      BY <3>2, <1>3 DEF Live
    <3> QED BY <3>1, <3>2
  <2> QED BY <2>1 DEF Live
<1>5. \A p : p # 0 => \A i \in Live(o, z, s, p) : u[i] = o[i]
  BY <1>3 DEF Live
<1>6. PICK L : L = Listing(d.visible[s], d.excess[s])
  OBVIOUS
<1>7. Agrees(L, o, z, s) /\ \A l \in L : l.price # 0
  BY <1>2, <1>6, PricesShown DEF AgreesOn
<1>8. Agrees(L, u, z, s)
  BY <1>4, <1>5, <1>7, AgreesSame
<1>9. AgreesOn(d, u, z, s)
  BY <1>6, <1>8 DEF AgreesOn
<1>10. IgnoredBy(u, z, s) = IgnoredBy(o, z, s)
  BY <1>3 DEF IgnoredBy
<1>11. Aside(d, d, s)
  BY <1>2 DEF Aside
<1> QED BY <1>1, <1>2, <1>9, <1>10, <1>11, MirrorFrom

\* The object of an order.
LEMMA ObjectIs ==
  ASSUME NEW o, Objects(o), NEW x \in Ids
  PROVE  /\ o[x] \in Object /\ o[x].side \in Sides /\ o[x].price \in Nat /\ o[x].qty \in Nat
         /\ o[x].filled \in Nat /\ o[x].filled <= o[x].qty
         /\ OpenQty(o[x]) = o[x].qty - o[x].filled /\ OpenQty(o[x]) \in Nat
<1>1. o[x] \in Object /\ o[x].filled <= o[x].qty
  BY DEF Objects
<1>2. /\ o[x].side \in Sides /\ o[x].price \in Nat /\ o[x].qty \in Nat /\ o[x].filled \in Nat
  BY <1>1 DEF Object
<1> QED BY <1>1, <1>2 DEF OpenQty

\* An accepted order makes its level, and no other order does.
LEMMA LiveOne ==
  ASSUME NEW o, NEW x \in Ids
  PROVE  /\ o[x].state = "accepted" => x \in Live(o, 0, o[x].side, o[x].price)
         /\ o[x].state # "accepted" => \A s, p : Live(o, 0, s, p) = Live(o, x, s, p)
         /\ \A s, p : s # o[x].side => Live(o, 0, s, p) = Live(o, x, s, p)
<1>1. x # 0 /\ \A i \in Ids : i # 0
  BY OrdersAssumption
<1> QED BY <1>1 DEF Live

\* An order that makes no level of the side is hidden or not.
LEMMA HideIdle ==
  ASSUME NEW d, Shape(d), NEW s \in Sides, NEW o, NEW x \in Ids,
         o[x].state # "accepted" \/ s # o[x].side
  PROVE  AgreesOn(d, o, x, s) <=> AgreesOn(d, o, 0, s)
<1>1. PICK L : L = Listing(d.visible[s], d.excess[s])
  OBVIOUS
<1>2. \A l \in L : l.price # 0
  BY <1>1, PricesShown
<1>3. \A p : Live(o, 0, s, p) = Live(o, x, s, p)
  BY LiveOne
<1>4. Agrees(L, o, x, s) <=> Agrees(L, o, 0, s)
  BY <1>2, <1>3, HideNone
<1> QED BY <1>1, <1>4 DEF AgreesOn

\* A hidden order changes.
LEMMA HiddenOn ==
  ASSUME NEW d, NEW s, NEW o, NEW u, NEW x, AgreesOn(d, o, x, s), Differs(o, u, x)
  PROVE  AgreesOn(d, u, x, s)
<1>1. PICK L : L = Listing(d.visible[s], d.excess[s])
  OBVIOUS
<1>2. \A i \in Ids : i # x => u[i] = o[i]
  BY DEF Differs
<1>3. Agrees(L, o, x, s)
  BY <1>1 DEF AgreesOn
<1>4. Agrees(L, u, x, s)
  BY <1>2, <1>3, HiddenChanges
<1> QED BY <1>1, <1>4 DEF AgreesOn

\* The sides of a mirror; nothing is ignored of an order that is not hidden.
LEMMA MirrorSide ==
  ASSUME NEW d, NEW o, NEW z, Mirror(d, o, z), NEW s \in Sides
  PROVE  /\ Shape(d) /\ ~d.lost /\ AgreesOn(d, o, z, s) /\ Blanked(d.visible[s])
         /\ d.ignored[s] = IgnoredBy(o, z, s)
         /\ z = 0 => d.ignored[s] = 0
<1>1. z = 0 => z \notin Ids
  BY OrdersAssumption
<1> QED BY <1>1, MirrorIs DEF IgnoredBy

\* What an operation on a level leaves alone.
LEMMA TurnsRest ==
  ASSUME NEW d, NEW r, NEW s \in Sides, NEW p, p # 0, NEW X, Turns(d, r, s, p, X), ~d.lost,
         Blanked(d.visible[s])
  PROVE  Aside(d, r, s) /\ r.ignored[s] = d.ignored[s]
BY DEF Turns, Aside

\* An order is accepted: its level has one more, or its fills will be ignored.
LEMMA MirrorAccept ==
  ASSUME NEW d, NEW o, Objects(o), NEW u, Objects(u), Mirror(d, o, 0), NEW x \in Ids, Differs(o, u, x),
         o[x].state = "new", u[x].state = "accepted", u[x].filled = 0, u[x].price = o[x].price,
         u[x].qty = o[x].qty, NEW cb, cb.qty \in Int, NEW r, r = AcceptDepth(d, o[x], cb)
  PROVE  Mirror(r, u, IF o[x].price # 0 /\ cb.qty = o[x].qty THEN x ELSE 0)
<1>1. PICK s \in Sides : s = o[x].side
  BY ObjectIs
<1>2. PICK p \in Nat : p = o[x].price
  BY ObjectIs
<1>3. /\ Shape(d) /\ ~d.lost /\ AgreesOn(d, o, 0, s) /\ Blanked(d.visible[s]) /\ d.ignored[s] = 0
  BY MirrorSide
<1>4. x # 0
  BY OrdersAssumption
<1>5. u[x].side = s
  BY <1>1 DEF Differs
<1>6. OpenQty(u[x]) = o[x].qty /\ o[x].qty \in Nat
  BY ObjectIs
<1>7. CASE p = 0
  <2>1. Mirror(d, u, 0)
    BY <1>1, <1>2, <1>4, <1>7, MirrorPriceless
  <2>2. r = d
    BY <1>2, <1>7 DEF AcceptDepth, MarketPrice
  <2> QED BY <2>1, <2>2, <1>2, <1>7
<1>8. AgreesOn(d, u, x, s)
  <2>1. AgreesOn(d, o, x, s)
    BY <1>3, HideIdle
  <2> QED BY <2>1, HiddenOn
<1>9. CASE p # 0 /\ cb.qty # o[x].qty
  <2>1. r = DepthAdd(d, s, p, o[x].qty)
    BY <1>1, <1>2, <1>9 DEF AcceptDepth, MarketPrice
  <2>2. x \in Live(u, 0, s, p)
    BY <1>2, <1>5, LiveOne
  <2>3. o[x].qty \in Int /\ o[x].qty = OpenQty(u[x])
    BY <1>6
  <2>4. PICK X : Turns(d, r, s, p, X) /\ AgreesOn(r, u, 0, s)
    BY <1>3, <1>8, <1>9, <2>1, <2>2, <2>3, AddShows
  <2>5. Aside(d, r, s) /\ r.ignored[s] = d.ignored[s]
    BY <2>4, <1>3, <1>9, TurnsRest
  <2>6. IgnoredBy(u, 0, s) = 0
    BY OrdersAssumption DEF IgnoredBy
  <2>7. Mirror(r, u, 0)
    BY <1>1, <1>3, <2>4, <2>5, <2>6, MirrorFrom
  <2> QED BY <2>7, <1>9
<1>10. CASE p # 0 /\ cb.qty = o[x].qty
  <2>1. r = WithIgnored(d, s, cb.qty)
    BY <1>1, <1>2, <1>3, <1>10 DEF AcceptDepth, MarketPrice, DepthIgnore, WithIgnored
  <2>2. Sound(d, r) /\ Ignoring(d, r, s, cb.qty)
    BY <1>3, <2>1, WithIgnoredIs
  <2>3. /\ Shape(r) /\ ~r.lost /\ r.visible = d.visible /\ r.excess = d.excess /\ r.ignored[s] = cb.qty
        /\ \A t \in Sides : t # s => r.ignored[t] = d.ignored[t]
    BY <2>2, <1>3 DEF Sound, Ignoring
  <2>4. AgreesOn(r, u, x, s)
    BY <1>8, <2>3 DEF AgreesOn
  <2>5. IgnoredBy(u, x, s) = cb.qty
    BY <1>5, <1>6, <1>10 DEF IgnoredBy
  <2>7. Aside(d, r, s)
    BY <2>3, <1>3 DEF Aside
  <2>6. Mirror(r, u, x)
    BY <1>1, <1>3, <2>3, <2>4, <2>5, <2>7, MirrorFrom
  <2> QED BY <2>6, <1>2, <1>10
<1> QED BY <1>7, <1>9, <1>10

\* An order is filled: what is ignored of it becomes less, or its level does.
LEMMA MirrorFill ==
  ASSUME NEW d, NEW o, Objects(o), NEW u, Objects(u), NEW z, Mirror(d, o, z), NEW x \in Ids,
         Differs(o, u, x),
         NEW qty \in Nat, qty # 0, qty <= OpenQty(o[x]), o[x].state = "accepted",
         u[x] = Fill(o[x], qty),
         z = 0 \/ (z = x /\ o[x].price # 0) \/ (z \in Ids /\ o[z].side # o[x].side),
         NEW filled \in BOOLEAN, filled = (OpenQty(o[x]) = qty), NEW r,
         r = FillDepth(d, o[x], qty, filled)
  PROVE  Mirror(r, u, z)
<1>1. PICK s \in Sides : s = o[x].side
  BY ObjectIs
<1>2. PICK p \in Nat : p = o[x].price
  BY ObjectIs
<1>3. /\ Shape(d) /\ ~d.lost /\ AgreesOn(d, o, z, s) /\ Blanked(d.visible[s])
      /\ d.ignored[s] = IgnoredBy(o, z, s)
  BY MirrorSide
<1>4. OpenQty(o[x]) \in Nat
  BY ObjectIs
<1>5. /\ u[x].side = s /\ u[x].price = p /\ OpenQty(u[x]) = OpenQty(o[x]) - qty
      /\ u[x].state = IF OpenQty(o[x]) - qty = 0 THEN "complete" ELSE "accepted"
  <2>1. o[x] \in Object /\ o[x].filled <= o[x].qty
    BY ObjectIs
  <2> QED BY <2>1, <1>1, <1>2, OrderFillIs
<1>6. CASE p = 0
  <2>1. z # x
    <3>1. x # 0
      BY OrdersAssumption
    <3> QED BY <3>1, <1>2, <1>6
  <2>2. Mirror(d, u, z)
    BY <2>1, <1>1, <1>2, <1>5, <1>6, MirrorPriceless
  <2>3. r = d
    BY <1>2, <1>6 DEF FillDepth, MarketPrice
  <2> QED BY <2>2, <2>3
<1>7. CASE p # 0 /\ z = x
  <2>1. PICK n \in Int : n = OpenQty(o[x]) - qty
    BY <1>4
  <2>2. d.ignored[s] = OpenQty(o[x])
    BY <1>1, <1>3, <1>7 DEF IgnoredBy
  <2>3. r = DepthFill(d, s, p, qty, filled)
    BY <1>1, <1>2, <1>7 DEF FillDepth, MarketPrice
  <2>4. d.ignored[s] # 0 /\ ~(qty > d.ignored[s]) /\ d.ignored[s] - qty = n
    BY <2>1, <2>2, <1>4
  <2>5. r = WithIgnored(d, s, n)
    BY <2>3, <2>4 DEF DepthFill, WithIgnored
  <2>6. Sound(d, r) /\ Ignoring(d, r, s, n)
    BY <1>3, <2>5, WithIgnoredIs
  <2>7. /\ Shape(r) /\ ~r.lost /\ r.visible = d.visible /\ r.excess = d.excess /\ r.ignored[s] = n
        /\ \A t \in Sides : t # s => r.ignored[t] = d.ignored[t]
    BY <2>6, <1>3 DEF Sound, Ignoring
  <2>8. AgreesOn(d, u, x, s)
    BY <1>3, <1>7, HiddenOn
  <2>9. AgreesOn(r, u, x, s)
    BY <2>7, <2>8 DEF AgreesOn
  <2>10. IgnoredBy(u, x, s) = n
    BY <1>5, <2>1 DEF IgnoredBy
  <2>11. Aside(d, r, s)
    BY <2>7, <1>3 DEF Aside
  <2> QED BY <1>1, <1>7, <2>7, <2>9, <2>10, <2>11, MirrorFrom
<1>8. CASE p # 0 /\ z # x
  <2>1. z = 0 \/ (z \in Ids /\ o[z].side # s /\ u[z].side # s)
    BY <1>1, <1>8 DEF Differs
  <2>2. IgnoredBy(o, z, s) = 0 /\ IgnoredBy(u, z, s) = 0
    BY <2>1, OrdersAssumption DEF IgnoredBy
  <2>3. AgreesOn(d, o, 0, s)
    BY <2>1, <1>3, HideIdle
  <2>4. r = IF filled THEN DepthClose(d, s, p, qty) ELSE DepthChange(d, s, p, -qty)
    BY <2>2, <1>1, <1>2, <1>3, <1>8 DEF FillDepth, MarketPrice, DepthFill
  <2>5. x \in Live(o, 0, s, p)
    BY <1>1, <1>2, LiveOne
  <2>6. \E X : Turns(d, r, s, p, X) /\ AgreesOn(r, u, 0, s)
    <3>1. CASE filled
      <4>7. OpenQty(o[x]) = qty
        BY <3>1
      <4>8. r = DepthClose(d, s, p, qty)
        BY <2>4, <3>1
      <4>1. r = DepthClose(d, s, p, qty) /\ qty \in Int /\ qty = OpenQty(o[x])
        BY <4>7, <4>8
      <4>2. PICK X : Turns(d, r, s, p, X) /\ AgreesOn(r, o, x, s)
        BY <4>1, <2>3, <2>5, <1>3, <1>8, CloseHides
      <4>3. AgreesOn(r, u, x, s)
        BY <4>2, HiddenOn
      <4>4. u[x].state # "accepted"
        BY <4>1, <1>4, <1>5
      <4>5. Shape(r)
        BY <4>2 DEF Turns
      <4>6. AgreesOn(r, u, 0, s)
        BY <4>3, <4>4, <4>5, HideIdle
      <4> QED BY <4>2, <4>6
    <3>2. CASE ~filled
      <4>1. PICK delta \in Int : delta = -qty
        OBVIOUS
      <4>6. OpenQty(o[x]) # qty
        BY <3>2
      <4>2. r = DepthChange(d, s, p, delta) /\ delta # 0
        BY <2>4, <3>2, <4>1
      <4>3. u[x].state = "accepted" /\ OpenQty(u[x]) = OpenQty(o[x]) + delta
        BY <4>6, <4>1, <1>4, <1>5
      <4>4. x \in Live(u, 0, s, p)
        BY <4>3, <1>5, LiveOne
      <4>5. \A i \in Ids : i # x => u[i] = o[i]
        BY DEF Differs
      <4> QED BY <4>2, <4>3, <4>4, <4>5, <2>3, <2>5, <1>3, <1>8, ChangeAgrees
    <3> QED BY <3>1, <3>2
  <2>7. PICK X : Turns(d, r, s, p, X) /\ AgreesOn(r, u, 0, s)
    BY <2>6
  <2>8. Aside(d, r, s) /\ r.ignored[s] = d.ignored[s]
    BY <2>7, <1>3, <1>8, TurnsRest
  <2>9. Shape(r)
    BY <2>8 DEF Aside
  <2>10. AgreesOn(r, u, z, s)
    BY <2>1, <2>7, <2>9, HideIdle
  <2>11. r.ignored[s] = IgnoredBy(u, z, s)
    BY <2>2, <2>8, <1>3
  <2> QED BY <1>1, <2>8, <2>10, <2>11, MirrorFrom
<1> QED BY <1>6, <1>7, <1>8

\* A level with one order.
Single(d, s, p) == \A c \in Nat : \A q : Entry(p, c, q) \in Listing(d.visible[s], d.excess[s]) => ~(c > 1)

\* An order is cancelled: its level has one less.
LEMMA MirrorCancel ==
  ASSUME NEW d, NEW o, Objects(o), NEW u, Mirror(d, o, 0), NEW x \in Ids, Differs(o, u, x),
         o[x].state = "accepted", u[x].state # "accepted", u[x].price = o[x].price, NEW qty \in Int,
         qty = OpenQty(o[x]) \/ Single(d, o[x].side, o[x].price), NEW r, r = CancelDepth(d, o[x], qty)
  PROVE  Mirror(r, u, 0)
<1>1. PICK s \in Sides : s = o[x].side
  BY ObjectIs
<1>2. PICK p \in Nat : p = o[x].price
  BY ObjectIs
<1>3. /\ Shape(d) /\ ~d.lost /\ AgreesOn(d, o, 0, s) /\ Blanked(d.visible[s]) /\ d.ignored[s] = 0
  BY MirrorSide
<1>4. x # 0
  BY OrdersAssumption
<1>5. CASE p = 0
  <2>1. Mirror(d, u, 0)
    BY <1>1, <1>2, <1>4, <1>5, MirrorPriceless
  <2>2. r = d
    BY <1>2, <1>5 DEF CancelDepth, MarketPrice
  <2> QED BY <2>1, <2>2
<1>6. CASE p # 0
  <2>1. r = DepthClose(d, s, p, qty)
    BY <1>1, <1>2, <1>6 DEF CancelDepth, MarketPrice
  <2>2. x \in Live(o, 0, s, p)
    BY <1>1, <1>2, LiveOne
  <2>3. \/ qty = OpenQty(o[x])
        \/ \A c \in Nat : \A q : Entry(p, c, q) \in Listing(d.visible[s], d.excess[s]) => ~(c > 1)
    BY <1>1, <1>2 DEF Single
  <2>4. PICK X : Turns(d, r, s, p, X) /\ AgreesOn(r, o, x, s)
    BY <2>1, <2>2, <2>3, <1>3, <1>6, CloseHides
  <2>5. Aside(d, r, s) /\ r.ignored[s] = d.ignored[s]
    BY <2>4, <1>3, <1>6, TurnsRest
  <2>6. Shape(r)
    BY <2>5 DEF Aside
  <2>7. AgreesOn(r, u, x, s)
    BY <2>4, HiddenOn
  <2>8. AgreesOn(r, u, 0, s)
    BY <2>6, <2>7, HideIdle
  <2>9. r.ignored[s] = IgnoredBy(u, 0, s)
    BY <2>5, <1>3, OrdersAssumption DEF IgnoredBy
  <2> QED BY <1>1, <2>5, <2>8, <2>9, MirrorFrom
<1> QED BY <1>5, <1>6

\* An order moves from one level to another.
LEMMA LevelMoves ==
  ASSUME NEW d, Shape(d), ~d.lost, NEW s \in Sides, Blanked(d.visible[s]), NEW o, Objects(o), NEW u,
         Objects(u),
         AgreesOn(d, o, 0, s), NEW x \in Ids, Differs(o, u, x), NEW p \in Nat, p # 0, NEW n \in Nat,
         n # 0, p # n,
         x \in Live(o, 0, s, p), x \in Live(u, 0, s, n), NEW old \in Int, old = OpenQty(o[x]),
         NEW new \in Int, new = OpenQty(u[x]), NEW e, e = DepthAdd(d, s, n, new),
         NEW r, r = DepthClose(e, s, p, old)
  PROVE  Aside(d, r, s) /\ r.ignored[s] = d.ignored[s] /\ AgreesOn(r, u, 0, s)
<1>1. PICK L : L = Listing(d.visible[s], d.excess[s])
  OBVIOUS
<1>2. Agrees(L, o, 0, s)
  BY <1>1 DEF AgreesOn
<1>3. AddsTo(d, e, s, n, new, L)
  <2>1. \A m \in Int : e = DepthAdd(d, s, n, m) => AddsTo(d, e, s, n, m, L)
    BY <1>1, AddIs
  <2> QED BY <2>1
<1>4. PICK c \in Nat, q \in Int :
        /\ Turns(d, e, s, n, {Entry(n, c + 1, q + new)})
        /\ Entry(n, c, q) \in L \/ (c = 0 /\ q = 0 /\ Off(L, n) = L)
  BY <1>3 DEF AddsTo
<1>5. Aside(d, e, s) /\ e.ignored[s] = d.ignored[s]
  BY <1>4, TurnsRest
<1>6. Shape(e) /\ ~e.lost /\ Blanked(e.visible[s])
  BY <1>5 DEF Aside
<1>7. PICK E : E = Listing(e.visible[s], e.excess[s])
  OBVIOUS
<1>8. PICK a : a = Entry(n, c + 1, q + new)
  OBVIOUS
<1>9. E = Off(L, n) \union {a} /\ a.price = n
  BY <1>1, <1>4, <1>7, <1>8, EntryIs DEF Turns
<1>10. \A b, m : Entry(p, b, m) \in E <=> Entry(p, b, m) \in L
  <2> TAKE b, m
  <2>1. Entry(p, b, m).price = p
    BY EntryIs
  <2> QED BY <2>1, <1>9 DEF Off
<1>11. ASSUME NEW b, NEW m, Entry(p, b, m) \in L
       PROVE  /\ b \in Nat /\ b # 0 /\ m \in Nat /\ OpenQty(o[x]) <= m
              /\ Agrees(Off(L, p) \union Closed(p, b, m - old), o, x, s)
  <2>1. /\ b \in Nat /\ b # 0 /\ m \in Nat /\ OpenQty(o[x]) \in Nat /\ OpenQty(o[x]) <= m
        /\ b = 1 => m = OpenQty(o[x])
        /\ Agrees(Off(L, p) \union Closed(p, b, m - OpenQty(o[x])), o, x, s)
    BY <1>2, <1>11, LevelHides
  <2> QED BY <2>1
<1>12. \/ /\ r = Lose(e)
          /\ \A b \in Nat, m \in Int : p # 0 /\ Entry(p, b, m) \in E => b = 0 \/ (b > 1 /\ m < old)
       \/ /\ p # 0
          /\ \E b \in Nat, m \in Int : Entry(p, b, m) \in E /\ b # 0 /\ Turns(e, r, s, p, Closed(p, b, m - old))
  BY <1>6, <1>7, CloseIs
<1>13. ~ \A b \in Nat, m \in Int : p # 0 /\ Entry(p, b, m) \in E => b = 0 \/ (b > 1 /\ m < old)
  <2>1. PICK b, m : Entry(p, b, m) \in L
    BY <1>1, LevelOfLive
  <2>2. b \in Nat /\ b # 0 /\ m \in Nat /\ old <= m
    BY <2>1, <1>11
  <2>3. b \in Nat /\ m \in Int /\ ~(b = 0 \/ (b > 1 /\ m < old)) /\ Entry(p, b, m) \in E
    BY <2>1, <2>2, <1>10
  <2> QED BY <2>3
<1>14. PICK b \in Nat, m \in Int : Entry(p, b, m) \in E /\ Turns(e, r, s, p, Closed(p, b, m - old))
  BY <1>12, <1>13
<1>15. PICK X : X = Closed(p, b, m - old)
  OBVIOUS
<1>16. \A l \in X : l.price = p
  BY <1>15, EntryIs DEF Closed
<1>17. PICK K : K = Off(L, p) \union X
  OBVIOUS
<1>18. Agrees(K, u, x, s)
  <2>1. Agrees(K, o, x, s)
    BY <1>10, <1>11, <1>14, <1>15, <1>17
  <2>2. \A i \in Ids : i # x => u[i] = o[i]
    BY DEF Differs
  <2> QED BY <2>1, <2>2, HiddenChanges
<1>19. Entry(n, c, q) \in K \/ (c = 0 /\ q = 0 /\ Off(K, n) = K)
  <2>1. CASE Entry(n, c, q) \in L
    <3>1. Entry(n, c, q).price = n
      BY EntryIs
    <3> QED BY <2>1, <3>1, <1>17 DEF Off
  <2>2. CASE c = 0 /\ q = 0 /\ Off(L, n) = L
    <3>1. \A l \in L : l.price # n
      BY <2>2 DEF Off
    <3>2. \A l \in K : l.price # n
      BY <3>1, <1>16, <1>17 DEF Off
    <3>3. Off(K, n) = K
      BY <3>2 DEF Off
    <3> QED BY <2>2, <3>3
  <2> QED BY <2>1, <2>2, <1>4
<1>20. Agrees(Off(K, n) \union {a}, u, 0, s)
  <2>1. Agrees(Off(K, n) \union {Entry(n, c + 1, q + OpenQty(u[x]))}, u, 0, s)
    BY <1>18, <1>19, LevelShows
  <2> QED BY <2>1, <1>8
<1>21. Listing(r.visible[s], r.excess[s]) = Off(E, p) \union X
  BY <1>7, <1>14, <1>15 DEF Turns
<1>22. Off(E, p) \union X = Off(K, n) \union {a}
  BY <1>9, <1>16, <1>17 DEF Off
<1>23. AgreesOn(r, u, 0, s)
  BY <1>20, <1>21, <1>22 DEF AgreesOn
<1>24. Aside(e, r, s) /\ r.ignored[s] = e.ignored[s]
  BY <1>6, <1>14, TurnsRest
<1>25. Aside(d, r, s)
  BY <1>5, <1>24 DEF Aside
<1> QED BY <1>5, <1>23, <1>24, <1>25

\* What a replacement makes of an order.
Restated(o, delta, n) == [o EXCEPT !.qty = o.qty + delta, !.price = n]

\* An order is replaced: its level changes, or it moves to another.
LEMMA MirrorReplace ==
  ASSUME NEW d, NEW o, Objects(o), NEW u, Objects(u), Mirror(d, o, 0), NEW x \in Ids, Differs(o, u, x),
         o[x].state = "accepted", NEW delta \in Int, NEW n \in Nat, n # 0, o[x].price # 0,
         u[x] = Restated(o[x], delta, n),
         n # o[x].price => o[x].filled = 0,
         NEW r, r = DepthReplace(d, o[x].side, o[x].price, n, o[x].qty, o[x].qty + delta)
  PROVE  Mirror(r, u, 0)
<1>1. PICK s \in Sides : s = o[x].side
  BY ObjectIs
<1>2. PICK p \in Nat : p = o[x].price
  BY ObjectIs
<1>3. /\ Shape(d) /\ ~d.lost /\ AgreesOn(d, o, 0, s) /\ Blanked(d.visible[s]) /\ d.ignored[s] = 0
  BY MirrorSide
<1>4. PICK qty \in Nat : qty = o[x].qty
  BY ObjectIs
<1>5. /\ u[x].side = s /\ u[x].price = n /\ u[x].state = "accepted" /\ u[x].qty = qty + delta
      /\ u[x].filled = o[x].filled
  <2>1. o[x] \in Object
    BY ObjectIs
  <2> QED BY <2>1, <1>1, <1>4 DEF Object, Restated
<1>6. /\ OpenQty(o[x]) = qty - o[x].filled /\ OpenQty(u[x]) = qty + delta - o[x].filled
      /\ o[x].filled \in Nat
  <2>1. /\ OpenQty(o[x]) = o[x].qty - o[x].filled /\ o[x].filled \in Nat
        /\ OpenQty(u[x]) = u[x].qty - u[x].filled
    BY ObjectIs
  <2> QED BY <2>1, <1>4, <1>5
<1>7. x \in Live(o, 0, s, p) /\ x \in Live(u, 0, s, n)
  <2>1. x \in Live(o, 0, s, p)
    BY <1>1, <1>2, LiveOne
  <2>2. x \in Live(u, 0, s, n)
    BY <1>5, LiveOne
  <2> QED BY <2>1, <2>2
<1>8. IgnoredBy(u, 0, s) = 0
  BY OrdersAssumption DEF IgnoredBy
<1>9. CASE p = n /\ delta = 0
  <2>1. u[x] = o[x]
    <3>1. o[x] \in Object
      BY ObjectIs
    <3>3. o[x].qty + delta = o[x].qty /\ n = o[x].price
      BY <1>2, <1>4, <1>9
    <3>4. PICK a, b : a = o[x].qty + delta /\ b = n
      OBVIOUS
    <3>5. u[x] = [o[x] EXCEPT !.qty = a, !.price = b]
      BY <3>4 DEF Restated
    <3>2. u[x] = [o[x] EXCEPT !.qty = o[x].qty, !.price = o[x].price]
      BY <3>3, <3>4, <3>5
    <3> QED BY <3>1, <3>2 DEF Object
  <2>2. r = d
    <3>1. (qty + delta) - qty = 0
      BY <1>9
    <3> QED BY <3>1, <1>2, <1>4, <1>9 DEF DepthReplace, DepthChange
  <2>3. \A i \in Ids : u[i] = o[i]
    BY <2>1 DEF Differs
  <2>4. AgreesOn(d, u, 0, s)
    <3>1. PICK L : L = Listing(d.visible[s], d.excess[s])
      OBVIOUS
    <3>2. Agrees(L, o, 0, s) /\ \A l \in L : l.price # 0
      BY <3>1, <1>3, PricesShown DEF AgreesOn
    <3>3. \A q : Live(u, 0, s, q) = Live(o, 0, s, q)
      BY <2>3 DEF Live
    <3>4. \A q : \A i \in Live(o, 0, s, q) : u[i] = o[i]
      BY <2>3 DEF Live
    <3>5. Agrees(L, u, 0, s)
      BY <3>2, <3>3, <3>4, AgreesSame
    <3> QED BY <3>1, <3>5 DEF AgreesOn
  <2>5. Aside(d, d, s)
    BY <1>3 DEF Aside
  <2> QED BY <2>2, <2>4, <2>5, <1>1, <1>3, <1>8, MirrorFrom
<1>10. CASE p = n /\ delta # 0
  <2>1. (qty + delta) - qty = delta
    OBVIOUS
  <2>2. r = DepthChange(d, s, p, delta)
    BY <2>1, <1>1, <1>2, <1>4, <1>10 DEF DepthReplace
  <2>3. OpenQty(u[x]) = OpenQty(o[x]) + delta
    BY <1>6
  <2>4. \A i \in Ids : i # x => u[i] = o[i]
    BY DEF Differs
  <2>5. x \in Live(u, 0, s, p)
    BY <1>7, <1>10
  <2>6. p # 0
    BY <1>2
  <2>7. PICK X : Turns(d, r, s, p, X) /\ AgreesOn(r, u, 0, s)
    BY <2>2, <2>3, <2>4, <2>5, <2>6, <1>3, <1>7, <1>10, ChangeAgrees
  <2>8. Aside(d, r, s) /\ r.ignored[s] = d.ignored[s]
    BY <2>6, <2>7, <1>3, TurnsRest
  <2> QED BY <2>7, <2>8, <1>1, <1>3, <1>8, MirrorFrom
<1>11. CASE p # n
  <2>1. PICK old \in Int, new \in Int : old = qty /\ new = qty + delta
    OBVIOUS
  <2>2. old = OpenQty(o[x]) /\ new = OpenQty(u[x])
    BY <2>1, <1>2, <1>6, <1>11
  <2>3. PICK e : e = DepthAdd(d, s, n, new)
    OBVIOUS
  <2>4. r = DepthClose(e, s, p, old)
    BY <2>1, <2>3, <1>1, <1>2, <1>4, <1>11 DEF DepthReplace
  <2>5. p # 0
    BY <1>2
  <2>6. Aside(d, r, s) /\ r.ignored[s] = d.ignored[s] /\ AgreesOn(r, u, 0, s)
    BY <2>2, <2>3, <2>4, <2>5, <1>3, <1>7, <1>11, LevelMoves
  <2> QED BY <2>6, <1>1, <1>3, <1>8, MirrorFrom
<1> QED BY <1>9, <1>10, <1>11

\* A book update publishes the levels as they are.
LEMMA MirrorUpdate ==
  ASSUME NEW d, NEW o, Mirror(d, o, 0), NEW r, r = UpdateDepth(d)
  PROVE  Mirror(r, o, 0)
<1>1. Shape(d) /\ ~d.lost
  BY MirrorIs
<1>2. CASE r = d
  BY <1>2
<1>3. CASE r = Published(d)
  <2>1. Settles(d, r)
    BY <1>1, <1>3, PublishedIs
  <2>2. Shape(r) /\ ~r.lost /\ r.ignored = d.ignored
    BY <2>1, <1>1 DEF Settles
  <2>3. \A s \in Sides : /\ Listing(r.visible[s], r.excess[s]) = Listing(d.visible[s], d.excess[s])
                         /\ Blanked(d.visible[s]) => Blanked(r.visible[s])
    BY <2>1 DEF Settles
  <2>4. \A s \in Sides : AgreesOn(d, o, 0, s) /\ Blanked(d.visible[s]) /\ d.ignored[s] = IgnoredBy(o, 0, s)
    BY MirrorIs
  <2>5. \A s \in Sides : AgreesOn(r, o, 0, s) /\ Blanked(r.visible[s]) /\ r.ignored[s] = IgnoredBy(o, 0, s)
    BY <2>2, <2>3, <2>4 DEF AgreesOn
  <2> QED BY <2>2, <2>5, MirrorIs
<1> QED BY <1>2, <1>3 DEF UpdateDepth

\* A callback about the order x leaves the others as they are.
With(o, x, a) == [o EXCEPT ![x] = a]

\* Only the object of x is another.
LEMMA DiffersIs ==
  ASSUME NEW o, Objects(o), NEW x \in Ids, NEW a, a.side = o[x].side, NEW u, u = With(o, x, a)
  PROVE  Differs(o, u, x) /\ u[x] = a
<1>1. o \in [Ids -> Object]
  BY DEF Objects
<1> QED BY <1>1 DEF Differs, With

\* Accept.
LEMMA AcceptMirror ==
  ASSUME NEW o, Objects(o), NEW cb \in Callbacks, cb.type = "accept", Proper(o, cb),
         NEW u, u = Effect(o, cb), Objects(u), NEW d, Mirror(d, o, 0),
         NEW r, r = AcceptDepth(d, o[cb.order], cb)
  PROVE  Mirror(r, u, IF o[cb.order].price # 0 /\ cb.qty = o[cb.order].qty THEN cb.order ELSE 0)
<1>1. PICK x \in Ids : x = cb.order
  BY DEF Callbacks
<1>2. o[x].state = "new" /\ o[x].filled = 0
  BY <1>1 DEF Proper
<1>3. PICK a : a = [o[x] EXCEPT !.state = "accepted"]
  OBVIOUS
<1>4. u = With(o, x, a)
  BY <1>1, <1>2, <1>3 DEF Effect, With
<1>5. /\ a.side = o[x].side /\ a.state = "accepted" /\ a.filled = 0 /\ a.price = o[x].price
      /\ a.qty = o[x].qty
  <2>1. o[x] \in Object
    BY ObjectIs
  <2> QED BY <2>1, <1>2, <1>3 DEF Object
<1>6. Differs(o, u, x) /\ u[x] = a
  BY <1>4, <1>5, DiffersIs
<1>7. cb.qty \in Int
  BY DEF Callbacks
<1>8. r = AcceptDepth(d, o[x], cb)
  BY <1>1
<1>9. Mirror(r, u, IF o[x].price # 0 /\ cb.qty = o[x].qty THEN x ELSE 0)
  BY <1>2, <1>5, <1>6, <1>7, <1>8, MirrorAccept
<1> QED BY <1>1, <1>9

Filling(o, u, x, qty, full) ==
  /\ Objects(o) /\ Objects(u) /\ Differs(o, u, x) /\ qty \in Nat /\ qty # 0 /\ qty <= OpenQty(o[x])
  /\ o[x].state = "accepted" /\ u[x] = Fill(o[x], qty)
  /\ full \in BOOLEAN /\ full = (OpenQty(o[x]) = qty)

\* One fill keeps the mirror, whether the depth ignores it or not.
LEMMA FillOnce ==
  ASSUME NEW d, NEW o, NEW u, NEW z, Mirror(d, o, z), NEW x \in Ids, NEW qty, NEW full,
         Filling(o, u, x, qty, full), z = 0 \/ (z = x /\ o[x].price # 0),
         NEW r, r = FillDepth(d, o[x], qty, full)
  PROVE  Mirror(r, u, z)
<1>1. /\ Objects(o) /\ Objects(u) /\ Differs(o, u, x) /\ qty \in Nat /\ qty # 0 /\ qty <= OpenQty(o[x])
      /\ o[x].state = "accepted" /\ u[x] = Fill(o[x], qty)
      /\ full \in BOOLEAN /\ full = (OpenQty(o[x]) = qty)
  BY DEF Filling
<1> QED BY <1>1, MirrorFill

\* Fill: of the matched order, then of the inbound one.
LEMMA FillMirror ==
  ASSUME NEW o, Objects(o), NEW cb \in Callbacks, cb.type = "fill", Proper(o, cb),
         NEW u, u = Effect(o, cb), Objects(u), NEW d, NEW z, Mirror(d, o, z),
         z = 0 \/ (z = cb.order /\ o[z].price # 0),
         NEW r, r = FillDepth(FillDepth(d, o[cb.matched], cb.qty, cb.matchedFilled),
                              o[cb.order], cb.qty, cb.orderFilled)
  PROVE  Mirror(r, u, z)
<1>1. PICK x \in Ids, y \in Ids : x = cb.order /\ y = cb.matched
  BY DEF Callbacks
<1>2. PICK qty : qty = cb.qty
  OBVIOUS
<1>3. /\ x # y /\ qty \in Nat /\ qty # 0 /\ o[x].state = "accepted" /\ o[y].state = "accepted"
      /\ o[x].side # o[y].side /\ qty <= OpenQty(o[x]) /\ qty <= OpenQty(o[y])
      /\ cb.orderFilled = (OpenQty(o[x]) = qty) /\ cb.matchedFilled = (OpenQty(o[y]) = qty)
  BY <1>1, <1>2 DEF Proper
<1>4. cb.orderFilled \in BOOLEAN /\ cb.matchedFilled \in BOOLEAN
  BY DEF Callbacks
<1>5. PICK a : a = Fill(o[y], qty)
  OBVIOUS
<1>6. PICK b : b = Fill(o[x], qty)
  OBVIOUS
<1>7. a \in Object /\ a.filled <= a.qty /\ a.side = o[y].side
  <2>1. o[y] \in Object /\ o[y].filled <= o[y].qty
    BY ObjectIs
  <2> QED BY <2>1, <1>3, <1>5, OrderFillIs
<1>8. b \in Object /\ b.filled <= b.qty /\ b.side = o[x].side
  <2>1. o[x] \in Object /\ o[x].filled <= o[x].qty
    BY ObjectIs
  <2> QED BY <2>1, <1>3, <1>6, OrderFillIs
<1>9. PICK v : v = With(o, y, a)
  OBVIOUS
<1>10. Differs(o, v, y) /\ v[y] = a
  BY <1>7, <1>9, DiffersIs
<1>11. Objects(v) /\ v[x] = o[x]
  BY <1>3, <1>7, <1>9 DEF Objects, With
<1>12. u = With(v, x, b)
  BY <1>1, <1>2, <1>3, <1>5, <1>6, <1>9 DEF Effect, Objects, With
<1>13. Differs(v, u, x) /\ u[x] = b
  BY <1>8, <1>11, <1>12, DiffersIs
<1>14. PICK e : e = FillDepth(d, o[y], qty, cb.matchedFilled)
  OBVIOUS
<1>15. z = 0 \/ (z \in Ids /\ o[z].side # o[y].side)
  BY <1>1, <1>3
<1>16. Mirror(e, v, z)
  BY <1>3, <1>4, <1>5, <1>10, <1>11, <1>14, <1>15, MirrorFill
<1>17. r = FillDepth(e, v[x], qty, cb.orderFilled)
  BY <1>1, <1>2, <1>11, <1>14
<1>18. z = 0 \/ (z = x /\ v[x].price # 0)
  BY <1>1, <1>11
<1>19. /\ qty <= OpenQty(v[x]) /\ v[x].state = "accepted" /\ u[x] = Fill(v[x], qty)
       /\ cb.orderFilled = (OpenQty(v[x]) = qty)
  BY <1>3, <1>6, <1>11, <1>13
<1>20. Filling(v, u, x, qty, cb.orderFilled)
  BY <1>3, <1>4, <1>11, <1>13, <1>19 DEF Filling
<1> QED BY <1>1, <1>16, <1>17, <1>18, <1>20, FillOnce

\* Cancel, of what is open or of the only order of a level.
LEMMA CancelMirror ==
  ASSUME NEW o, Objects(o), NEW cb \in Callbacks, cb.type = "cancel", Proper(o, cb),
         NEW u, u = Effect(o, cb), Objects(u), NEW d, Mirror(d, o, 0),
         NEW m, NEW c, c.depth = d, ~Misinforms(m, c, cb, o[cb.order]),
         NEW r, r = CancelDepth(d, o[cb.order], cb.qty)
  PROVE  Mirror(r, u, 0)
<1>1. PICK x \in Ids : x = cb.order
  BY DEF Callbacks
<1>2. o[x].state = "accepted" /\ (cb.qty = OpenQty(o[x]) \/ o[x].ioc)
  BY <1>1 DEF Proper
<1>3. PICK a : a = [o[x] EXCEPT !.state = "cancelled"]
  OBVIOUS
<1>4. u = With(o, x, a)
  BY <1>1, <1>2, <1>3 DEF Effect, With
<1>5. /\ a.side = o[x].side /\ a.state # "accepted" /\ a.price = o[x].price
  <2>1. o[x] \in Object
    BY ObjectIs
  <2> QED BY <2>1, <1>3 DEF Object
<1>6. Differs(o, u, x) /\ u[x] = a
  BY <1>4, <1>5, DiffersIs
<1>7. PICK s \in Sides, p \in Nat : s = o[x].side /\ p = o[x].price
  BY ObjectIs
<1>8. Shape(d)
  BY MirrorIs
<1>9. ASSUME o[x].ioc PROVE Single(d, s, p)
  <2>1. ASSUME NEW k \in Nat, NEW q, Entry(p, k, q) \in Listing(d.visible[s], d.excess[s]), k > 1
        PROVE  FALSE
    <3>1. p # 0
      <4>1. Entry(p, k, q).price = p
        BY EntryIs
      <4> QED BY <4>1, <2>1, <1>8, PricesShown
    <3>2. /\ \A i \in 1 .. Size : d.visible[s][i].price = p => k = d.visible[s][i].count /\ q = d.visible[s][i].qty
          /\ \A l \in d.excess[s] : l.price = p => k = l.count /\ q = l.qty
          /\ \/ \E i \in 1 .. Size : d.visible[s][i].price = p
             \/ \E l \in d.excess[s] : l.price = p
      BY <3>1, <2>1, <1>8, LevelFound
    <3>3. /\ \A i \in 1 .. Size : d.visible[s][i].price = p => ~(d.visible[s][i].count > 1)
          /\ \A l \in d.excess[s] : l.price = p => ~(l.count > 1)
      BY <1>1, <1>7, <1>9 DEF Misinforms, ExcessAt
    <3> QED BY <2>1, <3>2, <3>3
  <2> QED BY <2>1 DEF Single
<1>10. cb.qty \in Int /\ r = CancelDepth(d, o[x], cb.qty)
  BY <1>1 DEF Callbacks
<1>11. cb.qty = OpenQty(o[x]) \/ Single(d, o[x].side, o[x].price)
  BY <1>2, <1>7, <1>9
<1> QED BY <1>2, <1>5, <1>6, <1>10, <1>11, MirrorCancel

\* Replace, of an order that has its level.
LEMMA ReplaceMirror ==
  ASSUME NEW o, Objects(o), NEW cb \in Callbacks, cb.type = "replace", Proper(o, cb),
         NEW u, u = Effect(o, cb), Objects(u), NEW d, Mirror(d, o, 0),
         NEW m, NEW c, ~Misinforms(m, c, cb, o[cb.order]),
         NEW r, r = DepthReplace(d, o[cb.order].side, o[cb.order].price, cb.price, o[cb.order].qty,
                                 o[cb.order].qty + cb.delta)
  PROVE  Mirror(r, u, 0)
<1>1. PICK x \in Ids : x = cb.order
  BY DEF Callbacks
<1>2. PICK delta \in Int, n \in Nat : delta = cb.delta /\ n = cb.price
  BY DEF Callbacks
<1>3. o[x].state = "accepted" /\ (n = 0 => o[x].price = 0)
  BY <1>1, <1>2 DEF Proper, MarketPrice
<1>4. o[x].price # 0 /\ (o[x].price # n => ~(o[x].filled > 0))
  BY <1>1, <1>2 DEF Misinforms, MarketPrice
<1>5. o[x].filled \in Nat
  BY ObjectIs
<1>6. n # 0 /\ (n # o[x].price => o[x].filled = 0)
  BY <1>3, <1>4, <1>5
<1>7. PICK a : a = Restated(o[x], delta, n)
  OBVIOUS
<1>8. u = With(o, x, a)
  BY <1>1, <1>2, <1>3, <1>7 DEF Effect, With, Revised, Restated
<1>9. a.side = o[x].side
  <2>1. o[x] \in Object
    BY ObjectIs
  <2> QED BY <2>1, <1>7 DEF Object, Restated
<1>10. Differs(o, u, x) /\ u[x] = a
  BY <1>8, <1>9, DiffersIs
<1>11. u[x] = Restated(o[x], delta, n)
  BY <1>7, <1>10
<1>12. r = DepthReplace(d, o[x].side, o[x].price, n, o[x].qty, o[x].qty + delta)
  BY <1>1, <1>2
<1> QED BY <1>1, <1>2, <1>3, <1>4, <1>6, <1>10, <1>11, <1>12, MirrorReplace

\* An accept callback whose order's fills are ignored.
Starts(o, cb) == cb.type = "accept" /\ o[cb.order].price # 0 /\ cb.qty = o[cb.order].qty

\* The order whose fills are ignored after a callback, when it was z before.
HiddenNext(o, cb, z) == IF Starts(o, cb) THEN cb.order ELSE z
Ignores(o, cb, z) == z = 0 \/ (cb.type = "fill" /\ z = cb.order /\ o[z].price # 0)

\* A callback keeps the mirror, unless it misinforms the depth.
LEMMA InformsMirror ==
  ASSUME NEW m, NEW c, NEW r, NEW cb \in Callbacks, Informs(c, r, cb), NEW o, o = c.order, Objects(o),
         Proper(o, cb), NEW u, u = Effect(o, cb), Objects(u), ~Misinforms(m, c, cb, o[cb.order]),
         NEW z, Mirror(c.depth, o, z),
         Ignores(o, cb, z)
  PROVE  Mirror(r.depth, u, HiddenNext(o, cb, z))
<1>1. PICK d, e : d = c.depth /\ e = r.depth
  OBVIOUS
<1>2. Mirror(d, o, z)
  BY <1>1
<1>3. CASE cb.type = "accept"
  <2>1. e = AcceptDepth(d, o[cb.order], cb)
    BY <1>1, <1>3 DEF Informs
  <2>2. Mirror(d, o, 0) /\ z = 0
    BY <1>2, <1>3 DEF Ignores
  <2>3. Mirror(e, u, IF o[cb.order].price # 0 /\ cb.qty = o[cb.order].qty THEN cb.order ELSE 0)
    BY <2>1, <2>2, <1>3, AcceptMirror
  <2> QED BY <2>2, <2>3, <1>1, <1>3 DEF Starts, HiddenNext
<1>4. ASSUME cb.type # "accept", Mirror(e, u, z)
      PROVE  Mirror(r.depth, u, HiddenNext(o, cb, z))
  BY <1>1, <1>4 DEF Starts, HiddenNext
<1>5. CASE cb.type = "fill"
  <2>1. e = FillDepth(FillDepth(d, o[cb.matched], cb.qty, cb.matchedFilled),
                      o[cb.order], cb.qty, cb.orderFilled)
    BY <1>1, <1>5 DEF Informs
  <2>2. z = 0 \/ (z = cb.order /\ o[z].price # 0)
    BY DEF Ignores
  <2>3. Mirror(e, u, z)
    BY <2>1, <2>2, <1>2, <1>5, FillMirror
  <2> QED BY <2>3, <1>4, <1>5
<1>6. CASE cb.type = "cancel"
  <2>1. e = CancelDepth(d, o[cb.order], cb.qty)
    BY <1>1, <1>6 DEF Informs
  <2>2. Mirror(d, o, 0) /\ z = 0
    BY <1>2, <1>6 DEF Ignores
  <2>3. Mirror(e, u, 0)
    BY <2>1, <2>2, <1>1, <1>6, CancelMirror
  <2> QED BY <2>2, <2>3, <1>4, <1>6
<1>7. CASE cb.type = "replace"
  <2>1. e = DepthReplace(d, o[cb.order].side, o[cb.order].price, cb.price, o[cb.order].qty,
                         o[cb.order].qty + cb.delta)
    BY <1>1, <1>7 DEF Informs
  <2>2. Mirror(d, o, 0) /\ z = 0
    BY <1>2, <1>7 DEF Ignores
  <2>3. Mirror(e, u, 0)
    BY <2>1, <2>2, <1>7, ReplaceMirror
  <2> QED BY <2>2, <2>3, <1>4, <1>7
<1>8. CASE cb.type = "update"
  <2>1. e = UpdateDepth(d) /\ u = o
    BY <1>1, <1>8 DEF Informs, Effect
  <2>2. Mirror(d, o, 0) /\ z = 0
    BY <1>2, <1>8 DEF Ignores
  <2>3. Mirror(e, o, 0)
    BY <2>1, <2>2, MirrorUpdate
  <2> QED BY <2>1, <2>2, <2>3, <1>4, <1>8
<1>9. CASE cb.type \in Refusals
  <2>1. e = d /\ u = o /\ cb.type # "accept"
    BY <1>1, <1>9 DEF Informs, Effect, Refusals
  <2> QED BY <2>1, <1>2, <1>4
<1>10. cb.type \in {"accept", "fill", "cancel", "replace", "update"} \union Refusals
  BY DEF Callbacks, Types, Refusals
<1> QED BY <1>3, <1>5, <1>6, <1>7, <1>8, <1>9, <1>10

-----------------------------------------------------------------------------
(* The run of the callbacks.                                               *)

\* What misinforms the depth is not forgotten.
LEMMA TrueAlong ==
  ASSUME NEW m, NEW q, NEW f, NEW g, NEW o, Passes(m, q, f, g, o), undisturbed \in BOOLEAN,
         f[Len(q)].undisturbed
  PROVE  \A i \in 0 .. Len(q) : f[i].undisturbed
<1>1. PICK n \in Nat : n = Len(q)
  BY DEF Passes
<1> DEFINE At(i) == Underway(f[i]) /\ (f[i].undisturbed => \A j \in 0 .. i : f[j].undisturbed)
           Good == {i \in 0 .. n : At(i)}
<1>2. At(0)
  BY DEF Passes, Start, Underway
<1>3. ASSUME NEW i \in 1 .. n, At(i - 1) PROVE At(i)
  <2>1. q[i] \in Callbacks /\ f[i] = Handle(m, f[i - 1], q[i])
    BY <1>1, PathIs
  <2>2. PICK c, r, cb : c = f[i - 1] /\ r = f[i] /\ cb = q[i]
    OBVIOUS
  <2>3. Underway(c) /\ r = Handle(m, c, cb) /\ cb \in Callbacks
    BY <2>1, <2>2, <1>3
  <2>4. Underway(r) /\ (c.depth.lost => r = c)
    BY <2>3, HandleIs
  <2>5. r.undisturbed => c.undisturbed
    <3>1. CASE c.depth.lost
      BY <3>1, <2>4
    <3>2. CASE ~c.depth.lost
      BY <3>2, <2>3, InformsIs DEF Noticed
    <3> QED BY <3>1, <3>2
  <2>6. ASSUME r.undisturbed, NEW j \in 0 .. i PROVE f[j].undisturbed
    <3>1. CASE j = i
      BY <3>1, <2>2, <2>6
    <3>2. CASE j # i
      <4>1. j \in 0 .. (i - 1)
        BY <3>2
      <4> QED BY <4>1, <2>2, <2>5, <2>6, <1>3
    <3> QED BY <3>1, <3>2
  <2> QED BY <2>2, <2>4, <2>6
<1>4. At(n)
  <2> HIDE DEF At
  <2>1. 0 \in Good /\ \A j \in 1 .. n : j - 1 \in Good => j \in Good
    BY <1>2, <1>3
  <2>2. \A j \in 0 .. n : j \in Good
    <3> HIDE DEF Good
    <3> QED BY <2>1, Induct
  <2> QED BY <2>2
<1> QED BY <1>1, <1>4

\* There is one way for the callbacks to go.
LEMMA OneWay ==
  ASSUME NEW a, NEW q, NEW p, NEW g, Leads(a, q, p, g), q \in Seq(Callbacks),
         NEW e, e \in Seq(Callbacks), Begins(e, q), NEW v, NEW h, Leads(a, e, v, h)
  PROVE  Len(e) \in 0 .. Len(q) /\ g[Len(e)] = v
<1>1. PICK n \in Nat, k \in Nat : n = Len(q) /\ k = Len(e)
  OBVIOUS
<1>2. DOMAIN q = 1 .. n /\ DOMAIN e = 1 .. k
  BY <1>1
<1>3. \A j \in 1 .. k : j \in 1 .. n /\ e[j] = q[j]
  BY <1>2 DEF Begins
<1>4. k <= n
  <2>1. CASE k = 0
    BY <2>1
  <2>2. CASE k # 0
    <3>1. k \in 1 .. n
      BY <2>2, <1>3
    <3> QED BY <3>1
  <2> QED BY <2>1, <2>2
<1> DEFINE Good == {i \in 0 .. k : g[i] = h[i]}
<1>5. 0 \in Good
  BY DEF Leads
<1>6. ASSUME NEW i \in 1 .. k, i - 1 \in Good PROVE i \in Good
  <2>1. g[i - 1] = h[i - 1]
    BY <1>6
  <2>2. g[i] = Effect(g[i - 1], q[i]) /\ h[i] = Effect(h[i - 1], e[i])
    BY <1>1, <1>3 DEF Leads
  <2> QED BY <2>1, <2>2, <1>3
<1>7. \A i \in 0 .. k : i \in Good
  <2> HIDE DEF Good
  <2> QED BY <1>5, <1>6, Induct
<1>8. g[k] = h[k] /\ h[k] = v
  BY <1>1, <1>7 DEF Leads
<1> QED BY <1>1, <1>4, <1>8

\* The callbacks up to the fill that completes the order whose fills are ignored; none when
\* there is no such order.
Span(g, q, k) ==
  /\ k \in 0 .. Len(q) /\ (k = 0 <=> ~Starts(g[0], q[1]))
  /\ k # 0 => /\ g[k][q[1].order].state = "complete"
              /\ \A j \in 2 .. k : q[j].type = "fill" /\ q[j].order = q[1].order

\* The fills of an order that starts full and is completed are such callbacks.
LEMMA SpanIs ==
  ASSUME NEW a, NEW q, NEW p, NEW g, Leads(a, q, p, g), q \in Seq(Callbacks), Covers(a, q)
  PROVE  \E k : Span(g, q, k)
<1>1. g[0] = a
  BY DEF Leads
<1>2. CASE ~Starts(a, q[1])
  <2>1. Span(g, q, 0)
    BY <1>1, <1>2 DEF Span
  <2> QED BY <2>1
<1>3. CASE Starts(a, q[1])
  <2>1. PICK x : x = q[1].order
    OBVIOUS
  <2>2. Hidden(a, q, x)
    BY <1>3, <2>1 DEF Starts, Covers
  <2>3. PICK e, v : /\ e # <<>> /\ Begins(e, q) /\ Reached(a, e, v) /\ v[x].state = "complete"
                    /\ \A i \in DOMAIN e : i # 1 => e[i].type = "fill" /\ e[i].order = x
    BY <2>2 DEF Hidden
  <2>4. e \in Seq(Callbacks)
    BY <2>3 DEF Reached
  <2>5. PICK h : Leads(a, e, v, h)
    BY <2>3 DEF Reached
  <2>6. PICK k : k = Len(e)
    OBVIOUS
  <2>7. k \in 0 .. Len(q) /\ g[k] = v
    BY <2>3, <2>4, <2>5, <2>6, OneWay
  <2>8. k # 0 /\ DOMAIN e = 1 .. k
    BY <2>3, <2>4, <2>6
  <2>9. \A j \in 2 .. k : q[j].type = "fill" /\ q[j].order = x
    <3> TAKE j \in 2 .. k
    <3>1. j \in DOMAIN e /\ j # 1
      BY <2>7, <2>8
    <3>2. e[j].type = "fill" /\ e[j].order = x /\ q[j] = e[j]
      BY <3>1, <2>3 DEF Begins
    <3> QED BY <3>2
  <2>10. Span(g, q, k)
    BY <1>1, <1>3, <2>1, <2>3, <2>7, <2>8, <2>9 DEF Span
  <2> QED BY <2>10
<1> QED BY <1>2, <1>3

\* The fill that completes an order.
LEMMA FillCompletes ==
  ASSUME NEW o, Objects(o), NEW cb \in Callbacks, cb.type = "fill", Proper(o, cb), NEW u,
         u = Effect(o, cb)
  PROVE  /\ u[cb.order].price = o[cb.order].price
         /\ u[cb.order].state = "complete" => OpenQty(u[cb.order]) = 0
<1>1. PICK x \in Ids, y \in Ids : x = cb.order /\ y = cb.matched
  BY DEF Callbacks
<1>2. PICK qty : qty = cb.qty
  OBVIOUS
<1>3. x # y /\ qty \in Nat /\ qty # 0 /\ o[x].state = "accepted" /\ qty <= OpenQty(o[x])
  BY <1>1, <1>2 DEF Proper
<1>4. u[x] = Fill(o[x], qty)
  BY <1>1, <1>2, <1>3 DEF Effect, Objects
<1>5. o[x] \in Object /\ o[x].filled <= o[x].qty
  BY ObjectIs
<1>6. OpenQty(o[x]) \in Nat
  BY ObjectIs
<1>7. /\ u[x].price = o[x].price /\ OpenQty(u[x]) = OpenQty(o[x]) - qty
      /\ u[x].state = IF OpenQty(o[x]) - qty = 0 THEN "complete" ELSE "accepted"
  BY <1>3, <1>4, <1>5, OrderFillIs
<1> QED BY <1>1, <1>6, <1>7

\* What is open of an order is ignored until it is complete.
LEMMA MirrorWhole ==
  ASSUME NEW d, NEW u, Objects(u), NEW x \in Ids, Mirror(d, u, x), u[x].state = "complete",
         OpenQty(u[x]) = 0
  PROVE  Mirror(d, u, 0)
<1>1. Shape(d) /\ ~d.lost
  BY MirrorIs
<1>2. ASSUME NEW s \in Sides
      PROVE  AgreesOn(d, u, 0, s) /\ Blanked(d.visible[s]) /\ d.ignored[s] = IgnoredBy(u, 0, s)
  <2>1. AgreesOn(d, u, x, s) /\ Blanked(d.visible[s]) /\ d.ignored[s] = IgnoredBy(u, x, s)
    BY MirrorIs
  <2>2. AgreesOn(d, u, 0, s)
    <3>1. u[x].state # "accepted"
      OBVIOUS
    <3> QED BY <3>1, <2>1, <1>1, HideIdle
  <2>3. IgnoredBy(u, x, s) = 0 /\ IgnoredBy(u, 0, s) = 0
    BY OrdersAssumption DEF IgnoredBy
  <2> QED BY <2>1, <2>2, <2>3
<1> QED BY <1>1, <1>2, MirrorIs

\* One callback on the way.
LEMMA MirrorStep ==
  ASSUME NEW m, NEW q, NEW f, NEW g, NEW o, Passes(m, q, f, g, o), NEW i \in 1 .. Len(q),
         On(f[i - 1], g, i - 1), f[i].undisturbed, NEW z, Mirror(f[i - 1].depth, g[i - 1], z),
         Ignores(g[i - 1], q[i], z)
  PROVE  /\ On(f[i], g, i)
         /\ Mirror(f[i].depth, g[i], HiddenNext(g[i - 1], q[i], z))
<1>1. /\ Objects(g[i - 1]) /\ Objects(g[i]) /\ q[i] \in Callbacks
      /\ g[i] = Effect(g[i - 1], q[i]) /\ Proper(g[i - 1], q[i])
      /\ f[i] = Handle(m, f[i - 1], q[i])
  BY PathIs
<1>2. PICK c, r, cb, a, u : c = f[i - 1] /\ r = f[i] /\ cb = q[i] /\ a = g[i - 1] /\ u = g[i]
  OBVIOUS
<1>3. Underway(c) /\ (~c.depth.lost => c.order = a) /\ Mirror(c.depth, a, z)
  BY <1>2 DEF On
<1>4. ~c.depth.lost
  BY <1>3, MirrorIs
<1>5. cb \in Callbacks /\ r = Handle(m, c, cb) /\ a = c.order
  BY <1>1, <1>2, <1>3, <1>4
<1>6. Informs(c, r, cb) /\ Noticed(m, c, r, cb)
  BY <1>3, <1>4, <1>5, InformsIs
<1>7. ~Misinforms(m, c, cb, a[cb.order])
  BY <1>2, <1>5, <1>6 DEF Noticed
<1>8. Objects(a) /\ Objects(u) /\ u = Effect(a, cb) /\ Proper(a, cb)
  BY <1>1, <1>2
<1>9. Ignores(a, cb, z)
  BY <1>2
<1>10. Mirror(r.depth, u, HiddenNext(a, cb, z))
  BY <1>3, <1>5, <1>6, <1>7, <1>8, <1>9, InformsMirror
<1>11. Underway(r) /\ r.order = Effect(c.order, cb)
  BY <1>3, <1>4, <1>5, HandleIs
<1>12. On(r, g, i)
  BY <1>2, <1>5, <1>8, <1>11 DEF On
<1> QED BY <1>2, <1>10, <1>12

\* The order whose fills are ignored after the i-th callback.
HiddenAt(q, k, i) == IF 1 <= i /\ i < k THEN q[1].order ELSE 0
Along(f, g, q, k, i) ==
  /\ On(f[i], g, i) /\ Mirror(f[i].depth, g[i], HiddenAt(q, k, i))
  /\ 1 <= i /\ i < k => g[i][q[1].order].price # 0

\* The first callback.
LEMMA MirrorFirst ==
  ASSUME NEW m, NEW q, NEW f, NEW g, NEW o, Passes(m, q, f, g, o), Len(q) > 0, f[1].undisturbed,
         NEW k, Span(g, q, k), Along(f, g, q, k, 0)
  PROVE  Along(f, g, q, k, 1)
<1>1. 1 \in 1 .. Len(q) /\ 1 - 1 = 0 /\ k \in Nat
  BY DEF Passes, Span
<1>2. HiddenAt(q, k, 0) = 0
  BY DEF HiddenAt
<1>3. On(f[0], g, 0) /\ Mirror(f[0].depth, g[0], 0)
  BY <1>2 DEF Along
<1>4. On(f[1], g, 1) /\ Mirror(f[1].depth, g[1], HiddenNext(g[0], q[1], 0))
  <2>1. Ignores(g[0], q[1], 0)
    BY DEF Ignores
  <2> QED BY <2>1, <1>1, <1>3, MirrorStep
<1>5. CASE ~Starts(g[0], q[1])
  <2>1. HiddenAt(q, k, 1) = 0 /\ ~(1 < k)
    BY <1>1, <1>5 DEF HiddenAt, Span
  <2> QED BY <2>1, <1>4, <1>5 DEF Along, HiddenNext
<1>6. CASE Starts(g[0], q[1])
  <2>1. k # 0 /\ q[1].type = "accept" /\ g[0][q[1].order].price # 0
    BY <1>6 DEF Span, Starts
  <2>2. /\ Objects(g[0]) /\ q[1] \in Callbacks /\ g[1] = Effect(g[0], q[1]) /\ Proper(g[0], q[1])
    BY <1>1, PathIs
  <2>3. PICK x \in Ids : x = q[1].order
    BY <2>2 DEF Callbacks
  <2>4. PICK a, b : a = g[0] /\ b = g[1]
    OBVIOUS
  <2>5. a[x].state = "new" /\ a \in [Ids -> Object]
    BY <2>1, <2>2, <2>3, <2>4 DEF Proper, Objects
  <2>6. b = [a EXCEPT ![x].state = "accepted"]
    BY <2>1, <2>2, <2>3, <2>4, <2>5 DEF Effect
  <2>7. b[x].state = "accepted" /\ b[x].price = a[x].price
    <3>1. a[x] \in Object
      BY <2>5
    <3> QED BY <3>1, <2>5, <2>6 DEF Object
  <2>8. k # 1
    <3>1. k = 1 => b[x].state = "complete"
      BY <2>1, <2>3, <2>4 DEF Span
    <3> QED BY <3>1, <2>7
  <2>9. HiddenAt(q, k, 1) = q[1].order
    BY <1>1, <2>1, <2>8 DEF HiddenAt
  <2>10. g[1][q[1].order].price # 0
    BY <2>1, <2>3, <2>4, <2>7
  <2> QED BY <2>9, <2>10, <1>4, <1>6 DEF Along, HiddenNext
<1> QED BY <1>5, <1>6

\* A later one.
LEMMA MirrorNext ==
  ASSUME NEW m, NEW q, NEW f, NEW g, NEW o, Passes(m, q, f, g, o), NEW i \in 1 .. Len(q), i # 1,
         q[i].type # "accept", f[i].undisturbed, NEW k, Span(g, q, k), Along(f, g, q, k, i - 1)
  PROVE  Along(f, g, q, k, i)
<1>1. k \in Nat /\ i \in Nat /\ 1 <= i - 1 /\ Len(q) \in Nat
  BY DEF Passes, Span
<1>2. On(f[i - 1], g, i - 1) /\ Mirror(f[i - 1].depth, g[i - 1], HiddenAt(q, k, i - 1))
  BY DEF Along
<1>3. ~Starts(g[i - 1], q[i])
  BY DEF Starts
<1>4. CASE ~(i - 1 < k)
  <2>1. HiddenAt(q, k, i - 1) = 0 /\ HiddenAt(q, k, i) = 0 /\ ~(i < k)
    BY <1>1, <1>4 DEF HiddenAt
  <2>2. On(f[i], g, i) /\ Mirror(f[i].depth, g[i], HiddenNext(g[i - 1], q[i], 0))
    <3>1. Ignores(g[i - 1], q[i], 0) /\ Mirror(f[i - 1].depth, g[i - 1], 0)
      BY <2>1, <1>2 DEF Ignores
    <3> QED BY <3>1, <1>2, MirrorStep
  <2> QED BY <2>1, <2>2, <1>3 DEF Along, HiddenNext
<1>5. CASE i - 1 < k
  <2>1. PICK x : x = q[1].order
    OBVIOUS
  <2>2. HiddenAt(q, k, i - 1) = x /\ g[i - 1][x].price # 0
    BY <2>1, <1>1, <1>5 DEF HiddenAt, Along
  <2>3. q[i].type = "fill" /\ q[i].order = x
    <3>1. i \in 2 .. k /\ k # 0
      BY <1>1, <1>5
    <3> QED BY <3>1, <2>1 DEF Span
  <2>4. On(f[i], g, i) /\ Mirror(f[i].depth, g[i], HiddenNext(g[i - 1], q[i], x))
    <3>1. Mirror(f[i - 1].depth, g[i - 1], x)
      BY <2>2, <1>2
    <3>2. Ignores(g[i - 1], q[i], x)
      BY <2>2, <2>3 DEF Ignores
    <3> QED BY <3>1, <3>2, <1>2, MirrorStep
  <2>5. Mirror(f[i].depth, g[i], x)
    BY <2>4, <1>3 DEF HiddenNext
  <2>6. /\ Objects(g[i - 1]) /\ Objects(g[i]) /\ q[i] \in Callbacks
        /\ g[i] = Effect(g[i - 1], q[i]) /\ Proper(g[i - 1], q[i])
    BY PathIs
  <2>7. g[i][x].price = g[i - 1][x].price /\ (g[i][x].state = "complete" => OpenQty(g[i][x]) = 0)
    <3>1. PICK a, b, cb : a = g[i - 1] /\ b = g[i] /\ cb = q[i]
      OBVIOUS
    <3>2. Objects(a) /\ cb \in Callbacks /\ cb.type = "fill" /\ Proper(a, cb) /\ b = Effect(a, cb)
      BY <3>1, <2>3, <2>6
    <3>3. /\ b[cb.order].price = a[cb.order].price
          /\ b[cb.order].state = "complete" => OpenQty(b[cb.order]) = 0
      BY <3>2, FillCompletes
    <3> QED BY <3>1, <3>3, <2>3
  <2>8. CASE i < k
    <3>1. HiddenAt(q, k, i) = x
      BY <2>1, <2>8, <1>1 DEF HiddenAt
    <3>2. g[i][q[1].order].price # 0
      BY <2>1, <2>2, <2>7
    <3> QED BY <3>1, <3>2, <2>4, <2>5 DEF Along
  <2>9. CASE i = k
    <3>1. HiddenAt(q, k, i) = 0 /\ ~(i < k)
      BY <2>9, <1>1 DEF HiddenAt
    <3>2. g[i][x].state = "complete"
      BY <2>1, <2>9, <1>1 DEF Span
    <3>3. x \in Ids
      BY <2>3, <2>6 DEF Callbacks
    <3>4. OpenQty(g[i][x]) = 0
      BY <3>2, <2>7
    <3>5. Mirror(f[i].depth, g[i], 0)
      BY <3>2, <3>3, <3>4, <2>5, <2>6, MirrorWhole
    <3> QED BY <3>1, <3>5, <2>4 DEF Along
  <2> QED BY <2>8, <2>9, <1>1, <1>5
<1> QED BY <1>4, <1>5

\* The whole run.
LEMMA MirrorRun ==
  ASSUME NEW m, NEW q, NEW f, NEW g, NEW o, Passes(m, q, f, g, o), Covers(m.order, q), Closes(q),
         undisturbed \in BOOLEAN, f[Len(q)].undisturbed, Mirror(depth, m.order, 0)
  PROVE  Mirror(f[Len(q)].depth, o, 0)
<1>1. q \in Seq(Callbacks) /\ Leads(m.order, q, o, g)
  BY DEF Passes
<1>2. PICK n \in Nat : n = Len(q) /\ n > 0
  BY <1>1 DEF Closes
<1>3. PICK k : Span(g, q, k)
  BY <1>1, SpanIs
<1>4. \A i \in 0 .. n : f[i].undisturbed
  <2>1. \A i \in 0 .. Len(q) : f[i].undisturbed
    BY TrueAlong
  <2> QED BY <2>1, <1>2
<1>5. \A i \in 1 .. n : i # 1 => q[i].type # "accept"
  <2> TAKE i \in 1 .. n
  <2> HAVE i # 1
  <2>1. n > 1
    BY <1>2
  <2>2. q[n].type = "update" /\ \A j \in 2 .. (n - 1) : q[j].type \in {"fill", "cancel"}
    BY <2>1, <1>2 DEF Closes
  <2>3. i = n \/ i \in 2 .. (n - 1)
    OBVIOUS
  <2> QED BY <2>2, <2>3
<1> DEFINE Good == {i \in 0 .. n : Along(f, g, q, k, i)}
<1>6. 0 \in Good
  <2>1. f[0] = Start(m) /\ g[0] = m.order
    BY <1>1 DEF Passes, Leads
  <2>2. f[0].depth = depth /\ f[0].order = m.order /\ Underway(f[0])
    BY <2>1 DEF Start, Underway
  <2>3. HiddenAt(q, k, 0) = 0
    BY DEF HiddenAt
  <2>4. Along(f, g, q, k, 0)
    BY <2>1, <2>2, <2>3 DEF Along, On
  <2> QED BY <2>4, <1>2
<1>7. ASSUME NEW i \in 1 .. n, i - 1 \in Good PROVE i \in Good
  <2>1. Along(f, g, q, k, i - 1) /\ f[i].undisturbed /\ i \in 1 .. Len(q)
    BY <1>2, <1>4, <1>7
  <2>2. CASE i = 1
    <3>1. Along(f, g, q, k, 0) /\ f[1].undisturbed /\ Len(q) > 0
      BY <2>1, <2>2, <1>2
    <3>2. Along(f, g, q, k, 1)
      BY <3>1, <1>3, MirrorFirst
    <3> QED BY <3>2, <2>2
  <2>3. CASE i # 1
    <3>1. q[i].type # "accept"
      BY <2>3, <1>5
    <3>2. Along(f, g, q, k, i)
      BY <3>1, <2>1, <2>3, <1>3, MirrorNext
    <3> QED BY <3>2
  <2> QED BY <2>2, <2>3
<1>8. Along(f, g, q, k, n)
  <2>1. \A i \in 0 .. n : i \in Good
    <3> HIDE DEF Good
    <3> QED BY <1>6, <1>7, Induct
  <2> QED BY <2>1
<1>9. HiddenAt(q, k, n) = 0
  BY <1>2, <1>3 DEF HiddenAt, Span
<1>10. g[n] = o
  BY <1>1, <1>2 DEF Leads
<1> QED BY <1>2, <1>8, <1>9, <1>10 DEF Along

\* The callbacks run: either all of them, and the objects agree with the trackers, or up to the
\* one that lost the depth, and the quantities and sides are right all the same.
LEMMA FinishIs ==
  ASSUME NEW a, NEW m, NEW o, EndsFrom(a, m, o), Finish(m), IInv, ~depth.lost,
         undisturbed => Mirror(depth, a, 0)
  PROVE  IInv' /\ Notified(depth, depth', told')
<1>16. Ends(m, o) /\ m.order = a
  BY DEF EndsFrom
<1>1. PICK c : c = Perform(m)
  OBVIOUS
<1>2. /\ book' = m.book /\ stops' = m.stops /\ market' = m.market /\ order' = c.order
      /\ depth' = c.depth /\ told' = c.told /\ undisturbed' = c.undisturbed
  BY <1>1 DEF Finish
<1>9. undisturbed \in BOOLEAN /\ Shape(depth)
  BY DEF IInv, TypeOK
<1>3. Underway(c) /\ Towards(c.order, o) /\ (~c.depth.lost => c.order = o)
  BY <1>1, <1>9, PerformIs, <1>16 DEF Ends
<1>4. Objects(order') /\ \A id \in Ids : order'[id].qty = o[id].qty /\ order'[id].side = o[id].side
  BY <1>2, <1>3 DEF Towards
<1>5. m \in Call /\ \A s \in Sides : Listed(m.book[s]) /\ Listed(m.stops[s])
  BY <1>16 DEF Ends
<1>6. Typed'
  BY <1>2, <1>4, <1>5 DEF Typed, Objects, Call
<1>7. TypeOK'
  <2>1. \A id \in Ids : /\ order'[id].state \in States
                        /\ order'[id].filled \in Nat /\ order'[id].filled <= order'[id].qty
    BY <1>4 DEF Objects, Object
  <2>2. Objects(o)
    BY <1>16 DEF Ends, Reached
  <2>3. ASSUME NEW s \in Sides, NEW ts, Listed(ts), NEW t \in Range(ts),
               \A id \in IdsOn(ts) : Rests(o, s, TrackerOf(ts, id)) \/ Waits(o, s, TrackerOf(ts, id))
        PROVE  t.id \in Ids /\ order'[t.id].side = s /\ t.open \in 1 .. order'[t.id].qty
    <3>1. PICK i \in DOMAIN ts : t = ts[i]
      BY <2>3 DEF Range
    <3>2. t.id \in IdsOn(ts) /\ TrackerOf(ts, t.id) = t /\ t \in Tracker
      BY <3>1, <2>3, TrackerAt, ListedFacts
    <3>3. Rests(o, s, t) \/ Waits(o, s, t)
      BY <3>2, <2>3
    <3>4. t.id \in Ids /\ t.open \in Nat
      BY <3>2 DEF Tracker
    <3>5. o[t.id] \in Object /\ o[t.id].filled <= o[t.id].qty
      BY <3>4, <2>2 DEF Objects
    <3>6. o[t.id].side = s /\ t.open > 0 /\ t.open \in {OpenQty(o[t.id]), o[t.id].qty}
      BY <3>3 DEF Rests, Waits
    <3>7. t.open <= o[t.id].qty /\ o[t.id].qty \in Nat
      BY <3>5, <3>6 DEF OpenQty, Object
    <3>8. t.open \in 1 .. o[t.id].qty
      BY <3>4, <3>6, <3>7
    <3> QED BY <3>4, <3>6, <3>8, <1>4
  <2>4. \A s \in Sides : \A t \in Range(m.book[s]) \union Range(m.stops[s]) :
          t.id \in Ids /\ order'[t.id].side = s /\ t.open \in 1 .. order'[t.id].qty
    <3>1. InPlace(o, m.book, m.stops)
      BY <1>16 DEF Ends
    <3>2. ASSUME NEW s \in Sides
          PROVE  /\ \A id \in IdsOn(m.book[s]) : Rests(o, s, TrackerOf(m.book[s], id))
                 /\ \A id \in IdsOn(m.stops[s]) : Waits(o, s, TrackerOf(m.stops[s], id))
      BY <3>1 DEF InPlace
    <3> QED BY <3>2, <2>3, <1>5
  <2>5. m.market \in Nat /\ c.told \subseteq {"depth", "bbo"} /\ c.undisturbed \in BOOLEAN
    BY <1>3, <1>5 DEF Call, Underway
  <2> QED BY <2>1, <2>4, <2>5, <1>2 DEF TypeOK
<1>10. PICK q, f, g : Passes(m, q, f, g, o) /\ Closes(q)
  BY <1>9, <1>16, PassesIs
<1>11. c = f[Len(q)] /\ q = m.queue /\ Len(q) > 0
  BY <1>1, <1>10 DEF Passes, Closes
<1>12. ~c.depth.lost => Shape(c.depth) /\ Notified(depth, c.depth, c.told)
  BY <1>9, <1>10, <1>11, ClosedIs
<1>13. c.undisturbed => undisturbed /\ ~Astray(m)
  <2>1. m.parked => q[1].type = "accept"
    BY <1>11, <1>16 DEF Ends
  <2> QED BY <2>1, <1>9, <1>10, <1>11, UndisturbedIs
<1>14. c.undisturbed => Marketed(o, m.book)
  BY <1>13, <1>16 DEF Ends
<1>17. c.undisturbed => Mirror(c.depth, o, 0)
  <2>1. SUFFICES ASSUME c.undisturbed PROVE Mirror(c.depth, o, 0)
    OBVIOUS
  <2>2. undisturbed /\ Mirror(depth, m.order, 0)
    BY <2>1, <1>13, <1>16
  <2>3. Covers(m.order, q) /\ f[Len(q)].undisturbed
    BY <2>1, <1>11, <1>16 DEF Ends
  <2>4. Mirror(f[Len(q)].depth, o, 0)
    BY <2>2, <2>3, <1>9, <1>10, MirrorRun
  <2> QED BY <2>4, <1>11
<1>18. undisturbed' => Mirror(depth', order', 0)
  <2>1. SUFFICES ASSUME c.undisturbed PROVE Mirror(c.depth, order', 0)
    BY <1>2
  <2>2. Mirror(c.depth, o, 0)
    BY <2>1, <1>17
  <2>3. ~c.depth.lost
    BY <2>2, MirrorIs
  <2> QED BY <2>2, <2>3, <1>2, <1>3
<1>15. Notified(depth, depth', told')
  <2>1. c.depth.lost => Notified(depth, c.depth, c.told)
    BY DEF Notified
  <2> QED BY <2>1, <1>2, <1>12
<1>8. ~depth'.lost => /\ InPlace(order, book, stops)'
                      /\ Kept(order, book, stops)' /\ Whole(order)'
                      /\ Shape(depth)' /\ (undisturbed => Marketed(order, book))'
  <2>1. SUFFICES ASSUME ~depth'.lost
                 PROVE  /\ InPlace(order', book', stops') /\ Kept(order', book', stops')
                        /\ Whole(order') /\ Shape(depth')
                        /\ undisturbed' => Marketed(order', book')
    BY DEF InPlace, Kept, Whole, Shape, Marketed
  <2>2. order' = o
    BY <2>1, <1>2, <1>3
  <2> QED BY <2>1, <2>2, <1>2, <1>12, <1>14, <1>16 DEF Ends
<1>19. (undisturbed => Mirror(depth, order, 0))'
  BY <1>18 DEF Mirror, Shape, Agrees, Live, SumOf, Total
<1> QED BY <1>6, <1>7, <1>8, <1>15, <1>19 DEF IInv

-----------------------------------------------------------------------------
(* The inductive invariant, and what it gives.                             *)

\* The empty depth.
LEMMA EmptyIs ==
  ASSUME NEW o, \A id \in Ids : o[id].state # "accepted"
  PROVE  Mirror(EmptyDepth, o, 0)
<1>1. Blank \in LevelType /\ Blank.price = 0 /\ Blank.count = 0 /\ Blank.qty = 0
  <2>1. PICK l : l = [price |-> 0, count |-> 0, qty |-> 0, fresh |-> TRUE]
    OBVIOUS
  <2>2. Blank = [l EXCEPT !.fresh = FALSE]
    BY <2>1 DEF Blank, Level, InvalidPrice
  <2>3. Blank = [price |-> 0, count |-> 0, qty |-> 0, fresh |-> FALSE]
    BY <2>1, <2>2
  <2> QED BY <2>3 DEF LevelType
<1>2. PICK v : v = [i \in 1 .. Size |-> Blank]
  OBVIOUS
<1>3. v \in Visibles /\ \A i \in 1 .. Size : v[i].price = 0 /\ v[i].count = 0 /\ v[i].qty = 0
  BY <1>1, <1>2 DEF Visibles
<1>4. PICK d : d = EmptyDepth
  OBVIOUS
<1>5. /\ d \in Depths /\ \A s \in Sides : d.visible[s] = v /\ d.excess[s] = {} /\ d.ignored[s] = 0
      /\ ~d.lost
  BY <1>2, <1>3, <1>4 DEF EmptyDepth, Depths
<1>6. \A s \in Sides : SideOK(s, v, {})
  BY <1>3, FS_EmptySet DEF SideOK, Ordered
<1>7. Shape(d)
  BY <1>5, <1>6 DEF Shape
<1>8. Listing(v, {}) = {} /\ Blanked(v)
  BY <1>3 DEF Listing, Blanked
<1>9. ASSUME NEW s \in Sides PROVE Agrees({}, o, 0, s)
  <2>1. \A p : Live(o, 0, s, p) = {}
    BY DEF Live
  <2> QED BY <2>1 DEF Agrees
<1>10. \A s \in Sides : IgnoredBy(o, 0, s) = 0
  BY OrdersAssumption DEF IgnoredBy
<1>11. \A s \in Sides : AgreesOn(d, o, 0, s) /\ Blanked(d.visible[s]) /\ d.ignored[s] = IgnoredBy(o, 0, s)
  BY <1>5, <1>8, <1>9, <1>10 DEF AgreesOn
<1>12. Mirror(d, o, 0)
  BY <1>5, <1>7, <1>11, MirrorIs
<1> QED BY <1>4, <1>12

\* An order is made.
LEMMA BornMirror ==
  ASSUME NEW d, NEW o, NEW x \in Ids, o[x].state # "accepted", NEW u, u[x].state # "accepted",
         \A i \in Ids : i # x => u[i] = o[i], Mirror(d, o, 0)
  PROVE  Mirror(d, u, 0)
<1>1. Shape(d) /\ ~d.lost
  BY MirrorIs
<1>2. ASSUME NEW s \in Sides
      PROVE  AgreesOn(d, u, 0, s) /\ Blanked(d.visible[s]) /\ d.ignored[s] = IgnoredBy(u, 0, s)
  <2>1. AgreesOn(d, o, 0, s) /\ Blanked(d.visible[s]) /\ d.ignored[s] = IgnoredBy(o, 0, s)
    BY MirrorIs
  <2>2. IgnoredBy(o, 0, s) = 0 /\ IgnoredBy(u, 0, s) = 0
    BY OrdersAssumption DEF IgnoredBy
  <2>3. PICK L : L = Listing(d.visible[s], d.excess[s])
    OBVIOUS
  <2>4. Agrees(L, o, 0, s) /\ \A l \in L : l.price # 0
    BY <2>1, <2>3, <1>1, PricesShown DEF AgreesOn
  <2>5. \A p : Live(u, 0, s, p) = Live(o, 0, s, p)
    BY DEF Live
  <2>6. \A p : \A i \in Live(o, 0, s, p) : u[i] = o[i]
    BY DEF Live
  <2>7. Agrees(L, u, 0, s)
    BY <2>4, <2>5, <2>6, AgreesSame
  <2>8. AgreesOn(d, u, 0, s)
    BY <2>3, <2>7 DEF AgreesOn
  <2> QED BY <2>1, <2>2, <2>8
<1> QED BY <1>1, <1>2, MirrorIs

\* The empty book.
LEMMA StartsWell == Init => IInv
<1> SUFFICES ASSUME Init PROVE IInv
  OBVIOUS
<1>1. /\ order = [id \in Ids |-> Unused]
      /\ book = [s \in Sides |-> <<>>]
      /\ stops = [s \in Sides |-> <<>>]
      /\ market = MarketPrice /\ told = {} /\ undisturbed = TRUE
  BY DEF Init
<1>2. Unused \in Object
  BY SidesAre DEF Unused, Object, States
<1>3. /\ Unused.state = "unused" /\ Unused.filled = 0 /\ Unused.qty = 0 /\ Unused.aon = FALSE
  BY DEF Unused
<1>4. Typed
  BY <1>1, <1>2 DEF Typed
<1>5. TypeOK
  <2>1. \A id \in Ids : /\ order[id].state \in States
                        /\ order[id].filled \in Nat /\ order[id].filled <= order[id].qty
    BY <1>1, <1>3 DEF States
  <2>2. \A s \in Sides : Range(book[s]) = {} /\ Range(stops[s]) = {}
    BY <1>1 DEF Range
  <2>3. market \in Nat /\ told \subseteq {"depth", "bbo"} /\ undisturbed \in BOOLEAN
    BY <1>1 DEF MarketPrice
  <2> QED BY <2>1, <2>2, <2>3 DEF TypeOK
<1>6. \A s \in Sides : IdsOn(book[s]) = {} /\ IdsOn(stops[s]) = {}
  BY <1>1 DEF IdsOn
<1>7. InPlace(order, book, stops)
  <2>1. \A s \in Sides : Distinct(book[s]) /\ Distinct(stops[s])
    BY <1>1 DEF Distinct
  <2> QED BY <2>1, <1>6 DEF InPlace
<1>8. Kept(order, book, stops)
  BY <1>1, <1>3 DEF Kept
<1>9. Whole(order)
  BY <1>1, <1>3 DEF Whole
<1>10. Mirror(depth, order, 0) /\ Marketed(order, book)
  <2>1. \A id \in Ids : order[id].state # "accepted"
    BY <1>1, <1>3
  <2>2. Mirror(EmptyDepth, order, 0)
    BY <2>1, EmptyIs
  <2> QED BY <2>1, <2>2 DEF Init, Marketed
<1>11. Shape(depth)
  BY <1>10, MirrorIs
<1> QED BY <1>4, <1>5, <1>7, <1>8, <1>9, <1>10, <1>11 DEF IInv

\* add keeps the invariant.
LEMMA AddKeeps ==
  ASSUME IInv, NEW x \in Ids, Add(x)
  PROVE  IInv' /\ Notified(depth, depth', told')
<1>1. ~depth.lost /\ order[x].state = "unused"
  BY DEF Add, Unborn
<1>2. PICK ob \in Orders : \E orders \in {[order EXCEPT ![x] = Born(ob)]} :
                              \E m \in {Added(Started(orders), x)} : Finish(m)
  BY DEF Add
<1>3. PICK a : a = [order EXCEPT ![x] = Born(ob)] /\ \E m \in {Added(Started(a), x)} : Finish(m)
  BY <1>2
<1>4. PICK m : m = Added(Started(a), x) /\ Finish(m)
  BY <1>3
<1>5. Adding(m, a, x, ob)
  BY <1>1, <1>3, <1>4 DEF Adding
<1>6. PICK u : EndsFrom(a, m, u)
  BY <1>5, AddedIs
<1>7. /\ order[x].state # "accepted" /\ a[x].state # "accepted"
      /\ \A i \in Ids : i # x => a[i] = order[i]
  <2>1. order \in [Ids -> Object]
    BY DEF IInv, Typed
  <2>2. a[x] = Born(ob) /\ \A i \in Ids : i # x => a[i] = order[i]
    BY <2>1, <1>3
  <2> QED BY <2>2, <1>1 DEF Born
<1>8. undisturbed => Mirror(depth, a, 0)
  <2>1. undisturbed => Mirror(depth, order, 0)
    BY DEF IInv
  <2> QED BY <2>1, <1>7, BornMirror
<1> QED BY <1>1, <1>4, <1>6, <1>8, FinishIs

\* cancel keeps the invariant.
LEMMA CancelKeeps ==
  ASSUME IInv, NEW x \in Ids, Cancel(x)
  PROVE  IInv' /\ Notified(depth, depth', told')
<1>1. ~depth.lost
  BY DEF Cancel
<1>2. PICK m : m = Cancelled(Started(order), x) /\ Finish(m)
  BY DEF Cancel
<1>3. PICK u : EndsFrom(order, m, u)
  BY <1>1, <1>2, CancelledIs
<1>4. undisturbed => Mirror(depth, order, 0)
  BY DEF IInv
<1> QED BY <1>1, <1>2, <1>3, <1>4, FinishIs

\* replace keeps the invariant.
LEMMA ReplaceKeeps ==
  ASSUME IInv, NEW x \in Ids, Replace(x)
  PROVE  IInv' /\ Notified(depth, depth', told')
<1>1. ~depth.lost
  BY DEF Replace
<1>2. PICK r \in Replacements : \E m \in {Replaced(Started(order), x, r)} : Finish(m)
  BY DEF Replace
<1>3. PICK m : m = Replaced(Started(order), x, r) /\ Finish(m)
  BY <1>2
<1>4. PICK u : EndsFrom(order, m, u)
  BY <1>1, <1>3, ReplacedIs
<1>5. undisturbed => Mirror(depth, order, 0)
  BY DEF IInv
<1> QED BY <1>1, <1>3, <1>4, <1>5, FinishIs

\* Every call keeps the invariant.
LEMMA CallKeeps == IInv /\ Next => IInv' /\ Notified(depth, depth', told')
<1> SUFFICES ASSUME IInv, Next PROVE IInv' /\ Notified(depth, depth', told')
  OBVIOUS
<1>1. PICK x \in Ids : Add(x) \/ Cancel(x) \/ Replace(x)
  BY DEF Next
<1>2. CASE Add(x)
  BY <1>2, AddKeeps
<1>3. CASE Cancel(x)
  BY <1>3, CancelKeeps
<1>4. CASE Replace(x)
  BY <1>4, ReplaceKeeps
<1> QED BY <1>1, <1>2, <1>3, <1>4

\* So does a stutter.
LEMMA StepsKeep == IInv /\ [Next]_vars => IInv'
<1> SUFFICES ASSUME IInv, [Next]_vars PROVE IInv'
  OBVIOUS
<1>1. CASE Next
  BY <1>1, CallKeeps
<1>2. CASE UNCHANGED vars
  <2>1. (undisturbed => Mirror(depth, order, 0))'
    <3>1. undisturbed' => Mirror(depth', order', 0)
      BY <1>2 DEF vars, IInv
    <3> QED BY <3>1 DEF Mirror, Shape, Agrees, Live, SumOf, Total
  <2>2. (/\ Typed /\ TypeOK
         /\ ~depth.lost => /\ InPlace(order, book, stops) /\ Kept(order, book, stops) /\ Whole(order)
                           /\ Shape(depth) /\ (undisturbed => Marketed(order, book)))'
    BY <1>2 DEF vars, IInv, Typed, TypeOK, InPlace, Kept, Whole, Shape, Marketed
  <2> QED BY <2>1, <2>2 DEF IInv
<1> QED BY <1>1, <1>2

\* Between any two calls every tracker is in one place and says what its order
\* says, every accepted order is somewhere, and all-or-none orders are whole.
THEOREM BookInductive == Spec => []IInv
BY StartsWell, StepsKeep, PTL DEF Spec

\* Every variable has its type, and no tracker holds more than its order.
THEOREM BookTypes == Spec => []TypeOK
<1>1. IInv => TypeOK
  BY DEF IInv
<1> QED BY <1>1, BookInductive, PTL

\* An object and its tracker.
LEMMA OneHolder ==
  ASSUME IInv, ~depth.lost, NEW x \in Ids, NEW s \in Sides, s = order[x].side
  PROVE  /\ Holders(x) = IF x \in IdsOn(book[s]) THEN {TrackerOf(book[s], x)} ELSE {}
         /\ Waiting(x) = IF x \in IdsOn(stops[s]) THEN {TrackerOf(stops[s], x)} ELSE {}
<1>1. ASSUME NEW ts, Listed(ts)
      PROVE  {t \in Range(ts) : t.id = x} =
               IF x \in IdsOn(ts) THEN {TrackerOf(ts, x)} ELSE {}
  <2>1. \A t \in Range(ts) : t.id = x => x \in IdsOn(ts) /\ t = TrackerOf(ts, x)
    BY <1>1, TrackerAt DEF Range
  <2>2. x \in IdsOn(ts) => TrackerOf(ts, x) \in Range(ts) /\ TrackerOf(ts, x).id = x
    BY <1>1, TrackerIs DEF Range
  <2> QED BY <2>1, <2>2
<1>2. Listed(book[s]) /\ Listed(stops[s])
  BY NowhereIs
<1> QED BY <1>1, <1>2 DEF Holders, Waiting

\* The invariant is that the book and the order objects agree.
LEMMA InStepIs == IInv => InStep
<1> SUFFICES ASSUME IInv, ~depth.lost, NEW x \in Ids
             PROVE  /\ \A t \in Holders(x) : /\ t.price = order[x].price
                                             /\ t.open = OpenQty(order[x])
                                             /\ order[x].state = "accepted"
                    /\ Ready(x) => Cardinality(Holders(x) \union Waiting(x)) = 1
  BY DEF InStep
<1>1. PICK s : s = order[x].side
  OBVIOUS
<1>2. s \in Sides
  BY <1>1 DEF IInv, Typed, Object
<1>3. InPlace(order, book, stops) /\ Kept(order, book, stops)
  BY DEF IInv
<1>4. \A d \in Sides : Listed(book[d]) /\ Listed(stops[d])
  BY NowhereIs
<1>5. /\ Holders(x) = IF x \in IdsOn(book[s]) THEN {TrackerOf(book[s], x)} ELSE {}
      /\ Waiting(x) = IF x \in IdsOn(stops[s]) THEN {TrackerOf(stops[s], x)} ELSE {}
  BY <1>1, <1>2, OneHolder
<1>6. ASSUME NEW t \in Holders(x)
      PROVE  t.price = order[x].price /\ t.open = OpenQty(order[x]) /\ order[x].state = "accepted"
  <2>1. x \in IdsOn(book[s]) /\ t = TrackerOf(book[s], x)
    BY <1>5, <1>6
  <2>2. t.id = x /\ Rests(order, s, t)
    BY <2>1, <1>2, <1>3, <1>4, TrackerIs DEF InPlace
  <2> QED BY <2>2 DEF Rests
<1>7. ASSUME Ready(x) PROVE Cardinality(Holders(x) \union Waiting(x)) = 1
  <2>1. PICK d \in Sides : x \in IdsOn(book[d]) \union IdsOn(stops[d])
    BY <1>3, <1>7 DEF Kept, Ready
  <2>2. d = s
    <3>1. CASE x \in IdsOn(book[d])
      <4>1. TrackerOf(book[d], x).id = x /\ Rests(order, d, TrackerOf(book[d], x))
        BY <3>1, <1>3, <1>4, TrackerIs DEF InPlace
      <4> QED BY <4>1, <1>1 DEF Rests
    <3>2. CASE x \in IdsOn(stops[d])
      <4>1. TrackerOf(stops[d], x).id = x /\ Waits(order, d, TrackerOf(stops[d], x))
        BY <3>2, <1>3, <1>4, TrackerIs DEF InPlace
      <4> QED BY <4>1, <1>1 DEF Waits
    <3> QED BY <2>1, <3>1, <3>2
  <2>3. ~(x \in IdsOn(book[s]) /\ x \in IdsOn(stops[s]))
    BY <1>2, <1>3 DEF InPlace
  <2>4. \E t : Holders(x) \union Waiting(x) = {t}
    BY <2>1, <2>2, <2>3, <1>5
  <2> QED BY <2>4, FS_Singleton
<1> QED BY <1>6, <1>7

\* The trackers, which the matching changes at once, and the order objects, which
\* callbacks change later, agree between calls for any sequence of calls.
THEOREM BookInStep == Spec => []InStep
BY BookInductive, InStepIs, PTL

\* match_aon_order, try_create_deferred_trades and check_deferred_aons never
\* split an all-or-none order, whatever is held or deferred for it.
THEOREM TradesWhole == Spec => []AonWhole
<1>1. IInv => AonWhole
  BY DEF IInv, Whole, AonWhole
<1> QED BY <1>1, BookInductive, PTL

\* Told(d) is computed from flags that five operations of the depth set: what a call
\* changes of the visible levels, or of the best ones, is told by its end.
THEOREM ChangesNotified == Spec => NotifiesChange
<1>1. IInv /\ [Next]_vars =>
        [~depth'.lost =>
           \A s \in Sides :
             /\ (ShownVisible(s))' # ShownVisible(s) => "depth" \in told'
             /\ (Shown(depth.visible[s][1]))' # Shown(depth.visible[s][1]) => "bbo" \in told']_vars
  <2> SUFFICES ASSUME IInv, Next, ~depth'.lost, NEW s \in Sides
               PROVE  /\ (ShownVisible(s))' # ShownVisible(s) => "depth" \in told'
                      /\ (Shown(depth.visible[s][1]))' # Shown(depth.visible[s][1]) => "bbo" \in told'
    OBVIOUS
  <2>1. Notified(depth, depth', told')
    BY CallKeeps
  <2>2. ASSUME (ShownVisible(s))' # ShownVisible(s) PROVE "depth" \in told'
    <3>1. \E i \in 1 .. Size : Seen(depth'.visible[s][i]) # Seen(depth.visible[s][i])
      BY <2>2 DEF ShownVisible, Shown, Seen
    <3> QED BY <3>1, <2>1 DEF Notified
  <2>3. ASSUME (Shown(depth.visible[s][1]))' # Shown(depth.visible[s][1]) PROVE "bbo" \in told'
    BY <2>1, <2>3 DEF Notified, Shown, Seen
  <2> QED BY <2>2, <2>3
<1> QED BY <1>1, BookInductive, PTL DEF Spec, NotifiesChange

-----------------------------------------------------------------------------
(* The levels and the market.                                              *)

\* The open quantity of the trackers of price p, tracker by tracker.
WithOpen(p, sum, t) == IF t.price = p THEN sum + t.open ELSE sum

\* The run of the fold.
LEMMA OpenRun ==
  ASSUME NEW s, book[s] \in Seq(Tracker), NEW p
  PROVE  \E f : /\ f[0] = 0 /\ f[Len(book[s])] = OpenOn(s, p)
                /\ \A i \in 1 .. Len(book[s]) : f[i] = WithOpen(p, f[i - 1], book[s][i])
<1>1. PICK q : q = book[s]
  OBVIOUS
<1>2. PICK n \in Nat : n = Len(q)
  BY <1>1
<1> DEFINE Is(k, f) == f = [i \in 0 .. k |-> IF i = 0 THEN 0
                                             ELSE WithOpen(p, f[i - 1], q[i])]
           Bad == {k \in Nat : ~ \E f : Is(k, f)}
<1>3. Bad = {}
  <2> SUFFICES ASSUME Bad # {} PROVE FALSE
    OBVIOUS
  <2>1. PICK k \in Bad : \A j \in Bad : k <= j
    <3>1. Bad \in SUBSET Nat
      OBVIOUS
    <3> HIDE DEF Bad
    <3> QED BY <3>1, LeastOf
  <2>2. k # 0
    <3>1. Is(0, [i \in 0 .. 0 |-> 0])
      OBVIOUS
    <3> QED BY <3>1
  <2>3. PICK j \in Nat : k = j + 1
    BY <2>1, <2>2
  <2>4. PICK f : Is(j, f)
    <3>1. ~ (k <= j)
      BY <2>3
    <3>2. j \notin Bad
      <4> HIDE DEF Bad
      <4> QED BY <3>1, <2>1
    <3> QED BY <3>2
  <2> DEFINE h == [i \in 0 .. k |-> IF i = k THEN WithOpen(p, f[j], q[k]) ELSE f[i]]
  <2>5. \A i \in 0 .. j : h[i] = f[i]
    BY <2>3
  <2>6. h[k] = WithOpen(p, f[j], q[k]) /\ k - 1 = j
    BY <2>3
  <2>7. \A i \in 0 .. k : h[i] = IF i = 0 THEN 0 ELSE WithOpen(p, h[i - 1], q[i])
    <3> TAKE i \in 0 .. k
    <3>1. CASE i = k
      BY <3>1, <2>2, <2>3, <2>5, <2>6
    <3>2. CASE i # k
      <4>1. i \in 0 .. j /\ (i # 0 => i - 1 \in 0 .. j)
        BY <3>2, <2>3
      <4>2. f[i] = IF i = 0 THEN 0 ELSE WithOpen(p, f[i - 1], q[i])
        BY <4>1, <2>4
      <4> HIDE DEF h
      <4> QED BY <4>1, <4>2, <2>5
    <3> QED BY <3>1, <3>2
  <2>8. Is(k, h)
    <3>1. h = [i \in 0 .. k |-> h[i]]
      OBVIOUS
    <3> HIDE DEF h
    <3> QED BY <3>1, <2>7
  <2> HIDE DEF h
  <2> QED BY <2>1, <2>8
<1>4. PICK f : f = CHOOSE h : Is(n, h)
  OBVIOUS
<1>5. Is(n, f)
  BY <1>3, <1>4
<1>6. OpenOn(s, p) = f[n]
  BY <1>1, <1>2, <1>4 DEF OpenOn, Fold, WithOpen
<1>7. f[0] = 0
  BY <1>5
<1>8. \A i \in 1 .. n : f[i] = WithOpen(p, f[i - 1], q[i])
  BY <1>5
<1> QED BY <1>1, <1>2, <1>6, <1>7, <1>8

\* The orders of the first n trackers that have price p.
FirstIds(ts, p, n) == {id \in Ids : \E i \in 1 .. n : ts[i].id = id /\ ts[i].price = p}

\* The open quantity of a level is that of the orders of its trackers.
LEMMA OpenIs ==
  ASSUME NEW s \in Sides, Listed(book[s]), Objects(order), NEW p,
         \A i \in DOMAIN book[s] : book[s][i].open = OpenQty(order[book[s][i].id])
  PROVE  OpenOn(s, p) = SumOf(order, FirstIds(book[s], p, Len(book[s])))
<1>1. PICK q : q = book[s]
  OBVIOUS
<1>2. /\ Len(q) \in Nat /\ DOMAIN q = 1 .. Len(q) /\ q \in Seq(Tracker)
      /\ \A i \in DOMAIN q : q[i].id \in Ids
      /\ \A i, j \in DOMAIN q : q[i].id = q[j].id => i = j
  BY <1>1, ListedFacts DEF Listed
<1>3. PICK n \in Nat : n = Len(q)
  BY <1>2
<1>4. PICK f : /\ f[0] = 0 /\ f[n] = OpenOn(s, p)
               /\ \A i \in 1 .. n : f[i] = WithOpen(p, f[i - 1], q[i])
  BY <1>1, <1>2, <1>3, OpenRun
<1>5. \A i \in 1 .. n : q[i].id \in Ids /\ q[i].open = OpenQty(order[q[i].id])
  BY <1>1, <1>2, <1>3
<1>6. \A i, j \in 1 .. n : q[i].id = q[j].id => i = j
  BY <1>2, <1>3
<1> DEFINE Good == {i \in 0 .. n : f[i] = SumOf(order, FirstIds(q, p, i))}
<1>7. 0 \in Good
  <2>1. FirstIds(q, p, 0) = {}
    BY DEF FirstIds
  <2>2. SumOf(order, {}) = 0
    BY SumIs
  <2> QED BY <2>1, <2>2, <1>4
<1>8. ASSUME NEW i \in 1 .. n, i - 1 \in Good PROVE i \in Good
  <2>1. PICK S, x : S = FirstIds(q, p, i - 1) /\ x = q[i].id
    OBVIOUS
  <2>2. S \in SUBSET Ids /\ x \in Ids
    BY <2>1, <1>5 DEF FirstIds
  <2>3. x \notin S
    <3>1. \A j \in 1 .. (i - 1) : j \in 1 .. n /\ j # i
      OBVIOUS
    <3> QED BY <3>1, <2>1, <1>6 DEF FirstIds
  <2>4. \A j : j \in 1 .. i <=> j \in 1 .. (i - 1) \/ j = i
    OBVIOUS
  <2>5. f[i - 1] = SumOf(order, S) /\ f[i] = WithOpen(p, f[i - 1], q[i])
    BY <2>1, <1>4, <1>8
  <2>6. CASE q[i].price = p
    <3>1. FirstIds(q, p, i) = S \union {x}
      BY <2>1, <2>2, <2>4, <2>6 DEF FirstIds
    <3>2. SumOf(order, S \union {x}) = SumOf(order, S) + OpenQty(order[x])
      BY <2>2, <2>3, SumAdds
    <3>3. f[i] = f[i - 1] + q[i].open /\ q[i].open = OpenQty(order[x])
      BY <2>1, <2>5, <2>6, <1>5 DEF WithOpen
    <3>4. f[i] = SumOf(order, FirstIds(q, p, i))
      BY <3>1, <3>2, <3>3, <2>5
    <3>5. i \in 0 .. n
      OBVIOUS
    <3> QED BY <3>4, <3>5
  <2>7. CASE q[i].price # p
    <3>1. FirstIds(q, p, i) = S
      BY <2>1, <2>4, <2>7 DEF FirstIds
    <3>2. f[i] = f[i - 1]
      BY <2>5, <2>7 DEF WithOpen
    <3> QED BY <3>1, <3>2, <2>5
  <2> QED BY <2>6, <2>7
<1>9. f[n] = SumOf(order, FirstIds(q, p, n))
  <2>1. \A i \in 0 .. n : i \in Good
    <3> HIDE DEF Good
    <3> QED BY <1>7, <1>8, Induct
  <2> QED BY <2>1
<1> QED BY <1>1, <1>3, <1>4, <1>9

\* On the market of a side are the orders that make its levels.
LEMMA LiveIsMarket ==
  ASSUME IInv, undisturbed, NEW s \in Sides, NEW p, p # 0
  PROVE  /\ Live(order, 0, s, p) = FirstIds(book[s], p, Len(book[s]))
         /\ Cardinality(Live(order, 0, s, p)) = Cardinality(OnLevel(s, p))
         /\ OpenOn(s, p) = SumOf(order, Live(order, 0, s, p))
         /\ OnLevel(s, p) = {} <=> Live(order, 0, s, p) = {}
<1>1. /\ Typed /\ TypeOK /\ Mirror(depth, order, 0)
  BY DEF IInv
<1>2. ~depth.lost
  BY <1>1, MirrorIs
<1>3. InPlace(order, book, stops) /\ Marketed(order, book)
  BY <1>2 DEF IInv
<1>4. Objects(order)
  BY <1>1 DEF Typed, TypeOK, Objects
<1>5. \A d \in Sides : Distinct(book[d]) /\ book[d] \in Seq(Tracker)
  BY <1>1, <1>3 DEF InPlace, Typed
<1>6. \A d \in Sides : Listed(book[d])
  BY <1>5 DEF Listed
<1>7. PICK q, S, at : q = book[s] /\ S = Live(order, 0, s, p) /\ at = OnLevel(s, p)
  OBVIOUS
<1>8. /\ Len(q) \in Nat /\ DOMAIN q = 1 .. Len(q)
      /\ \A i \in DOMAIN q : q[i].id \in Ids /\ q[i].id \in IdsOn(q)
      /\ \A i, j \in DOMAIN q : q[i].id = q[j].id => i = j
  BY <1>6, <1>7, ListedFacts
<1>9. \A i \in DOMAIN q : Rests(order, s, q[i])
  <2> TAKE i \in DOMAIN q
  <2>1. q[i].id \in IdsOn(q) /\ TrackerOf(q, q[i].id) = q[i]
    BY <1>6, <1>7, TrackerAt
  <2> QED BY <2>1, <1>3, <1>7 DEF InPlace
<1>10. at = {i \in DOMAIN q : q[i].price = p}
  BY <1>7 DEF OnLevel
<1>11. \A i \in at : i \in DOMAIN q /\ q[i].id \in S
  <2> TAKE i \in at
  <2>1. i \in DOMAIN q /\ q[i].price = p
    BY <1>10
  <2>2. q[i].id \in Ids /\ Rests(order, s, q[i])
    BY <2>1, <1>8, <1>9
  <2>3. q[i].id # 0
    BY <2>2, OrdersAssumption
  <2> QED BY <2>1, <2>2, <2>3, <1>7 DEF Live, Rests
<1>12. \A id \in S : \E i \in at : q[i].id = id
  <2> TAKE id \in S
  <2>1. id \in Ids /\ order[id].state = "accepted" /\ order[id].side = s /\ order[id].price = p
    BY <1>7 DEF Live
  <2>2. PICK d \in Sides : id \in IdsOn(book[d])
    BY <2>1, <1>3 DEF Marketed, MarketPrice
  <2>3. Rests(order, d, TrackerOf(book[d], id)) /\ TrackerOf(book[d], id).id = id
    BY <2>2, <1>3, <1>6, TrackerIs DEF InPlace
  <2>4. d = s
    BY <2>1, <2>3 DEF Rests
  <2>5. PICK i \in DOMAIN q : q[i].id = id
    BY <2>2, <2>4, <1>7 DEF IdsOn
  <2>6. q[i].price = p
    BY <2>1, <2>5, <1>9 DEF Rests
  <2> QED BY <2>5, <2>6, <1>10
<1>13. S = FirstIds(q, p, Len(q))
  <2>1. S \subseteq Ids
    BY <1>7 DEF Live
  <2> QED BY <2>1, <1>8, <1>10, <1>11, <1>12 DEF FirstIds
<1>14. Cardinality(S) = Cardinality(at)
  <2>1. PICK f : f = [i \in at |-> q[i].id]
    OBVIOUS
  <2>2. f \in Bijection(at, S)
    <3>1. f \in [at -> S]
      BY <2>1, <1>11
    <3>2. \A i, j \in at : f[i] = f[j] => i = j
      BY <2>1, <1>8, <1>11
    <3>3. \A id \in S : \E i \in at : f[i] = id
      BY <2>1, <1>12
    <3>4. f \in Injection(at, S)
      BY <3>1, <3>2 DEF Injection, IsInjective
    <3>5. f \in Surjection(at, S)
      BY <3>1, <3>3 DEF Surjection
    <3> QED BY <3>4, <3>5 DEF Bijection
  <2>3. ExistsBijection(at, S)
    BY <2>2 DEF ExistsBijection
  <2>4. IsFiniteSet(at)
    <3>1. 1 \in Int /\ Len(q) \in Int
      BY <1>8
    <3>2. IsFiniteSet(1 .. Len(q))
      BY <3>1, FS_Interval
    <3>3. at \subseteq 1 .. Len(q)
      BY <1>8, <1>10
    <3> QED BY <3>2, <3>3, FS_Subset
  <2> QED BY <2>3, <2>4, FS_Bijection
<1>15. OpenOn(s, p) = SumOf(order, FirstIds(q, p, Len(q)))
  <2>1. \A i \in DOMAIN book[s] : book[s][i].open = OpenQty(order[book[s][i].id])
    BY <1>7, <1>9 DEF Rests
  <2>2. Listed(book[s])
    BY <1>6
  <2> QED BY <2>1, <2>2, <1>4, <1>7, OpenIs
<1>16. at = {} <=> S = {}
  BY <1>11, <1>12
<1> QED BY <1>7, <1>13, <1>14, <1>15, <1>16

\* A level of the market, for its orders.
LevelOf(s, p) == Entry(p, Cardinality(OnLevel(s, p)), OpenOn(s, p))

\* One level for each price on the market.
LEMMA AggregateIs ==
  ASSUME NEW s \in Sides, book[s] \in Seq(Tracker)
  PROVE  Aggregate(s) = {LevelOf(s, p) : p \in {q \in Nat \ {0} : OnLevel(s, q) # {}}}
<1>1. \A t \in Range(book[s]) : t.price \in Nat
  <2>1. \A t \in Range(book[s]) : t \in Tracker
    BY DEF Range
  <2> QED BY <2>1 DEF Tracker
<1>2. \A p : p \in {t.price : t \in Range(book[s])} <=> OnLevel(s, p) # {}
  BY DEF Range, OnLevel
<1>3. \A p : p \in {t.price : t \in Range(book[s])} \ {MarketPrice} <=>
             p \in {q \in Nat \ {0} : OnLevel(s, q) # {}}
  BY <1>1, <1>2 DEF MarketPrice
<1>4. {t.price : t \in Range(book[s])} \ {MarketPrice} = {q \in Nat \ {0} : OnLevel(s, q) # {}}
  BY <1>3
<1> QED BY <1>4 DEF Aggregate, LevelOf, Entry

\* Both sets of levels are those that the orders make.
LEMMA ListingIs ==
  ASSUME IInv, undisturbed, NEW s \in Sides
  PROVE  Listing(depth.visible[s], depth.excess[s]) = Aggregate(s)
<1>1. Mirror(depth, order, 0) /\ Typed
  BY DEF IInv
<1>2. Shape(depth) /\ AgreesOn(depth, order, 0, s)
  BY <1>1, MirrorIs
<1>3. PICK L : L = Listing(depth.visible[s], depth.excess[s])
  OBVIOUS
<1>4. Agrees(L, order, 0, s)
  BY <1>2, <1>3 DEF AgreesOn
<1>5. \A l \in L : l.price # 0
  BY <1>2, <1>3, PricesShown
<1>6. \A l \in L : l.price \in Nat /\ l = Entry(l.price, l.count, l.qty)
  <2>1. depth.visible[s] \in Visibles /\ depth.excess[s] \in SUBSET LevelType
    BY <1>2 DEF Shape, SideOK
  <2>2. ASSUME NEW l \in L PROVE \E k \in LevelType : l = Seen(k)
    BY <2>1, <2>2, <1>3 DEF Listing, Visibles
  <2>3. ASSUME NEW k \in LevelType, NEW l, l = Seen(k)
        PROVE  l.price \in Nat /\ l = Entry(l.price, l.count, l.qty)
    BY <2>3 DEF LevelType, Seen, Entry
  <2> QED BY <2>2, <2>3
<1>7. book[s] \in Seq(Tracker)
  BY <1>1 DEF Typed
<1>8. PICK P : P = {p \in Nat \ {0} : OnLevel(s, p) # {}}
  OBVIOUS
<1>9. Aggregate(s) = {LevelOf(s, p) : p \in P}
  BY <1>7, <1>8, AggregateIs
<1>10. ASSUME NEW l \in L PROVE l.price \in P /\ l = LevelOf(s, l.price)
  <2>1. PICK p : p = l.price
    OBVIOUS
  <2>2. p # 0 /\ p \in Nat /\ l = Entry(p, l.count, l.qty)
    BY <2>1, <1>5, <1>6, <1>10
  <2>3. PICK S : S = Live(order, 0, s, p)
    OBVIOUS
  <2>4. S # {} /\ l.count = Cardinality(S) /\ l.qty = SumOf(order, S)
    BY <2>1, <2>3, <1>4, <1>10 DEF Agrees
  <2>5. /\ Cardinality(S) = Cardinality(OnLevel(s, p)) /\ OpenOn(s, p) = SumOf(order, S)
        /\ OnLevel(s, p) # {}
    BY <2>2, <2>3, <2>4, LiveIsMarket
  <2> QED BY <2>1, <2>2, <2>4, <2>5, <1>8 DEF LevelOf
<1>11. ASSUME NEW p \in P PROVE LevelOf(s, p) \in L
  <2>1. p # 0 /\ p \in Nat /\ OnLevel(s, p) # {}
    BY <1>8, <1>11
  <2>2. Live(order, 0, s, p) # {}
    BY <2>1, LiveIsMarket
  <2>3. PICK id : id \in Live(order, 0, s, p)
    BY <2>2
  <2>4. id \in Ids /\ order[id].price = p
    BY <2>3 DEF Live
  <2>5. PICK l \in L : l.price = p
    BY <2>1, <2>3, <2>4, <1>4 DEF Agrees
  <2>6. l = LevelOf(s, p)
    BY <2>5, <1>10
  <2> QED BY <2>5, <2>6
<1> QED BY <1>3, <1>9, <1>10, <1>11

\* Undisturbed, nothing has been lost, and the depth is the book's.
LEMMA DepthFollows == IInv => DepthExact
<1> SUFFICES ASSUME IInv, undisturbed, NEW s \in Sides
             PROVE  LET visible == ShownVisible(s)
                        used == {i \in 1 .. Size : visible[i] # Shown(Blank)}
                    IN  /\ {visible[i] : i \in used} \union ShownExcess(s) = Aggregate(s)
                        /\ \A i \in 1 .. Size, j \in used :
                             i < j => i \in used /\ Better(s, visible[i].price, visible[j].price)
                        /\ \A l \in ShownExcess(s), i \in 1 .. Size :
                             i \in used /\ Better(s, visible[i].price, l.price)
  <2>1. IInv /\ undisturbed => ~depth.lost
    BY DEF IInv, Mirror
  <2> QED BY <2>1 DEF DepthExact, DepthIsBook
<1>1. Mirror(depth, order, 0)
  BY DEF IInv
<1>2. Shape(depth) /\ Blanked(depth.visible[s])
  BY <1>1, MirrorIs
<1>3. PICK v, e : v = depth.visible[s] /\ e = depth.excess[s]
  OBVIOUS
<1>4. v \in Visibles /\ e \in SUBSET LevelType /\ Ordered(s, v, e) /\ Blanked(v)
  BY <1>2, <1>3 DEF Shape, SideOK
<1>5. PICK visible : visible = ShownVisible(s)
  OBVIOUS
<1>6. visible = [i \in 1 .. Size |-> Seen(v[i])] /\ ShownExcess(s) = {Seen(l) : l \in e}
  BY <1>3, <1>5 DEF ShownVisible, ShownExcess, Shown, Seen
<1>7. Shown(Blank) = [price |-> 0, count |-> 0, qty |-> 0]
  BY DEF Shown, Blank, Level, InvalidPrice
<1>8. \A i \in 1 .. Size : Seen(v[i]) # Shown(Blank) <=> v[i].price # 0
  <2> TAKE i \in 1 .. Size
  <2>1. CASE v[i].price = 0
    <3>1. v[i].count = 0 /\ v[i].qty = 0
      BY <2>1, <1>4 DEF Ordered, Blanked
    <3> QED BY <2>1, <3>1, <1>7 DEF Seen
  <2>2. CASE v[i].price # 0
    BY <2>2, <1>7 DEF Seen
  <2> QED BY <2>1, <2>2
<1>9. PICK used : used = {i \in 1 .. Size : visible[i] # Shown(Blank)}
  OBVIOUS
<1>10. used = {i \in 1 .. Size : v[i].price # 0} /\ \A i \in 1 .. Size : visible[i] = Seen(v[i])
  BY <1>6, <1>8, <1>9
<1>11. {visible[i] : i \in used} \union ShownExcess(s) = Listing(v, e)
  <2>1. {visible[i] : i \in used} = {Seen(v[i]) : i \in {i \in 1 .. Size : v[i].price # 0}}
    BY <1>10
  <2> QED BY <2>1, <1>6 DEF Listing
<1>12. Listing(v, e) = Aggregate(s)
  BY <1>3, ListingIs
<1>13. \A i \in 1 .. Size : visible[i].price = v[i].price
  BY <1>10, SeenIs
<1>14. \A i \in 1 .. Size, j \in used :
         i < j => i \in used /\ Better(s, visible[i].price, visible[j].price)
  BY <1>4, <1>10, <1>13 DEF Ordered
<1>15. \A l \in ShownExcess(s), i \in 1 .. Size :
         i \in used /\ Better(s, visible[i].price, l.price)
  <2> TAKE l \in ShownExcess(s), i \in 1 .. Size
  <2>1. PICK k \in e : l = Seen(k)
    BY <1>6
  <2>2. v[i].price # 0 /\ Better(s, v[i].price, k.price)
    BY <2>1, <1>4 DEF Ordered
  <2>3. l.price = k.price
    BY <2>1 DEF Seen
  <2> QED BY <2>2, <2>3, <1>10, <1>13
<1> QED BY <1>5, <1>9, <1>11, <1>12, <1>14, <1>15

\* While no callback misinforms it, the depth that is built from the callbacks
\* alone, after the matching, with fills it ignores and levels spilt to the excess
\* and restored from it, is the aggregate of the trackers, for any number of
\* visible levels, orders and sequence of calls.
THEOREM DepthFollowsBook == Spec => []DepthExact
BY BookInductive, DepthFollows, PTL
=============================================================================
