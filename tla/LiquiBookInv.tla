---------------------------- MODULE LiquiBookInv ----------------------------
(***************************************************************************)
(* The inductive invariant of LiquiBook.  Between two calls every tracker  *)
(* is in one place, on the market or waiting as a stop, and says what its  *)
(* order object says; after a lost depth only the types are left.          *)
(***************************************************************************)
EXTENDS LiquiBook

Object == [side : Sides, price : Nat, qty : Nat, stop : Nat, aon : BOOLEAN,
           ioc : BOOLEAN, filled : Nat, state : States]
Tracker == [id : Ids, price : Nat, open : Nat]

Typed ==
  /\ order \in [Ids -> Object]
  /\ book \in [Sides -> Seq(Tracker)]
  /\ stops \in [Sides -> Seq(Tracker)]

IdsOn(trackers) == {trackers[i].id : i \in DOMAIN trackers}
Distinct(trackers) ==
  \A i, j \in DOMAIN trackers : trackers[i].id = trackers[j].id => i = j

\* What an order object says of its tracker t on the market of side s, or
\* among the stops of side s.
Rests(o, s, t) ==
  /\ o[t.id].side = s
  /\ o[t.id].state = "accepted"
  /\ ~o[t.id].ioc
  /\ t.price = o[t.id].price
  /\ t.open = OpenQty(o[t.id])
  /\ t.open > 0
Waits(o, s, t) ==
  /\ o[t.id].side = s
  /\ o[t.id].state = "accepted"
  /\ o[t.id].stop # 0
  /\ o[t.id].filled = 0
  /\ t.open = o[t.id].qty
  /\ t.open > 0

InPlace(o, b, st) ==
  /\ \A s \in Sides : Distinct(b[s]) /\ Distinct(st[s])
  /\ \A s \in Sides : \A id \in IdsOn(b[s]) : Rests(o, s, TrackerOf(b[s], id))
  /\ \A s \in Sides : \A id \in IdsOn(st[s]) : Waits(o, s, TrackerOf(st[s], id))
  /\ \A r, s \in Sides : IdsOn(b[r]) \intersect IdsOn(st[s]) = {}

\* An accepted order that is not an immediate-or-cancel stop is somewhere.
Kept(o, b, st) ==
  \A id \in Ids :
    o[id].state = "accepted" /\ ~(o[id].ioc /\ o[id].stop # 0) =>
      \E s \in Sides : id \in IdsOn(b[s]) \union IdsOn(st[s])

Whole(o) ==
  \A id \in Ids : o[id].aon => o[id].price # MarketPrice /\ o[id].filled \in {0, o[id].qty}

-----------------------------------------------------------------------------
(* The depth: what its levels are, and what the order objects say of them.  *)

LevelType == [price : Nat, count : Nat, qty : Int, fresh : BOOLEAN]
Visibles == [1 .. Size -> LevelType]
Depths == [visible : [Sides -> Visibles], excess : [Sides -> SUBSET LevelType],
           ignored : [Sides -> Int], changed : BOOLEAN, lost : BOOLEAN]

\* The visible levels v and the excess e of side s, best first.
Ordered(s, v, e) ==
  /\ \A i, j \in 1 .. Size :
       i < j /\ v[j].price # 0 => v[i].price # 0 /\ Better(s, v[i].price, v[j].price)
  /\ \A l \in e : l.price # 0 /\ \A i \in 1 .. Size : v[i].price # 0 /\ Better(s, v[i].price, l.price)
  /\ \A k, l \in e : k.price = l.price => k = l
  /\ \A i \in 1 .. Size : v[i].price = 0 => v[i].count = 0
  /\ IsFiniteSet(e)
SideOK(s, v, e) == s \in Sides /\ v \in Visibles /\ e \in SUBSET LevelType /\ Ordered(s, v, e)
Shape(d) == d \in Depths /\ \A s \in Sides : SideOK(s, d.visible[s], d.excess[s])

\* Places without a level are as they were made.
Blanked(v) == \A i \in 1 .. Size : v[i].price = 0 => v[i].qty = 0

Seen(l) == [price |-> l.price, count |-> l.count, qty |-> l.qty]
Listing(v, e) == {Seen(v[i]) : i \in {i \in 1 .. Size : v[i].price # 0}} \union {Seen(l) : l \in e}
Entry(p, c, q) == [price |-> p, count |-> c, qty |-> q]

\* The open quantities of the orders S, summed.
LastId == Max(Ids \union {0})
Total(w) ==
  LET sum[i \in 0 .. LastId] == IF i = 0 THEN 0 ELSE sum[i - 1] + w[i]
  IN  sum[LastId]
SumOf(o, S) == Total([i \in 1 .. LastId |-> IF i \in S THEN OpenQty(o[i]) ELSE 0])

\* The accepted orders of side s with price p, but for z; and that the levels L
\* are those that these orders make.
Live(o, z, s, p) ==
  {id \in Ids : id # z /\ o[id].state = "accepted" /\ o[id].side = s /\ o[id].price = p}
Agrees(L, o, z, s) ==
  /\ \A l \in L : LET S == Live(o, z, s, l.price)
                  IN  S # {} /\ l.count = Cardinality(S) /\ l.qty = SumOf(o, S)
  /\ \A id \in Ids : o[id].price # 0 /\ id \in Live(o, z, s, o[id].price) =>
                     \E l \in L : l.price = o[id].price

\* The depth d says what the orders o say, but for the order z, whose fills it
\* ignores.
Mirror(d, o, z) ==
  /\ Shape(d) /\ ~d.lost
  /\ \A s \in Sides :
       /\ Agrees(Listing(d.visible[s], d.excess[s]), o, z, s)
       /\ Blanked(d.visible[s])
       /\ d.ignored[s] = IF z \in Ids /\ o[z].side = s THEN OpenQty(o[z]) ELSE 0

\* What has a level is on the market.
Marketed(o, b) ==
  \A id \in Ids : o[id].state = "accepted" /\ o[id].price # MarketPrice =>
                   \E s \in Sides : id \in IdsOn(b[s])

IInv ==
  /\ Typed
  /\ TypeOK
  /\ ~depth.lost => /\ InPlace(order, book, stops)
                    /\ Kept(order, book, stops)
                    /\ Whole(order)
                    /\ Shape(depth)
                    /\ undisturbed => Marketed(order, book)
  /\ undisturbed => Mirror(depth, order, 0)
=============================================================================
