--------------------------- MODULE LevelTreeProofs ---------------------------
(***************************************************************************)
(* The red-black tree of the price levels: IInv of LevelTreeInv is         *)
(* inductive, and what it means for a search, a walk and an insertion.     *)
(***************************************************************************)
EXTENDS LevelTreeShape

-----------------------------------------------------------------------------
(* Colours and heights.                                                    *)

\* The tree's part of the invariant.
Shape(tr, L, sub, bh, hd, state, y, yp) ==
  /\ TreeOK(tr, L, sub)
  /\ HeightsOK(tr, L, bh, yp, hd)
  /\ ColorsOK(tr, L, state, y, yp, hd)

IsRepainted(tr, new) ==
  /\ new \in Trees
  /\ new.root = tr.root /\ new.kid = tr.kid /\ new.parent = tr.parent

LEMMA PaintTree ==
  ASSUME NEW tr, NEW L, NEW sub, TreeOK(tr, L, sub), NEW new, IsRepainted(tr, new)
  PROVE  TreeOK(new, L, sub)
BY DEF IsRepainted, TreeOK, BranchOK, ParentOK

LEMMA ShapeFacts ==
  ASSUME NEW tr, NEW L, NEW sub, NEW bh, NEW hx, NEW hd,
         TreeOK(tr, L, sub), HeightsOK(tr, L, bh, hx, hd)
  PROVE  /\ tr \in Trees /\ L \subseteq Prices /\ Nil \notin L /\ Nil \notin Prices
         /\ \A m \in L : m \in Maybe /\ tr.color[m] \in Colors
         /\ \A m \in Prices : m \in Maybe
         /\ \A m \in L, e \in Sides : tr.kid[e][m] \in L \union {Nil}
         /\ \A m \in L \union {Nil} : bh[m] \in Nat \ {0}
         /\ \A m \in L : Unit(tr, m) \in {0, 1}
         /\ Nil \in Maybe /\ bh \in [Maybe -> Nat \ {0}] /\ bh[Nil] = 1
<1>1. /\ tr \in Trees /\ L \subseteq Prices /\ Nil \notin L /\ Nil \in Maybe
      /\ Nil \notin Prices /\ \A m \in Prices : m \in Maybe
  BY PriceFacts DEF TreeOK, Maybe
<1>2. \A m \in L : m \in Maybe /\ tr.color[m] \in Colors
  BY <1>1, TreeFields
<1>3. \A m \in L, e \in Sides : tr.kid[e][m] \in L \union {Nil}
  BY DEF TreeOK, BranchOK
<1>4. bh \in [Maybe -> Nat \ {0}] /\ bh[Nil] = 1
  BY DEF HeightsOK
<1>5. \A m \in L : Unit(tr, m) \in {0, 1}
  BY DEF Unit
<1> QED BY <1>1, <1>2, <1>3, <1>4, <1>5

\* A child is as high as its level, less the level's own black, and less one
\* more on the side that is short.
LEMMA HeightIs ==
  ASSUME NEW tr, NEW L, NEW sub, NEW bh, NEW hx, NEW hd,
         TreeOK(tr, L, sub), HeightsOK(tr, L, bh, hx, hd), NEW m \in L, NEW e \in Sides
  PROVE  /\ bh[m] \in Nat \ {0} /\ bh[tr.kid[e][m]] \in Nat \ {0} /\ Unit(tr, m) \in {0, 1}
         /\ ~ (m = hx /\ e = hd) => bh[m] = bh[tr.kid[e][m]] + Unit(tr, m)
         /\ m = hx /\ e = hd => bh[m] = bh[tr.kid[e][m]] + Unit(tr, m) + 1
<1>1. /\ tr.kid[e][m] \in L \union {Nil} /\ Unit(tr, m) \in {0, 1}
      /\ \A k \in L \union {Nil} : bh[k] \in Nat \ {0}
  BY ShapeFacts
<1>2. HeightOK(tr, bh, hx, hd, m)
  BY DEF HeightsOK
<1>3. bh[m] = bh[tr.kid[e][m]] + Unit(tr, m) + (IF m = hx /\ e = hd THEN 1 ELSE 0)
  BY <1>2 DEF HeightOK
<1> QED BY <1>1, <1>3

\* Conversely.
LEMMA HeightBy ==
  ASSUME NEW tr, NEW bh, NEW hx, NEW hd, NEW m,
         \A e \in Sides :
           /\ bh[tr.kid[e][m]] \in Nat
           /\ ~ (m = hx /\ e = hd) => bh[m] = bh[tr.kid[e][m]] + Unit(tr, m)
           /\ m = hx /\ e = hd => bh[m] = bh[tr.kid[e][m]] + Unit(tr, m) + 1
  PROVE  HeightOK(tr, bh, hx, hd, m)
<1>1. Unit(tr, m) \in Nat
  BY DEF Unit
<1> QED BY <1>1 DEF HeightOK

\* The children after a rotation.
LEMMA RotateKids ==
  ASSUME NEW tr, NEW L, NEW sub, NEW l, NEW d, CanRotate(tr, L, sub, l, d),
         NEW new, IsRotated(tr, l, d, new),
         NEW o, o = Other(d), NEW pivot, pivot = tr.kid[o][l]
  PROVE  /\ new.kid[d][l] = tr.kid[d][l] /\ new.kid[o][l] = tr.kid[d][pivot]
         /\ new.kid[d][pivot] = l /\ new.kid[o][pivot] = tr.kid[o][pivot]
         /\ \A m \in L, e \in Sides : m # l /\ m # pivot =>
              /\ tr.kid[e][m] # pivot
              /\ new.kid[e][m] = IF tr.kid[e][m] = l THEN pivot ELSE tr.kid[e][m]
<1>1. PICK inner : inner = tr.kid[d][pivot]
  OBVIOUS
<1>2. /\ TreeOK(tr, L, sub) /\ l \in L /\ d \in Sides /\ o \in Sides
      /\ o # d /\ L \subseteq Prices
      /\ pivot \in L /\ pivot # l /\ pivot # Nil
      /\ tr.kid[o][pivot] \notin {l, pivot}
  BY <1>1, RotateParts
<1>3. \A e \in Sides, m \in Prices : new.kid[e][m] =
        IF m = l THEN (IF e = d THEN tr.kid[e][l] ELSE inner)
        ELSE IF m = pivot THEN (IF e = d THEN l ELSE tr.kid[e][m])
        ELSE IF tr.kid[e][m] = l THEN pivot ELSE tr.kid[e][m]
  BY <1>1 DEF IsRotated
<1>4. tr.parent[pivot] = l
  BY <1>2, KidFacts DEF CanRotate
<1>5. \A m \in L, e \in Sides : tr.kid[e][m] = pivot => m = l
  BY <1>2, <1>4, ParentFacts
<1> QED BY <1>1, <1>2, <1>3, <1>5

\* The heights of the levels beside a rotation.
LEMMA RotateHeight ==
  ASSUME NEW tr, NEW L, NEW sub, NEW l, NEW d, CanRotate(tr, L, sub, l, d),
         NEW new, IsRotated(tr, l, d, new),
         NEW pivot, pivot = tr.kid[Other(d)][l],
         NEW bh, NEW b2, b2[pivot] = bh[l],
         \A m \in L \union {Nil} : m # l /\ m # pivot => b2[m] = bh[m],
         NEW hx, NEW hd, NEW k \in L, k # l, k # pivot, HeightOK(tr, bh, hx, hd, k)
  PROVE  HeightOK(new, b2, hx, hd, k)
<1>1. /\ TreeOK(tr, L, sub) /\ new.color = tr.color
  BY DEF CanRotate, IsRotated
<1>2. Unit(new, k) = Unit(tr, k) /\ b2[k] = bh[k]
  BY <1>1 DEF Unit
<1>3. \A e \in Sides : /\ tr.kid[e][k] # pivot /\ tr.kid[e][k] \in L \union {Nil}
                       /\ new.kid[e][k] = IF tr.kid[e][k] = l THEN pivot ELSE tr.kid[e][k]
  <2>1. \A e \in Sides : tr.kid[e][k] \in L \union {Nil}
    BY <1>1 DEF TreeOK, BranchOK
  <2> QED BY <2>1, RotateKids
<1>4. \A e \in Sides : b2[new.kid[e][k]] = bh[tr.kid[e][k]]
  BY <1>3
<1> QED BY <1>2, <1>4 DEF HeightOK

-----------------------------------------------------------------------------
(* Restoring the colours after an insertion.                               *)

\* y and its parent p are red, and p is on side d of g.
RedRedAt(tr, L, y, p, g, d, o) ==
  /\ y \in L /\ p \in L /\ g \in L /\ d \in Sides /\ o = Other(d)
  /\ y # p /\ y # g /\ p # g
  /\ tr.kid[d][g] = p /\ p # tr.root
  /\ tr.color[y] = "red" /\ tr.color[p] = "red" /\ tr.color[g] = "black"
  /\ \E e \in Sides : tr.kid[e][p] = y
  /\ \A m \in L, e \in Sides : tr.kid[e][m] = y => m = p
  /\ \A m \in L, e \in Sides : tr.kid[e][m] = p => m = g /\ e = d
  /\ \A m \in L, e \in Sides : RedChild(tr, m, e) => y = tr.kid[e][m]
  /\ ColorOf(tr, tr.root) = "black" /\ tr.root \in L

LEMMA RedPair ==
  ASSUME NEW tr, NEW L, NEW sub, NEW bh, NEW hd, NEW y,
         Shape(tr, L, sub, bh, hd, "inserting", y, Nil),
         y # tr.root, tr.color[tr.parent[y]] = "red"
  PROVE  RedRedAt(tr, L, y, tr.parent[y], tr.parent[tr.parent[y]],
                  SideOf(tr, tr.parent[y]), Other(SideOf(tr, tr.parent[y])))
<1>0. PICK p, g, d : p = tr.parent[y] /\ g = tr.parent[p] /\ d = SideOf(tr, p)
  OBVIOUS
<1>1. /\ TreeOK(tr, L, sub) /\ y \in L /\ tr.color[y] = "red"
      /\ \A m \in L, e \in Sides : RedChild(tr, m, e) => y = tr.kid[e][m]
      /\ ColorOf(tr, tr.root) = "black" /\ tr.root \in L
  BY DEF Shape, ColorsOK, TreeOK
<1>2. /\ p \in L /\ \E e \in Sides : tr.kid[e][p] = y
      /\ \A m \in L, e \in Sides : tr.kid[e][m] = y => m = p
  BY <1>0, <1>1, ParentFacts
<1>3. p # Nil /\ p # tr.root
  BY <1>0, <1>1, <1>2, PriceFacts, KidFacts, SideFacts DEF ColorOf
<1>4. /\ g \in L /\ d \in Sides /\ tr.kid[d][g] = p
      /\ \A m \in L, e \in Sides : tr.kid[e][m] = p => m = g /\ e = d
  BY <1>0, <1>1, <1>2, <1>3, ParentFacts
<1>5. y # p
  BY <1>1, <1>2, KidFacts, PriceFacts, SubFacts
<1>6. tr.color[g] = "black"
  <2>1. tr.color[g] \in Colors
    BY <1>1, <1>4, TreeFields DEF TreeOK
  <2>2. tr.color[g] # "red"
    <3> SUFFICES ASSUME tr.color[g] = "red" PROVE FALSE
      OBVIOUS
    <3>1. RedChild(tr, g, d)
      BY <1>0, <1>3, <1>4 DEF RedChild, ColorOf
    <3> QED BY <1>1, <1>4, <1>5, <3>1
  <2> QED BY <2>1, <2>2 DEF Colors
<1>7. tr.color[p] = "red"
  BY <1>0
<1>8. RedRedAt(tr, L, y, p, g, d, Other(d))
  BY <1>1, <1>2, <1>3, <1>4, <1>5, <1>6, <1>7 DEF RedRedAt
<1> QED BY <1>0, <1>8

\* new is tr with the colour c at l and black at p, and at u unless it is absent.
IsPainted3(tr, p, u, l, c, new) ==
  /\ IsRepainted(tr, new)
  /\ \A m \in Prices : new.color[m] =
       IF m = l THEN c ELSE IF m = u \/ m = p THEN "black" ELSE tr.color[m]

LEMMA Painted3Is ==
  ASSUME NEW tr \in Trees, NEW p \in Maybe, NEW u \in Maybe, NEW l \in Maybe, NEW c \in Colors
  PROVE  IsPainted3(tr, p, u, l, c, Painted(Painted(Painted(tr, p, "black"), u, "black"), l, c))
<1>1. PICK t1, t2, t3 : /\ t1 = Painted(tr, p, "black") /\ t2 = Painted(t1, u, "black")
                        /\ t3 = Painted(t2, l, c)
  OBVIOUS
<1>2. "black" \in Colors
  BY DEF Colors
<1>3. IsPainted(tr, p, "black", t1)
  BY <1>1, <1>2, PaintedIs
<1>4. IsPainted(t1, u, "black", t2)
  <2>1. t1 \in Trees
    BY <1>3 DEF IsPainted
  <2> QED BY <1>1, <1>2, <2>1, PaintedIs
<1>5. IsPainted(t2, l, c, t3)
  <2>1. t2 \in Trees
    BY <1>4 DEF IsPainted
  <2> QED BY <1>1, <2>1, PaintedIs
<1>6. IsPainted3(tr, p, u, l, c, t3)
  BY <1>3, <1>4, <1>5 DEF IsPainted, IsRepainted, IsPainted3
<1> QED BY <1>1, <1>6

\* The parent and the uncle u painted black, and the grandparent red.
CanRecolour(tr, L, sub, bh, hd, y, p, g, d, o, u, new) ==
  /\ Shape(tr, L, sub, bh, hd, "inserting", y, Nil)
  /\ RedRedAt(tr, L, y, p, g, d, o)
  /\ u = tr.kid[o][g] /\ ColorOf(tr, u) = "red"
  /\ IsPainted3(tr, p, u, g, "red", new)

LEMMA Recolour ==
  ASSUME NEW tr, NEW L, NEW sub, NEW bh, NEW hd, NEW y, NEW p, NEW g, NEW d, NEW o, NEW u,
         NEW new, CanRecolour(tr, L, sub, bh, hd, y, p, g, d, o, u, new)
  PROVE  \E b2 : Shape(new, L, sub, b2, hd, "inserting", g, Nil)
<1>1. /\ y \in L /\ p \in L /\ g \in L /\ d \in Sides /\ o \in Sides /\ o # d
      /\ y # p /\ y # g /\ p # g
      /\ tr.kid[d][g] = p
      /\ tr.color[y] = "red" /\ tr.color[p] = "red" /\ tr.color[g] = "black"
      /\ \A m \in L, e \in Sides : tr.kid[e][m] = y => m = p
      /\ \A m \in L, e \in Sides : tr.kid[e][m] = p => m = g /\ e = d
      /\ \A m \in L, e \in Sides : RedChild(tr, m, e) => y = tr.kid[e][m]
      /\ ColorOf(tr, tr.root) = "black" /\ tr.root \in L
      /\ \A e \in Sides : e = d \/ e = o
  BY SideFacts DEF CanRecolour, RedRedAt
<1>2. TreeOK(tr, L, sub) /\ HeightsOK(tr, L, bh, Nil, hd)
  BY DEF Shape, CanRecolour
<1>3. /\ L \subseteq Prices /\ Nil \notin L
      /\ \A m \in L : m \in Maybe /\ tr.color[m] \in Colors
      /\ \A m \in L, e \in Sides : tr.kid[e][m] \in L \union {Nil}
      /\ \A m \in L \union {Nil} : bh[m] \in Nat \ {0}
      /\ Nil \in Maybe /\ bh \in [Maybe -> Nat \ {0}] /\ bh[Nil] = 1
  BY <1>2, ShapeFacts
<1>4. tr.kid[o][g] = u /\ u # Nil /\ tr.color[u] = "red" /\ u \in L
  BY <1>1, <1>3 DEF CanRecolour, ColorOf
<1>5. \A m \in L, e \in Sides : tr.kid[e][m] = u => m = g /\ e = o
  <2>1. /\ \A m \in L, e \in Sides : tr.kid[e][m] = u => m = tr.parent[u] /\ e = SideOf(tr, u)
    BY <1>2, <1>4, ParentFacts
  <2>2. g = tr.parent[u] /\ o = SideOf(tr, u)
    BY <1>1, <1>4, <2>1
  <2> QED BY <2>1, <2>2
<1>6. u # p /\ u # y /\ u # g
  BY <1>1, <1>4
<1>7. /\ IsRepainted(tr, new) /\ new.kid = tr.kid /\ new.root = tr.root
      /\ \A m \in Prices : new.color[m] =
           IF m = g THEN "red" ELSE IF m = u \/ m = p THEN "black" ELSE tr.color[m]
  BY DEF CanRecolour, IsPainted3, IsRepainted
<1>8. TreeOK(new, L, sub)
  BY <1>2, <1>7, PaintTree
<1>9. PICK b2 : b2 = [m \in Maybe |-> IF m = p \/ m = u THEN bh[m] + 1 ELSE bh[m]]
  OBVIOUS
<1>10. /\ b2 \in [Maybe -> Nat \ {0}] /\ b2[Nil] = 1
       /\ \A m \in L \union {Nil} : b2[m] = IF m = p \/ m = u THEN bh[m] + 1 ELSE bh[m]
  <2>1. p # Nil /\ u # Nil /\ \A m \in L \union {Nil} : m \in Maybe
    BY <1>1, <1>3, <1>4
  <2>2. \A m \in Maybe : bh[m] \in Nat \ {0} /\ bh[m] + 1 \in Nat \ {0}
    BY <1>3
  <2> QED BY <1>3, <1>9, <2>1, <2>2
<1>11. \A m \in L, e \in Sides : bh[m] = bh[tr.kid[e][m]] + Unit(tr, m)
  BY <1>2, <1>3, HeightIs
<1>12. \A m \in L : Unit(new, m) = IF m = g THEN 0 ELSE IF m = u \/ m = p THEN 1 ELSE Unit(tr, m)
  BY <1>3, <1>7 DEF Unit
<1>13. ASSUME NEW m \in L, NEW e \in Sides
       PROVE  b2[m] = b2[tr.kid[e][m]] + Unit(new, m)
  <2>1. tr.kid[e][m] \in L \union {Nil} /\ bh[m] = bh[tr.kid[e][m]] + Unit(tr, m)
    BY <1>3, <1>11
  <2>2. CASE m = g
    <3>1. tr.kid[e][m] \in {p, u} /\ Unit(tr, m) = 1 /\ Unit(new, m) = 0
      BY <1>1, <1>4, <1>12, <2>2 DEF Unit
    <3>2. b2[tr.kid[e][m]] = bh[tr.kid[e][m]] + 1 /\ b2[m] = bh[m]
      BY <1>1, <1>6, <1>10, <2>1, <2>2, <3>1
    <3>3. bh[tr.kid[e][m]] \in Nat
      BY <1>3, <2>1
    <3> QED BY <2>1, <3>1, <3>2, <3>3
  <2>3. CASE m # g
    <3>1. tr.kid[e][m] # p /\ tr.kid[e][m] # u
      BY <1>1, <1>5, <2>3
    <3>2. b2[tr.kid[e][m]] = bh[tr.kid[e][m]]
      BY <1>10, <2>1, <3>1
    <3>3. bh[tr.kid[e][m]] \in Nat
      BY <1>3, <2>1
    <3>4. CASE m \in {p, u}
      <4>1. Unit(tr, m) = 0 /\ Unit(new, m) = 1 /\ b2[m] = bh[m] + 1
        BY <1>1, <1>4, <1>10, <1>12, <2>3, <3>4 DEF Unit
      <4> QED BY <2>1, <3>2, <3>3, <4>1
    <3>5. CASE m \notin {p, u}
      BY <1>10, <1>12, <2>1, <2>3, <3>2, <3>5
    <3> QED BY <3>4, <3>5
  <2> QED BY <2>2, <2>3
<1>14. HeightsOK(new, L, b2, Nil, hd)
  <2>1. \A m \in Prices \ L : new.color[m] = "black"
    <3>1. \A m \in Prices \ L : tr.color[m] = "black" /\ m # g
      BY <1>1, <1>2 DEF HeightsOK
    <3> QED BY <1>7, <3>1
  <2>2. \A m \in L : HeightOK(new, b2, Nil, hd, m)
    <3> TAKE m \in L
    <3>1. \A e \in Sides : b2[m] = b2[new.kid[e][m]] + Unit(new, m)
      BY <1>7, <1>13
    <3>2. m # Nil /\ \A e \in Sides : b2[new.kid[e][m]] \in Nat
      BY <1>3, <1>7, <1>10
    <3> QED BY <3>1, <3>2, HeightBy
  <2> QED BY <1>10, <2>1, <2>2 DEF HeightsOK
<1>15. ASSUME NEW m \in L, NEW e \in Sides, RedChild(new, m, e)
       PROVE  g = new.kid[e][m]
  <2> SUFFICES ASSUME tr.kid[e][m] # g PROVE FALSE
    BY <1>7
  <2>1. PICK k : k = tr.kid[e][m]
    OBVIOUS
  <2>2. /\ new.color[m] = "red" /\ k # Nil /\ new.color[k] = "red" /\ k \in L
    BY <1>3, <1>7, <1>15, <2>1 DEF RedChild, ColorOf
  <2>3. k # u /\ k # p /\ tr.color[k] = "red"
    BY <1>3, <1>7, <2>1, <2>2
  <2>4. m # g
    BY <1>1, <1>4, <2>1, <2>3
  <2>5. m # p /\ m # u /\ tr.color[m] = "red"
    BY <1>3, <1>7, <2>2, <2>4
  <2>6. RedChild(tr, m, e)
    BY <2>1, <2>2, <2>3, <2>5 DEF RedChild, ColorOf
  <2> QED BY <1>1, <2>5, <2>6
<1>16. ColorsOK(new, L, "inserting", g, Nil, hd)
  <2>1. new.root # g => ColorOf(new, new.root) = "black"
    <3> SUFFICES ASSUME tr.root # g PROVE new.color[tr.root] = "black"
      BY <1>1, <1>3, <1>7 DEF ColorOf
    <3>1. tr.color[tr.root] = "black"
      BY <1>1, <1>3 DEF ColorOf
    <3> QED BY <1>1, <1>3, <1>7, <3>1
  <2>2. new.color[g] = "red"
    BY <1>1, <1>3, <1>7
  <2> QED BY <1>1, <1>15, <2>1, <2>2 DEF ColorsOK
<1> QED BY <1>8, <1>14, <1>16 DEF Shape

\* The parent black and the grandparent red, which is rotated away from y.
CanLift(tr, L, sub, bh, hd, y, p, g, d, o, mid, new) ==
  /\ Shape(tr, L, sub, bh, hd, "inserting", y, Nil)
  /\ RedRedAt(tr, L, y, p, g, d, o)
  /\ tr.kid[d][p] = y /\ ColorOf(tr, tr.kid[o][g]) = "black"
  /\ IsPainted3(tr, p, Nil, g, "red", mid)
  /\ IsRotated(mid, g, o, new)

LEMMA OuterLift ==
  ASSUME NEW tr, NEW L, NEW sub, NEW bh, NEW hd, NEW y, NEW p, NEW g, NEW d, NEW o,
         NEW mid, NEW new, CanLift(tr, L, sub, bh, hd, y, p, g, d, o, mid, new)
  PROVE  \E s2, b2 : Shape(new, L, s2, b2, hd, "inserting", y, Nil)
<1>1. /\ y \in L /\ p \in L /\ g \in L /\ d \in Sides /\ o \in Sides /\ o # d /\ d = Other(o)
      /\ y # p /\ y # g /\ p # g
      /\ tr.kid[d][g] = p /\ tr.kid[d][p] = y
      /\ tr.color[y] = "red" /\ tr.color[p] = "red" /\ tr.color[g] = "black"
      /\ \A m \in L, e \in Sides : tr.kid[e][m] = y => m = p
      /\ \A m \in L, e \in Sides : tr.kid[e][m] = p => m = g /\ e = d
      /\ \A m \in L, e \in Sides : RedChild(tr, m, e) => y = tr.kid[e][m]
      /\ ColorOf(tr, tr.root) = "black" /\ tr.root \in L
      /\ \A e \in Sides : e = d \/ e = o
  BY SideFacts DEF CanLift, RedRedAt
<1>2. TreeOK(tr, L, sub) /\ HeightsOK(tr, L, bh, Nil, hd)
  BY DEF Shape, CanLift
<1>3. /\ L \subseteq Prices /\ Nil \notin L
      /\ \A m \in L : m \in Maybe /\ tr.color[m] \in Colors
      /\ \A m \in L, e \in Sides : tr.kid[e][m] \in L \union {Nil}
      /\ \A m \in L \union {Nil} : bh[m] \in Nat \ {0}
      /\ Nil \in Maybe /\ bh \in [Maybe -> Nat \ {0}] /\ bh[Nil] = 1
  BY <1>2, ShapeFacts
<1>4. /\ IsRepainted(tr, mid) /\ mid.kid = tr.kid /\ mid.root = tr.root
      /\ \A m \in L : mid.color[m] =
           IF m = g THEN "red" ELSE IF m = p THEN "black" ELSE tr.color[m]
      /\ \A m \in Prices \ L : mid.color[m] = tr.color[m]
  <2>1. /\ IsRepainted(tr, mid)
        /\ \A m \in Prices : mid.color[m] =
             IF m = g THEN "red" ELSE IF m = Nil \/ m = p THEN "black" ELSE tr.color[m]
    BY DEF CanLift, IsPainted3
  <2>2. mid.kid = tr.kid /\ mid.root = tr.root
    BY <2>1 DEF IsRepainted
  <2>3. \A m \in Prices : m # Nil
    BY PriceFacts
  <2> QED BY <1>1, <1>3, <2>1, <2>2, <2>3
<1>5. TreeOK(mid, L, sub)
  BY <1>2, <1>4, PaintTree
<1>6. CanRotate(mid, L, sub, g, o) /\ IsRotated(mid, g, o, new)
  BY <1>1, <1>3, <1>4, <1>5 DEF CanRotate, CanLift
<1>7. PICK s2 : s2 = RotSub(mid, sub, g, o) /\ TreeOK(new, L, s2)
  BY <1>6, RotateTree
<1>8. PICK u, i : u = tr.kid[o][g] /\ i = tr.kid[o][p]
  OBVIOUS
<1>9. /\ new.kid[o][g] = u /\ new.kid[d][g] = i
      /\ new.kid[o][p] = g /\ new.kid[d][p] = y
      /\ \A m \in L, e \in Sides : m # g /\ m # p =>
           /\ tr.kid[e][m] # p
           /\ new.kid[e][m] = IF tr.kid[e][m] = g THEN p ELSE tr.kid[e][m]
  <2>1. p = mid.kid[d][g] /\ d = Other(o)
    BY <1>1, <1>4
  <2>2. /\ new.kid[o][g] = mid.kid[o][g] /\ new.kid[d][g] = mid.kid[o][p]
        /\ new.kid[o][p] = g /\ new.kid[d][p] = mid.kid[d][p]
        /\ \A m \in L, e \in Sides : m # g /\ m # p =>
             /\ mid.kid[e][m] # p
             /\ new.kid[e][m] = IF mid.kid[e][m] = g THEN p ELSE mid.kid[e][m]
    BY <1>6, <2>1, RotateKids
  <2> QED BY <1>1, <1>4, <1>8, <2>2
<1>10. /\ u \in L \union {Nil} /\ u # g /\ u # p
       /\ i \in L \union {Nil} /\ i # g /\ i # p /\ i # y
  <2>1. u \in L \union {Nil} /\ i \in L \union {Nil}
    BY <1>1, <1>3, <1>8
  <2>2. u # p /\ i # p
    BY <1>1, <1>8, <2>1
  <2>3. u # g
    <3>1. tr.kid[o][g] # Nil => tr.kid[o][g] # g
      BY <1>1, <1>2, KidFacts
    <3> QED BY <1>1, <1>3, <1>8, <3>1
  <2>4. i # y
    <3>1. tr.kid[d][p] # Nil => tr.kid[d][p] # tr.kid[Other(d)][p]
      BY <1>1, <1>2, KidFacts
    <3> QED BY <1>1, <1>3, <1>8, <3>1, SideFacts
  <2>5. i # g
    <3>1. p = mid.kid[d][g] /\ i = mid.kid[o][p]
      BY <1>1, <1>4, <1>8
    <3> QED BY <1>1, <1>6, <3>1, RotateParts
  <2> QED BY <2>1, <2>2, <2>3, <2>4, <2>5
<1>11. PICK b2 : b2 = [m \in Maybe |-> IF m = g THEN bh[p] ELSE IF m = p THEN bh[g] ELSE bh[m]]
  OBVIOUS
<1>12. /\ b2 \in [Maybe -> Nat \ {0}] /\ b2[Nil] = 1
       /\ b2[g] = bh[p] /\ b2[p] = bh[g]
       /\ \A m \in L \union {Nil} : m # g /\ m # p => b2[m] = bh[m]
  BY <1>1, <1>3, <1>11
<1>13. \A m \in L, e \in Sides : bh[m] = bh[tr.kid[e][m]] + Unit(tr, m)
  BY <1>2, <1>3, HeightIs
<1>14. \A m \in L : Unit(new, m) = IF m = g THEN 0 ELSE IF m = p THEN 1 ELSE Unit(tr, m)
  BY <1>3, <1>4, <1>6 DEF Unit, IsRotated
<1>15. bh[g] = bh[p] + 1 /\ bh[g] = bh[u] + 1 /\ bh[p] = bh[i] /\ bh[p] = bh[y]
  <2>1. Unit(tr, g) = 1 /\ Unit(tr, p) = 0
    BY <1>1 DEF Unit
  <2>2. /\ bh[g] = bh[p] + 1 /\ bh[g] = bh[u] + 1
        /\ bh[p] = bh[i] + 0 /\ bh[p] = bh[y] + 0
    BY <1>1, <1>8, <1>13, <2>1
  <2> QED BY <1>1, <1>3, <1>10, <2>2
<1>16. ASSUME NEW m \in L PROVE HeightOK(new, b2, Nil, hd, m)
  <2>1. CASE m # g /\ m # p
    <3>1. HeightOK(mid, bh, Nil, hd, m)
      <4>1. HeightOK(tr, bh, Nil, hd, m)
        BY <1>2 DEF HeightsOK
      <4>2. Unit(mid, m) = Unit(tr, m)
        BY <1>4, <2>1 DEF Unit
      <4> QED BY <1>4, <4>1, <4>2 DEF HeightOK
    <3>2. p = mid.kid[Other(o)][g]
      BY <1>1, <1>4
    <3> QED BY <1>6, <1>12, <2>1, <3>1, <3>2, RotateHeight
  <2>2. ASSUME NEW e \in Sides, m = g \/ m = p
        PROVE  b2[new.kid[e][m]] \in Nat /\ b2[m] = b2[new.kid[e][m]] + Unit(new, m)
    <3>1. /\ b2[u] = bh[p] /\ b2[i] = bh[p] /\ b2[y] = bh[p] /\ bh[p] \in Nat /\ bh[g] \in Nat
          /\ bh[u] = bh[p]
      <4>1. bh[p] \in Nat /\ bh[g] \in Nat /\ bh[u] \in Nat
        BY <1>1, <1>3, <1>10
      <4>2. b2[u] = bh[u] /\ b2[i] = bh[i] /\ b2[y] = bh[y]
        BY <1>1, <1>10, <1>12
      <4>3. bh[u] = bh[p] /\ bh[i] = bh[p] /\ bh[y] = bh[p]
        BY <1>15, <4>1
      <4> QED BY <4>1, <4>2, <4>3
    <3>2. CASE m = g
      <4>1. Unit(new, m) = 0 /\ b2[m] = bh[p] /\ new.kid[e][m] \in {u, i}
        BY <1>1, <1>9, <1>12, <1>14, <3>2
      <4> QED BY <3>1, <4>1
    <3>3. CASE m = p
      <4>1. Unit(new, m) = 1 /\ b2[m] = bh[p] + 1 /\ new.kid[e][m] \in {y, g}
        BY <1>1, <1>9, <1>12, <1>14, <1>15, <3>3
      <4> QED BY <1>12, <3>1, <4>1
    <3> QED BY <2>2, <3>2, <3>3
  <2>3. CASE m = g \/ m = p
    <3>1. m # Nil
      BY <1>3
    <3> QED BY <2>2, <2>3, <3>1, HeightBy
  <2> QED BY <2>1, <2>3
<1>17. HeightsOK(new, L, b2, Nil, hd)
  <2>1. \A m \in Prices \ L : new.color[m] = "black"
    BY <1>2, <1>4, <1>6 DEF HeightsOK, IsRotated
  <2> QED BY <1>12, <1>16, <2>1 DEF HeightsOK
<1>18. \A m \in L : new.color[m] =
         IF m = g THEN "red" ELSE IF m = p THEN "black" ELSE tr.color[m]
  BY <1>4, <1>6 DEF IsRotated
<1>19. ASSUME NEW m \in L, NEW e \in Sides, RedChild(new, m, e)
       PROVE  FALSE
  <2>1. PICK k : k = new.kid[e][m]
    OBVIOUS
  <2>2. k \in L \union {Nil}
    BY <1>7, <2>1 DEF TreeOK, BranchOK
  <2>3. new.color[m] = "red" /\ k # Nil /\ new.color[k] = "red" /\ k \in L
    BY <1>19, <2>1, <2>2 DEF RedChild, ColorOf
  <2>4. k # p /\ m # p
    BY <1>1, <1>18, <2>3
  <2>5. CASE m = g
    <3>1. k \in {u, i}
      BY <1>1, <1>9, <2>1, <2>5
    <3>2. tr.color[k] = "red"
      BY <1>1, <1>10, <1>18, <2>3, <3>1
    <3>3. k # u
      <4>1. ColorOf(tr, u) = "black"
        BY <1>8 DEF CanLift
      <4> QED BY <2>3, <3>2, <4>1 DEF ColorOf
    <3>4. RedChild(tr, p, o)
      BY <1>1, <1>8, <2>3, <3>1, <3>2, <3>3 DEF RedChild, ColorOf
    <3> QED BY <1>1, <1>8, <1>10, <3>4
  <2>6. CASE m # g
    <3>1. k = tr.kid[e][m] /\ k # g
      BY <1>1, <1>9, <2>1, <2>4, <2>6
    <3>2. tr.color[m] = "red" /\ tr.color[k] = "red"
      BY <1>18, <2>3, <2>4, <2>6, <3>1
    <3>3. RedChild(tr, m, e)
      BY <2>3, <3>1, <3>2 DEF RedChild, ColorOf
    <3> QED BY <1>1, <2>4, <3>1, <3>3
  <2> QED BY <2>5, <2>6
<1>20. ColorsOK(new, L, "inserting", y, Nil, hd)
  <2>1. new.root = IF g = tr.root THEN p ELSE tr.root
    <3>1. p = mid.kid[Other(o)][g]
      BY <1>1, <1>4
    <3> QED BY <1>4, <1>6, <3>1 DEF IsRotated
  <2>2. ColorOf(new, new.root) = "black"
    <3>1. CASE g = tr.root
      BY <1>1, <1>3, <1>18, <2>1, <3>1 DEF ColorOf
    <3>2. CASE g # tr.root
      <4>1. tr.color[tr.root] = "black"
        BY <1>1, <1>3 DEF ColorOf
      <4>2. new.color[tr.root] = "black"
        BY <1>1, <1>18, <3>2, <4>1
      <4> QED BY <2>1, <3>2, <4>2 DEF ColorOf
    <3> QED BY <3>1, <3>2
  <2>3. new.color[y] = "red"
    BY <1>1, <1>18
  <2> QED BY <1>1, <1>19, <2>2, <2>3 DEF ColorsOK
<1> QED BY <1>7, <1>17, <1>20 DEF Shape

\* The parent rotated down, y above it on the outside.
CanTurn(tr, L, sub, bh, hd, y, p, g, d, o, new) ==
  /\ Shape(tr, L, sub, bh, hd, "inserting", y, Nil)
  /\ RedRedAt(tr, L, y, p, g, d, o)
  /\ tr.kid[d][p] # y
  /\ IsRotated(tr, p, d, new)

LEMMA InnerTurn ==
  ASSUME NEW tr, NEW L, NEW sub, NEW bh, NEW hd, NEW y, NEW p, NEW g, NEW d, NEW o,
         NEW new, CanTurn(tr, L, sub, bh, hd, y, p, g, d, o, new)
  PROVE  /\ CanRotate(tr, L, sub, p, d)
         /\ Shape(new, L, RotSub(tr, sub, p, d), bh, hd, "inserting", p, Nil)
         /\ RedRedAt(new, L, p, y, g, d, o)
         /\ new.kid[d][y] = p /\ new.kid[o][g] = tr.kid[o][g]
         /\ new.color = tr.color
<1>1. /\ y \in L /\ p \in L /\ g \in L /\ d \in Sides /\ o \in Sides /\ o # d /\ o = Other(d)
      /\ y # p /\ y # g /\ p # g
      /\ tr.kid[d][g] = p /\ p # tr.root /\ tr.kid[o][p] = y /\ tr.kid[d][p] # y
      /\ tr.color[y] = "red" /\ tr.color[p] = "red" /\ tr.color[g] = "black"
      /\ \A m \in L, e \in Sides : tr.kid[e][m] = y => m = p
      /\ \A m \in L, e \in Sides : tr.kid[e][m] = p => m = g /\ e = d
      /\ \A m \in L, e \in Sides : RedChild(tr, m, e) => y = tr.kid[e][m]
      /\ ColorOf(tr, tr.root) = "black" /\ tr.root \in L
      /\ \A e \in Sides : e = d \/ e = o
  BY SideFacts DEF CanTurn, RedRedAt
<1>2. TreeOK(tr, L, sub) /\ HeightsOK(tr, L, bh, Nil, hd)
  BY DEF Shape, CanTurn
<1>3. /\ L \subseteq Prices /\ Nil \notin L
      /\ \A m \in L : m \in Maybe
      /\ \A m \in L, e \in Sides : tr.kid[e][m] \in L \union {Nil}
      /\ \A m \in L \union {Nil} : bh[m] \in Nat \ {0}
      /\ Nil \in Maybe /\ bh \in [Maybe -> Nat \ {0}] /\ bh[Nil] = 1
  BY <1>2, ShapeFacts
<1>4. CanRotate(tr, L, sub, p, d) /\ IsRotated(tr, p, d, new)
  BY <1>1, <1>2, <1>3 DEF CanRotate, CanTurn
<1>5. PICK s2 : s2 = RotSub(tr, sub, p, d) /\ TreeOK(new, L, s2)
  BY <1>4, RotateTree
<1>6. /\ new.kid[d][p] = tr.kid[d][p] /\ new.kid[o][p] = tr.kid[d][y]
      /\ new.kid[d][y] = p /\ new.kid[o][y] = tr.kid[o][y]
      /\ \A m \in L, e \in Sides : m # p /\ m # y =>
           /\ tr.kid[e][m] # y
           /\ new.kid[e][m] = IF tr.kid[e][m] = p THEN y ELSE tr.kid[e][m]
  BY <1>1, <1>4, RotateKids
<1>7. new.color = tr.color /\ new.root = tr.root
  BY <1>1, <1>4 DEF IsRotated
<1>8. \A m \in L, e \in Sides : bh[m] = bh[tr.kid[e][m]] + Unit(tr, m)
  BY <1>2, <1>3, HeightIs
<1>9. bh[y] = bh[p] /\ Unit(tr, y) = 0 /\ Unit(tr, p) = 0
  <2>1. Unit(tr, y) = 0 /\ Unit(tr, p) = 0
    BY <1>1 DEF Unit
  <2>2. bh[p] = bh[y] + Unit(tr, p)
    BY <1>1, <1>8
  <2> QED BY <1>1, <1>3, <2>1, <2>2
<1>10. ASSUME NEW m \in L PROVE HeightOK(new, bh, Nil, hd, m)
  <2>1. CASE m # p /\ m # y
    <3>1. HeightOK(tr, bh, Nil, hd, m)
      BY <1>2 DEF HeightsOK
    <3>2. y = tr.kid[Other(d)][p]
      BY <1>1
    <3> QED BY <1>4, <1>9, <2>1, <3>1, <3>2, RotateHeight
  <2>2. ASSUME NEW e \in Sides, m = p \/ m = y
        PROVE  bh[new.kid[e][m]] \in Nat /\ bh[m] = bh[new.kid[e][m]] + Unit(new, m)
    <3>1. Unit(new, m) = 0
      BY <1>7, <1>9, <2>2 DEF Unit
    <3>2. \A f \in Sides : /\ bh[p] = bh[tr.kid[f][p]] + 0 /\ bh[y] = bh[tr.kid[f][y]] + 0
                           /\ bh[tr.kid[f][p]] \in Nat /\ bh[tr.kid[f][y]] \in Nat
      BY <1>1, <1>3, <1>8, <1>9
    <3>3. bh[p] \in Nat
      BY <1>1, <1>3
    <3> QED BY <1>1, <1>6, <1>9, <2>2, <3>1, <3>2, <3>3
  <2>3. CASE m = p \/ m = y
    <3>1. m # Nil
      BY <1>3
    <3> QED BY <2>2, <2>3, <3>1, HeightBy
  <2> QED BY <2>1, <2>3
<1>11. HeightsOK(new, L, bh, Nil, hd)
  BY <1>2, <1>7, <1>10 DEF HeightsOK
<1>12. ASSUME NEW m \in L, NEW e \in Sides, RedChild(new, m, e)
       PROVE  p = new.kid[e][m]
  <2> SUFFICES ASSUME new.kid[e][m] # p PROVE FALSE
    OBVIOUS
  <2>1. PICK k : k = new.kid[e][m]
    OBVIOUS
  <2>2. tr.color[m] = "red" /\ k # Nil /\ tr.color[k] = "red" /\ k # p
    BY <1>7, <1>12, <2>1 DEF RedChild, ColorOf
  <2>3. \A n \in L, f \in Sides : tr.color[n] = "red" /\ tr.kid[f][n] = k => k = y /\ n = p
    <3> SUFFICES ASSUME NEW n \in L, NEW f \in Sides, tr.color[n] = "red", tr.kid[f][n] = k
                 PROVE  k = y /\ n = p
      OBVIOUS
    <3>1. RedChild(tr, n, f)
      BY <2>2 DEF RedChild, ColorOf
    <3> QED BY <1>1, <3>1
  <2>4. CASE m = y
    <3>1. e = o /\ k = tr.kid[o][y]
      BY <1>1, <1>6, <2>1, <2>2, <2>4
    <3> QED BY <1>1, <2>3, <3>1
  <2>5. CASE m = p /\ e = d
    <3>1. k = tr.kid[d][p]
      BY <1>6, <2>1, <2>5
    <3> QED BY <1>1, <2>3, <3>1
  <2>6. CASE m = p /\ e = o
    <3>1. k = tr.kid[d][y]
      BY <1>6, <2>1, <2>6
    <3> QED BY <1>1, <2>3, <3>1
  <2>7. CASE m # p /\ m # y
    <3>1. m # g
      BY <1>1, <2>2
    <3>2. k = tr.kid[e][m]
      BY <1>1, <1>6, <2>1, <2>7, <3>1
    <3> QED BY <2>2, <2>3, <2>7, <3>2
  <2> QED BY <1>1, <2>4, <2>5, <2>6, <2>7
<1>13. new.root # p /\ new.root # y /\ ColorOf(new, new.root) = "black"
  <2>1. y # tr.root
    <3>1. tr.kid[o][p] # Nil => tr.kid[o][p] # tr.root
      BY <1>1, <1>2, KidFacts
    <3> QED BY <1>1, <1>3, <3>1
  <2> QED BY <1>1, <1>7, <2>1 DEF ColorOf
<1>14. ColorsOK(new, L, "inserting", p, Nil, hd)
  BY <1>1, <1>7, <1>12, <1>13 DEF ColorsOK
<1>15. new.kid[d][g] = y /\ new.kid[o][g] = tr.kid[o][g]
  <2>1. tr.kid[o][g] # p
    BY <1>1
  <2> QED BY <1>1, <1>6, <2>1
<1>16. \A m \in L, e \in Sides : new.kid[e][m] = p => m = y
  <2>1. \A m \in L, e \in Sides : new.kid[e][m] = p => m = new.parent[p]
    BY <1>1, <1>5, ParentFacts
  <2> QED BY <1>1, <1>6, <2>1
<1>17. \A m \in L, e \in Sides : new.kid[e][m] = y => m = g /\ e = d
  <2>1. \A m \in L, e \in Sides : new.kid[e][m] = y => m = new.parent[y] /\ e = SideOf(new, y)
    BY <1>1, <1>5, ParentFacts
  <2> QED BY <1>1, <1>15, <2>1
<1>18. RedRedAt(new, L, p, y, g, d, o)
  BY <1>1, <1>6, <1>7, <1>12, <1>13, <1>15, <1>16, <1>17 DEF RedRedAt
<1> QED BY <1>4, <1>5, <1>6, <1>7, <1>11, <1>14, <1>15, <1>18 DEF Shape

\* A red level painted black makes up for the black level its side is short of.
CanBlacken(tr, L, sub, bh, hx, hd, c, new) ==
  /\ TreeOK(tr, L, sub) /\ HeightsOK(tr, L, bh, hx, hd)
  /\ c \in L /\ tr.color[c] = "red"
  /\ \A m \in L, e \in Sides : tr.kid[e][m] = c <=> m = hx /\ e = hd
  /\ IsPainted(tr, c, "black", new)

LEMMA Blacken ==
  ASSUME NEW tr, NEW L, NEW sub, NEW bh, NEW hx, NEW hd, NEW c, NEW new,
         CanBlacken(tr, L, sub, bh, hx, hd, c, new), NEW h2
  PROVE  \E b2 : HeightsOK(new, L, b2, Nil, h2)
<1>1. /\ TreeOK(tr, L, sub) /\ HeightsOK(tr, L, bh, hx, hd) /\ c \in L
      /\ \A m \in L, e \in Sides : tr.kid[e][m] = c <=> m = hx /\ e = hd
      /\ new.kid = tr.kid
      /\ \A m \in Prices : new.color[m] = IF m = c THEN "black" ELSE tr.color[m]
  BY DEF CanBlacken, IsPainted
<1>2. /\ L \subseteq Prices /\ Nil \notin L
      /\ \A m \in L : m \in Maybe
      /\ \A m \in L, e \in Sides : tr.kid[e][m] \in L \union {Nil}
      /\ \A m \in L \union {Nil} : bh[m] \in Nat \ {0}
      /\ Nil \in Maybe /\ bh \in [Maybe -> Nat \ {0}] /\ bh[Nil] = 1
  BY <1>1, ShapeFacts
<1>3. PICK b2 : b2 = [m \in Maybe |-> IF m = c THEN bh[m] + 1 ELSE bh[m]]
  OBVIOUS
<1>4. /\ b2 \in [Maybe -> Nat \ {0}] /\ b2[Nil] = 1
      /\ \A m \in L \union {Nil} : b2[m] = IF m = c THEN bh[m] + 1 ELSE bh[m]
  <2>1. c # Nil /\ \A m \in L \union {Nil} : m \in Maybe
    BY <1>1, <1>2
  <2>2. \A m \in Maybe : bh[m] \in Nat \ {0} /\ bh[m] + 1 \in Nat \ {0}
    BY <1>2
  <2> QED BY <1>2, <1>3, <2>1, <2>2
<1>5. \A m \in L : Unit(new, m) = IF m = c THEN 1 ELSE Unit(tr, m)
  BY <1>1, <1>2 DEF Unit
<1>6. Unit(tr, c) = 0
  BY DEF CanBlacken, Unit
<1>7. ASSUME NEW m \in L, NEW e \in Sides
      PROVE  b2[new.kid[e][m]] \in Nat /\ b2[m] = b2[new.kid[e][m]] + Unit(new, m)
  <2>1. PICK k : k = tr.kid[e][m] /\ k = new.kid[e][m] /\ k \in L \union {Nil}
    BY <1>1, <1>2
  <2>2. /\ ~ (m = hx /\ e = hd) => bh[m] = bh[k] + Unit(tr, m)
        /\ m = hx /\ e = hd => bh[m] = bh[k] + Unit(tr, m) + 1
        /\ bh[m] \in Nat /\ bh[k] \in Nat /\ Unit(tr, m) \in {0, 1}
    BY <1>1, <2>1, HeightIs
  <2>3. k = c <=> m = hx /\ e = hd
    BY <1>1, <2>1
  <2>4. k = c => m # c
    <3>1. tr.kid[e][m] # Nil => tr.kid[e][m] # m
      BY <1>1, KidFacts
    <3> QED BY <1>1, <1>2, <2>1, <3>1
  <2>5. /\ b2[k] = IF k = c THEN bh[k] + 1 ELSE bh[k]
        /\ b2[m] = IF m = c THEN bh[m] + 1 ELSE bh[m]
        /\ Unit(new, m) = IF m = c THEN 1 ELSE Unit(tr, m)
    BY <1>4, <1>5, <2>1
  <2>6. b2[k] \in Nat /\ b2[m] = b2[k] + Unit(new, m)
    <3>1. CASE k = c
      BY <2>2, <2>3, <2>4, <2>5, <3>1
    <3>2. CASE k # c /\ m = c
      BY <1>6, <2>2, <2>3, <2>5, <3>2
    <3>3. CASE k # c /\ m # c
      BY <2>2, <2>3, <2>5, <3>3
    <3> QED BY <3>1, <3>2, <3>3
  <2> QED BY <2>1, <2>6
<1>8. \A m \in L : HeightOK(new, b2, Nil, h2, m)
  <2> TAKE m \in L
  <2>1. m # Nil
    BY <1>2
  <2> QED BY <1>7, <2>1, HeightBy
<1>9. \A m \in Prices \ L : new.color[m] = "black"
  BY <1>1 DEF HeightsOK
<1>10. HeightsOK(new, L, b2, Nil, h2)
  BY <1>4, <1>8, <1>9 DEF HeightsOK
<1> QED BY <1>10

\* The root may always be painted black.
LEMMA BlackRoot ==
  ASSUME NEW tr, NEW L, NEW sub, TreeOK(tr, L, sub), NEW bh, NEW hd,
         HeightsOK(tr, L, bh, Nil, hd), NEW new, IsPainted(tr, tr.root, "black", new)
  PROVE  \E b2 : HeightsOK(new, L, b2, Nil, hd)
<1>1. /\ L \subseteq Prices /\ Nil \notin L /\ \A m \in L : tr.color[m] \in Colors
      /\ tr.root \in L \union {Nil} /\ Nil \notin Prices
  BY ShapeFacts DEF TreeOK
<1>2. CASE tr.root \in L /\ tr.color[tr.root] = "red"
  <2>1. \A m \in L, e \in Sides : tr.kid[e][m] # tr.root /\ m # Nil
    BY <1>1, <1>2, ParentFacts
  <2>2. CanBlacken(tr, L, sub, bh, Nil, hd, tr.root, new)
    BY <1>2, <2>1 DEF CanBlacken
  <2> QED BY <2>2, Blacken
<1>3. CASE ~ (tr.root \in L /\ tr.color[tr.root] = "red")
  <2>1. new.kid = tr.kid /\ \A m \in Prices : new.color[m] = tr.color[m]
    BY <1>1, <1>3 DEF IsPainted, Colors
  <2>2. \A m \in L : HeightOK(tr, bh, Nil, hd, m) => HeightOK(new, bh, Nil, hd, m)
    BY <1>1, <2>1 DEF HeightOK, Unit
  <2>3. HeightsOK(new, L, bh, Nil, hd)
    BY <2>1, <2>2 DEF HeightsOK
  <2> QED BY <2>3
<1> QED BY <1>2, <1>3

\* The loop of an insertion ends.
LEMMA Settle ==
  ASSUME NEW tr, NEW L, NEW sub, NEW bh, NEW hd, NEW y,
         Shape(tr, L, sub, bh, hd, "inserting", y, Nil),
         ~ (y # tr.root /\ tr.color[tr.parent[y]] = "red"),
         NEW new, IsPainted(tr, tr.root, "black", new)
  PROVE  \E b2 : Shape(new, L, sub, b2, hd, "idle", Nil, Nil)
<1>1. /\ TreeOK(tr, L, sub) /\ HeightsOK(tr, L, bh, Nil, hd)
      /\ y \in L /\ tr.color[y] = "red" /\ L \subseteq Prices /\ tr.root \in L
      /\ \A m \in L, e \in Sides : RedChild(tr, m, e) => y = tr.kid[e][m]
      /\ Nil \notin L
  BY ShapeFacts DEF Shape, ColorsOK, TreeOK
<1>2. TreeOK(new, L, sub)
  BY <1>1, PaintTree DEF IsPainted, IsRepainted
<1>3. PICK b2 : HeightsOK(new, L, b2, Nil, hd)
  BY <1>1, BlackRoot
<1>4. /\ new.root = tr.root /\ new.kid = tr.kid
      /\ \A m \in L : new.color[m] = IF m = tr.root THEN "black" ELSE tr.color[m]
  BY <1>1 DEF IsPainted
<1>5. ASSUME NEW m \in L, NEW e \in Sides, RedChild(new, m, e)
      PROVE  FALSE
  <2>1. PICK k : k = tr.kid[e][m]
    OBVIOUS
  <2>2. k \in L \union {Nil}
    BY <1>1, <2>1 DEF TreeOK, BranchOK
  <2>3. new.color[m] = "red" /\ k # Nil /\ new.color[k] = "red" /\ k \in L
    BY <1>4, <1>5, <2>1, <2>2 DEF RedChild, ColorOf
  <2>4. m # tr.root /\ tr.color[m] = "red" /\ tr.color[k] = "red"
    BY <1>4, <2>3
  <2>5. RedChild(tr, m, e)
    BY <2>1, <2>3, <2>4 DEF RedChild, ColorOf
  <2>6. k = y /\ m = tr.parent[y] /\ y # tr.root
    <3>1. k = y
      BY <1>1, <2>1, <2>5
    <3>2. tr.kid[e][m] = y => m = tr.parent[y] /\ y # tr.root
      BY <1>1, ParentFacts
    <3> QED BY <2>1, <3>1, <3>2
  <2> QED BY <2>4, <2>6
<1>6. ColorOf(new, new.root) = "black"
  BY <1>1, <1>4 DEF ColorOf
<1>7. ColorsOK(new, L, "idle", Nil, Nil, hd)
  BY <1>5, <1>6 DEF ColorsOK
<1> QED BY <1>2, <1>3, <1>7 DEF Shape

\* A new level enters the tree as a red leaf.
LEMMA Sprout ==
  ASSUME NEW tr, NEW L, NEW sub, NEW bh, NEW hd,
         Shape(tr, L, sub, bh, hd, "idle", Nil, Nil),
         NEW p, NEW q, NEW d, CanHang(tr, L, sub, p, q, d),
         NEW new, IsHung(tr, p, q, d, new)
  PROVE  \E s2, b2 : Shape(new, L \union {p}, s2, b2, hd, "inserting", p, Nil)
<1>1. PICK K, s2 : K = L \union {p} /\ s2 = HungSub(sub, L, p, q)
  OBVIOUS
<1>2. TreeOK(new, K, s2)
  BY <1>1, HangTree
<1>3. /\ TreeOK(tr, L, sub) /\ HeightsOK(tr, L, bh, Nil, hd)
      /\ p \in Prices /\ p \notin L /\ q \in L /\ d \in Sides /\ tr.kid[d][q] = Nil
      /\ \A m \in L, e \in Sides : ~ RedChild(tr, m, e)
      /\ ColorOf(tr, tr.root) = "black" /\ tr.root \in L
  BY DEF CanHang, Shape, ColorsOK, TreeOK
<1>4. /\ L \subseteq Prices /\ Nil \notin L /\ p # Nil /\ p \in Maybe
      /\ \A m \in L : m \in Maybe
      /\ \A m \in L, e \in Sides : tr.kid[e][m] \in L \union {Nil}
      /\ \A m \in L \union {Nil} : bh[m] \in Nat \ {0}
      /\ Nil \in Maybe /\ bh \in [Maybe -> Nat \ {0}] /\ bh[Nil] = 1
  BY <1>3, ShapeFacts
<1>5. /\ new.root = tr.root
      /\ \A e \in Sides, m \in L : new.kid[e][m] =
           IF e = d /\ m = q THEN p ELSE tr.kid[e][m]
      /\ \A e \in Sides : new.kid[e][p] = Nil
      /\ \A m \in L : new.color[m] = tr.color[m]
      /\ new.color[p] = "red"
      /\ \A m \in Prices \ K : new.color[m] = "black"
  <2>1. \A e \in Sides : tr.kid[e][p] = Nil
    BY <1>3 DEF TreeOK, Sides
  <2>2. /\ new.root = tr.root
        /\ \A e \in Sides, m \in Prices : new.kid[e][m] =
             IF e = d /\ m = q THEN p ELSE tr.kid[e][m]
        /\ \A m \in Prices : new.color[m] = IF m = p THEN "red" ELSE tr.color[m]
    BY DEF IsHung
  <2>3. \A m \in Prices \ L : tr.color[m] = "black"
    BY <1>3 DEF HeightsOK
  <2> QED BY <1>1, <1>3, <1>4, <2>1, <2>2, <2>3
<1>6. PICK b2 : b2 = [m \in Maybe |-> IF m = p THEN 1 ELSE bh[m]]
  OBVIOUS
<1>7. /\ b2 \in [Maybe -> Nat \ {0}] /\ b2[Nil] = 1 /\ b2[p] = 1
      /\ \A m \in L : b2[m] = bh[m]
  BY <1>3, <1>4, <1>6
<1>8. ASSUME NEW m \in K PROVE HeightOK(new, b2, Nil, hd, m)
  <2>1. CASE m = p
    <3>1. /\ \A e \in Sides : new.kid[e][m] = Nil
          /\ Unit(new, m) = 0
      BY <1>5, <2>1 DEF Unit
    <3>2. m # Nil
      BY <1>4, <2>1
    <3> QED BY <1>7, <2>1, <3>1, <3>2, HeightBy
  <2>2. CASE m # p
    <3>1. m \in L /\ m # Nil /\ Unit(new, m) = Unit(tr, m)
      BY <1>1, <1>4, <1>5, <2>2 DEF Unit
    <3>2. ASSUME NEW e \in Sides
          PROVE  b2[new.kid[e][m]] \in Nat /\ b2[m] = b2[new.kid[e][m]] + Unit(new, m)
      <4>1. PICK k : k = tr.kid[e][m] /\ k \in L \union {Nil}
        BY <1>4, <3>1
      <4>2. bh[m] = bh[k] + Unit(tr, m) /\ bh[k] \in Nat
        BY <1>3, <3>1, <4>1, HeightIs
      <4>3. b2[new.kid[e][m]] = bh[k]
        <5>1. CASE e = d /\ m = q
          BY <1>3, <1>4, <1>5, <1>7, <4>1, <5>1
        <5>2. CASE ~ (e = d /\ m = q)
          <6>1. new.kid[e][m] = k
            BY <1>5, <3>1, <4>1, <5>2
          <6> QED BY <1>4, <1>7, <4>1, <6>1
        <5> QED BY <5>1, <5>2
      <4> QED BY <1>7, <3>1, <4>2, <4>3
    <3> QED BY <3>1, <3>2, HeightBy
  <2> QED BY <2>1, <2>2
<1>9. HeightsOK(new, K, b2, Nil, hd)
  BY <1>5, <1>7, <1>8 DEF HeightsOK
<1>10. ASSUME NEW m \in K, NEW e \in Sides, RedChild(new, m, e)
       PROVE  p = new.kid[e][m]
  <2> SUFFICES ASSUME new.kid[e][m] # p PROVE FALSE
    OBVIOUS
  <2>1. CASE m = p
    BY <1>5, <1>10, <2>1 DEF RedChild, ColorOf
  <2>2. CASE m # p
    <3>1. m \in L /\ new.kid[e][m] = tr.kid[e][m]
      BY <1>1, <1>5, <2>2
    <3>2. PICK k : k = tr.kid[e][m] /\ k \in L \union {Nil}
      BY <1>4, <3>1
    <3>3. tr.color[m] = "red" /\ k # Nil /\ tr.color[k] = "red"
      BY <1>5, <1>10, <3>1, <3>2 DEF RedChild, ColorOf
    <3>4. RedChild(tr, m, e)
      BY <3>2, <3>3 DEF RedChild, ColorOf
    <3> QED BY <1>3, <3>1, <3>4
  <2> QED BY <2>1, <2>2
<1>11. ColorOf(new, new.root) = "black"
  BY <1>3, <1>5 DEF ColorOf
<1>12. ColorsOK(new, K, "inserting", p, Nil, hd)
  BY <1>1, <1>5, <1>10, <1>11 DEF ColorsOK
<1> QED BY <1>1, <1>2, <1>9, <1>12 DEF Shape

\* The first level is the root.
LEMMA SproutFirst ==
  ASSUME NEW tr, NEW sub, NEW bh, NEW hd,
         Shape(tr, {}, sub, bh, hd, "idle", Nil, Nil),
         NEW p \in Prices, NEW new \in Trees,
         new.root = p, new.kid = tr.kid, new.parent = tr.parent,
         \A m \in Prices : new.color[m] = IF m = p THEN "red" ELSE tr.color[m]
  PROVE  \E s2, b2 : Shape(new, {p}, s2, b2, hd, "inserting", p, Nil)
<1>1. TreeOK(tr, {}, sub) /\ HeightsOK(tr, {}, bh, Nil, hd)
  BY DEF Shape
<1>2. sub = [m \in Prices |-> {}]
  <2>1. sub \in [Prices -> SUBSET {}]
    BY <1>1 DEF TreeOK
  <2>2. \A m \in Prices : sub[m] = {}
    BY <2>1
  <2> QED BY <2>1, <2>2
<1>3. PICK s2 : TreeOK(new, {p}, s2)
  BY <1>1, <1>2, FirstTree
<1>4. /\ p # Nil /\ \A e \in Sides : new.kid[e][p] = Nil
      /\ \A m \in Prices : tr.color[m] = "black"
      /\ bh \in [Maybe -> Nat \ {0}] /\ bh[Nil] = 1 /\ p \in Maybe /\ Nil \in Maybe
  BY <1>1, PriceFacts DEF TreeOK, HeightsOK, Sides, Maybe
<1>5. PICK b2 : b2 = [m \in Maybe |-> 1]
  OBVIOUS
<1>6. HeightOK(new, b2, Nil, hd, p)
  <2>1. Unit(new, p) = 0
    BY DEF Unit
  <2>2. \A e \in Sides : b2[new.kid[e][p]] = 1 /\ b2[p] = 1
    BY <1>4, <1>5
  <2> QED BY <1>4, <2>1, <2>2, HeightBy
<1>7. HeightsOK(new, {p}, b2, Nil, hd)
  <2>1. b2 \in [Maybe -> Nat \ {0}] /\ b2[Nil] = 1
    BY <1>4, <1>5
  <2>2. \A m \in Prices \ {p} : new.color[m] = "black"
    BY <1>4
  <2> QED BY <1>6, <2>1, <2>2 DEF HeightsOK
<1>8. ColorsOK(new, {p}, "inserting", p, Nil, hd)
  BY <1>4 DEF ColorsOK, RedChild, ColorOf
<1> QED BY <1>3, <1>7, <1>8 DEF Shape

-----------------------------------------------------------------------------
(* Erasing a level.                                                        *)

\* A level with at most one child goes; if it was black, its place is a black
\* level short.
CanCut(tr, L, sub, bh, hd, u, e, c, q, new) ==
  /\ Shape(tr, L, sub, bh, hd, "idle", Nil, Nil)
  /\ CanSplice(tr, L, sub, u, e)
  /\ c = tr.kid[e][u] /\ q = tr.parent[u]
  /\ IsSpliced(tr, u, c, new)

Cut(tr, sub, u, bh, c, q, new, K) ==
  \E h2 : IF tr.color[u] = "black"
          THEN Shape(new, K, SplicedSub(sub, u), bh, h2, "erasing", c, q)
          ELSE Shape(new, K, SplicedSub(sub, u), bh, h2, "idle", Nil, Nil)

LEMMA CutShape ==
  ASSUME NEW tr, NEW L, NEW sub, NEW bh, NEW hd, NEW u, NEW e, NEW c, NEW q,
         NEW new, CanCut(tr, L, sub, bh, hd, u, e, c, q, new)
  PROVE  Cut(tr, sub, u, bh, c, q, new, L \ {u})
<1>1. /\ TreeOK(tr, L, sub) /\ HeightsOK(tr, L, bh, Nil, hd)
      /\ u \in L /\ e \in Sides /\ c = tr.kid[e][u] /\ q = tr.parent[u]
      /\ tr.root \in L /\ ColorOf(tr, tr.root) = "black"
      /\ \A m \in L, f \in Sides : ~ RedChild(tr, m, f)
  BY DEF CanCut, CanSplice, Shape, ColorsOK, TreeOK
<1>2. /\ L \subseteq Prices /\ Nil \notin L
      /\ \A m \in L : m \in Maybe /\ tr.color[m] \in Colors
      /\ \A m \in L, f \in Sides : tr.kid[f][m] \in L \union {Nil}
      /\ \A m \in L \union {Nil} : bh[m] \in Nat \ {0}
      /\ Nil \in Maybe /\ bh \in [Maybe -> Nat \ {0}] /\ bh[Nil] = 1
  BY <1>1, ShapeFacts
<1>3. PICK K, s2, s : /\ K = L \ {u} /\ s2 = SplicedSub(sub, u)
                      /\ s = IF q = Nil THEN "left" ELSE SideOf(tr, u)
  OBVIOUS
<1>4. TreeOK(new, K, s2)
  BY <1>3, SpliceTree DEF CanCut
<1>5. /\ q = Nil <=> u = tr.root
      /\ s \in Sides
      /\ q # Nil => q \in L /\ q # u /\ tr.kid[s][q] = u
      /\ \A m \in L, f \in Sides : tr.kid[f][m] = u => m = q /\ f = s /\ q # Nil
  <2>1. /\ tr.parent[u] = Nil <=> u = tr.root
        /\ u # tr.root =>
             /\ tr.parent[u] \in L
             /\ SideOf(tr, u) \in Sides
             /\ tr.kid[SideOf(tr, u)][tr.parent[u]] = u
        /\ \A m \in L, f \in Sides :
             tr.kid[f][m] = u => m = tr.parent[u] /\ f = SideOf(tr, u) /\ u # tr.root
    BY <1>1, ParentFacts
  <2>2. q # Nil => q # u
    <3>1. q = u /\ q # Nil => tr.kid[s][u] = u /\ s \in Sides
      BY <1>1, <1>3, <2>1
    <3>2. s \in Sides /\ tr.kid[s][u] # Nil => tr.kid[s][u] # u
      BY <1>1, KidFacts
    <3> QED BY <1>1, <1>2, <3>1, <3>2
  <2> QED BY <1>1, <1>2, <1>3, <2>1, <2>2 DEF Sides
<1>6. /\ new.root = IF u = tr.root THEN c ELSE tr.root
      /\ \A f \in Sides, m \in K : new.kid[f][m] =
           IF tr.kid[f][m] = u THEN c ELSE tr.kid[f][m]
      /\ \A m \in K : new.color[m] = tr.color[m]
      /\ new.color[u] = "black"
      /\ \A m \in Prices \ L : new.color[m] = tr.color[m]
  BY <1>1, <1>2, <1>3 DEF CanCut, IsSpliced
<1>7. \A m \in K : Unit(new, m) = Unit(tr, m)
  BY <1>6 DEF Unit
<1>8. \A m \in Prices \ K : new.color[m] = "black"
  BY <1>1, <1>3, <1>6 DEF HeightsOK
<1>9. bh[u] = bh[c] + Unit(tr, u) /\ c \in L \union {Nil} /\ c # u
      /\ bh[c] \in Nat /\ bh[u] \in Nat
  <2>1. tr.kid[e][u] # Nil => tr.kid[e][u] # u
    BY <1>1, KidFacts
  <2>2. bh[u] = bh[tr.kid[e][u]] + Unit(tr, u)
    BY <1>1, <1>2, HeightIs
  <2> QED BY <1>1, <1>2, <2>1, <2>2
<1>10. ASSUME NEW m \in K, NEW f \in Sides
       PROVE  /\ bh[new.kid[f][m]] \in Nat
              /\ m # q \/ f # s => bh[m] = bh[new.kid[f][m]] + Unit(new, m)
              /\ m = q /\ f = s =>
                   bh[m] = bh[new.kid[f][m]] + Unit(new, m) + Unit(tr, u)
  <2>1. PICK k : k = tr.kid[f][m] /\ k \in L \union {Nil} /\ m \in L
    BY <1>2, <1>3
  <2>2. bh[m] = bh[k] + Unit(tr, m) /\ Unit(new, m) = Unit(tr, m)
        /\ bh[k] \in Nat /\ Unit(tr, m) \in {0, 1} /\ Unit(tr, u) \in {0, 1}
    <3>1. bh[m] = bh[k] + Unit(tr, m)
      BY <1>1, <1>2, <2>1, HeightIs
    <3> QED BY <1>2, <1>7, <2>1, <3>1 DEF Unit
  <2>3. CASE k = u
    <3>1. m = q /\ f = s /\ new.kid[f][m] = c
      BY <1>5, <1>6, <2>1, <2>3
    <3> QED BY <1>9, <2>2, <2>3, <3>1
  <2>4. CASE k # u
    <3>1. ~ (m = q /\ f = s) /\ new.kid[f][m] = k
      BY <1>2, <1>5, <1>6, <2>1, <2>4
    <3> QED BY <2>2, <3>1
  <2> QED BY <2>3, <2>4
<1>11. ASSUME NEW m \in K, NEW f \in Sides, RedChild(new, m, f)
       PROVE  new.kid[f][m] = c /\ c # Nil /\ tr.color[u] = "black"
  <2>1. PICK k : k = tr.kid[f][m] /\ k \in L \union {Nil} /\ m \in L
    BY <1>2, <1>3
  <2>2. CASE k = u
    <3>1. new.kid[f][m] = c /\ c # Nil /\ new.color[c] = "red"
      BY <1>2, <1>6, <1>11, <2>1, <2>2 DEF RedChild, ColorOf
    <3>2. c \in K
      BY <1>3, <1>9, <3>1
    <3>3. ~ RedChild(tr, u, e) /\ tr.color[u] \in Colors
      BY <1>1, <1>2
    <3>4. tr.color[u] # "red"
      BY <1>1, <1>6, <3>1, <3>2, <3>3 DEF RedChild, ColorOf
    <3> QED BY <3>1, <3>3, <3>4 DEF Colors
  <2>3. CASE k # u
    <3>1. new.kid[f][m] = k
      BY <1>6, <2>1, <2>3
    <3>2. k # Nil /\ new.color[k] = "red" /\ new.color[m] = "red" /\ k \in K
      BY <1>3, <1>11, <2>1, <2>3, <3>1 DEF RedChild, ColorOf
    <3>3. RedChild(tr, m, f)
      BY <1>6, <2>1, <3>2 DEF RedChild, ColorOf
    <3> QED BY <1>1, <2>1, <3>3
  <2> QED BY <2>2, <2>3
<1>12. CASE tr.color[u] = "black"
  <2>1. Unit(tr, u) = 1
    BY <1>12 DEF Unit
  <2>2. \A m \in K : HeightOK(new, bh, q, s, m)
    BY <1>10, <2>1, HeightBy
  <2>3. HeightsOK(new, K, bh, q, s)
    BY <1>2, <1>8, <2>2 DEF HeightsOK
  <2>4. new.root # c => ColorOf(new, new.root) = "black"
    <3>1. CASE u = tr.root
      BY <1>6, <3>1
    <3>2. CASE u # tr.root
      <4>1. tr.root \in K /\ tr.color[tr.root] = "black" /\ tr.root # Nil
        BY <1>1, <1>2, <1>3, <3>2 DEF ColorOf
      <4> QED BY <1>6, <3>2, <4>1 DEF ColorOf
    <3> QED BY <3>1, <3>2
  <2>5. IF q = Nil THEN c = new.root ELSE q \in K /\ s \in Sides /\ new.kid[s][q] = c
    <3>1. CASE q = Nil
      BY <1>5, <1>6, <3>1
    <3>2. CASE q # Nil
      <4>1. q \in K /\ tr.kid[s][q] = u /\ s \in Sides
        BY <1>3, <1>5, <3>2
      <4> QED BY <1>6, <3>2, <4>1
    <3> QED BY <3>1, <3>2
  <2>6. ColorsOK(new, K, "erasing", c, q, s)
    BY <1>11, <2>4, <2>5 DEF ColorsOK
  <2>7. Shape(new, K, s2, bh, s, "erasing", c, q)
    BY <1>4, <2>3, <2>6 DEF Shape
  <2> QED BY <1>3, <1>12, <2>7 DEF Cut
<1>13. CASE tr.color[u] # "black"
  <2>1. Unit(tr, u) = 0
    BY <1>13 DEF Unit
  <2>2. \A m \in K : HeightOK(new, bh, Nil, s, m)
    <3> TAKE m \in K
    <3>1. \A f \in Sides : bh[new.kid[f][m]] \in Nat /\ bh[m] = bh[new.kid[f][m]] + Unit(new, m)
      <4> TAKE f \in Sides
      <4>1. Unit(new, m) \in Nat
        BY DEF Unit
      <4> QED BY <1>10, <2>1, <4>1
    <3>2. m # Nil
      BY <1>2, <1>3
    <3> QED BY <3>1, <3>2, HeightBy
  <2>3. HeightsOK(new, K, bh, Nil, s)
    BY <1>2, <1>8, <2>2 DEF HeightsOK
  <2>4. ColorOf(new, new.root) = "black"
    <3>1. u # tr.root
      BY <1>1, <1>2, <1>13 DEF ColorOf
    <3>2. tr.root \in K /\ tr.color[tr.root] = "black" /\ tr.root # Nil
      BY <1>1, <1>2, <1>3, <3>1 DEF ColorOf
    <3> QED BY <1>6, <3>1, <3>2 DEF ColorOf
  <2>5. ColorsOK(new, K, "idle", Nil, Nil, s)
    BY <1>11, <1>13, <2>4 DEF ColorsOK
  <2>6. Shape(new, K, s2, bh, s, "idle", Nil, Nil)
    BY <1>4, <2>3, <2>5 DEF Shape
  <2> QED BY <1>3, <1>13, <2>6 DEF Cut
<1> QED BY <1>12, <1>13

\* y, with its colour, in the place of z.
CanReplace(tr, M, sub, bh, hd, state, w, wp, z, y, new) ==
  /\ Shape(tr, M, sub, bh, hd, state, w, wp)
  /\ CanSwap(tr, M, sub, z, y)
  /\ IsSwapped(tr, z, y, new)
  /\ w \in M \union {Nil}

LEMMA SwapShape ==
  ASSUME NEW tr, NEW M, NEW sub, NEW bh, NEW hd, NEW state, NEW w, NEW wp,
         NEW z, NEW y, NEW new, CanReplace(tr, M, sub, bh, hd, state, w, wp, z, y, new)
  PROVE  \E s2, b2 : Shape(new, SwapIn(z, y, M), s2, b2, hd, state,
                           Swap(z, y, w), Swap(z, y, wp))
<1>1. /\ TreeOK(tr, M, sub) /\ HeightsOK(tr, M, bh, wp, hd)
      /\ z \in M /\ y \in Prices /\ y \notin M /\ w \in M \union {Nil}
      /\ ColorsOK(tr, M, state, w, wp, hd)
      /\ tr.root \in M
  BY DEF CanReplace, CanSwap, Shape, TreeOK
<1>2. /\ M \subseteq Prices /\ Nil \notin M /\ y # Nil
      /\ \A m \in M : m \in Maybe
      /\ \A m \in M, f \in Sides : tr.kid[f][m] \in M \union {Nil}
      /\ \A m \in M \union {Nil} : bh[m] \in Nat \ {0}
      /\ Nil \in Maybe /\ bh \in [Maybe -> Nat \ {0}] /\ bh[Nil] = 1
      /\ \A m \in Prices : m \in Maybe
  BY <1>1, ShapeFacts
<1>3. PICK K, s2 : K = SwapIn(z, y, M) /\ TreeOK(new, K, s2)
  BY SwapTree DEF CanReplace
<1>4. K = (M \ {z}) \union {y}
  BY <1>1, <1>3 DEF SwapIn
<1>5. /\ \A m \in K : /\ Swap(y, z, m) \in M /\ m = Swap(z, y, Swap(y, z, m))
                      /\ m # z /\ m \in Prices
      /\ \A n \in M \union {Nil} : /\ Swap(z, y, n) \in K \union {Nil}
                                   /\ n = Swap(y, z, Swap(z, y, n))
                                   /\ Swap(z, y, n) = Nil <=> n = Nil
  BY <1>1, <1>2, <1>4 DEF Swap
<1>6. /\ new.root = Swap(z, y, tr.root)
      /\ \A m \in K : /\ \A f \in Sides : new.kid[f][m] = Swap(z, y, tr.kid[f][Swap(y, z, m)])
                      /\ new.color[m] = tr.color[Swap(y, z, m)]
  BY <1>5 DEF CanReplace, IsSwapped
<1>7. \A m \in Prices \ K : new.color[m] = "black"
  <2> TAKE m \in Prices \ K
  <2>1. CASE m = z
    BY <1>1, <1>2, <2>1 DEF CanReplace, IsSwapped
  <2>2. CASE m # z
    <3>1. m \notin M /\ m # y /\ Swap(y, z, m) = m
      BY <1>4, <2>2 DEF Swap
    <3>2. new.color[m] = tr.color[m] /\ tr.color[m] = "black"
      BY <1>1, <2>2, <3>1 DEF CanReplace, IsSwapped, HeightsOK
    <3> QED BY <3>2
  <2> QED BY <2>1, <2>2
<1>8. PICK b2 : b2 = [m \in Maybe |-> bh[Swap(y, z, m)]]
  OBVIOUS
<1>9. /\ b2 \in [Maybe -> Nat \ {0}] /\ b2[Nil] = 1
      /\ \A n \in M \union {Nil} : b2[Swap(z, y, n)] = bh[n]
      /\ \A m \in K : b2[m] = bh[Swap(y, z, m)]
  <2>1. \A m \in Maybe : Swap(y, z, m) \in Maybe
    BY <1>1, <1>2 DEF Swap
  <2>2. Swap(y, z, Nil) = Nil
    BY <1>2 DEF Swap
  <2>3. \A n \in M \union {Nil} : Swap(z, y, n) \in Maybe /\ Swap(y, z, Swap(z, y, n)) = n
    BY <1>1, <1>2, <1>5 DEF Swap
  <2>4. b2 \in [Maybe -> Nat \ {0}] /\ b2[Nil] = 1
    BY <1>2, <1>8, <2>1, <2>2
  <2>5. \A m \in Maybe : b2[m] = bh[Swap(y, z, m)]
    BY <1>8
  <2>6. \A n \in M \union {Nil} : b2[Swap(z, y, n)] = bh[n]
    BY <2>3, <2>5
  <2>7. \A m \in K : m \in Maybe
    BY <1>2, <1>5
  <2> QED BY <2>4, <2>5, <2>6, <2>7
<1>10. wp \in M \union {Nil}
  BY <1>1 DEF ColorsOK
<1>11. ASSUME NEW m \in K PROVE HeightOK(new, b2, Swap(z, y, wp), hd, m)
  <2>1. PICK n : n \in M /\ n = Swap(y, z, m) /\ m = Swap(z, y, n)
    BY <1>5
  <2>2. Unit(new, m) = Unit(tr, n) /\ b2[m] = bh[n]
    BY <1>6, <1>9, <2>1 DEF Unit
  <2>3. m = Swap(z, y, wp) <=> n = wp
    BY <1>5, <1>10, <2>1
  <2>4. ASSUME NEW f \in Sides
        PROVE  /\ b2[new.kid[f][m]] \in Nat
               /\ ~ (m = Swap(z, y, wp) /\ f = hd) => b2[m] = b2[new.kid[f][m]] + Unit(new, m)
               /\ m = Swap(z, y, wp) /\ f = hd => b2[m] = b2[new.kid[f][m]] + Unit(new, m) + 1
    <3>1. PICK k : k = tr.kid[f][n] /\ k \in M \union {Nil}
      BY <1>2, <2>1
    <3>2. b2[new.kid[f][m]] = bh[k] /\ bh[k] \in Nat
      BY <1>2, <1>6, <1>9, <2>1, <3>1
    <3>3. /\ ~ (n = wp /\ f = hd) => bh[n] = bh[k] + Unit(tr, n)
          /\ n = wp /\ f = hd => bh[n] = bh[k] + Unit(tr, n) + 1
      <4>1. /\ ~ (n = wp /\ f = hd) => bh[n] = bh[tr.kid[f][n]] + Unit(tr, n)
            /\ n = wp /\ f = hd => bh[n] = bh[tr.kid[f][n]] + Unit(tr, n) + 1
        BY <1>1, <2>1, HeightIs
      <4> QED BY <3>1, <4>1
    <3> QED BY <2>2, <2>3, <3>2, <3>3
  <2> QED BY <2>4, HeightBy
<1>12. HeightsOK(new, K, b2, Swap(z, y, wp), hd)
  BY <1>7, <1>9, <1>11 DEF HeightsOK
<1>13. \A n \in M \union {Nil} : ColorOf(new, Swap(z, y, n)) = ColorOf(tr, n)
  <2> TAKE n \in M \union {Nil}
  <2>1. CASE n = Nil
    BY <1>5, <2>1 DEF ColorOf
  <2>2. CASE n # Nil
    <3>1. Swap(z, y, n) \in K /\ Swap(z, y, n) # Nil /\ Swap(y, z, Swap(z, y, n)) = n
      BY <1>5, <2>2
    <3> QED BY <1>6, <2>2, <3>1 DEF ColorOf
  <2> QED BY <2>1, <2>2
<1>14. ASSUME NEW m \in K, NEW f \in Sides, RedChild(new, m, f)
       PROVE  RedChild(tr, Swap(y, z, m), f)
  <2>1. PICK n : n \in M /\ n = Swap(y, z, m) /\ new.color[m] = tr.color[n]
    BY <1>5, <1>6
  <2>2. PICK k : k = tr.kid[f][n] /\ k \in M \union {Nil} /\ new.kid[f][m] = Swap(z, y, k)
    BY <1>2, <1>6, <2>1
  <2>3. ColorOf(tr, k) = "red" /\ tr.color[n] = "red"
    BY <1>13, <1>14, <2>1, <2>2 DEF RedChild
  <2> QED BY <2>1, <2>2, <2>3 DEF RedChild
<1>15. /\ tr.root # w <=> new.root # Swap(z, y, w)
       /\ ColorOf(new, new.root) = ColorOf(tr, tr.root)
  BY <1>1, <1>5, <1>6, <1>13
<1>16. ColorsOK(new, K, state, Swap(z, y, w), Swap(z, y, wp), hd)
  <2>1. CASE state = "idle"
    <3>1. /\ \A m \in M, f \in Sides : ~ RedChild(tr, m, f)
          /\ ColorOf(tr, tr.root) = "black"
          /\ w = Nil /\ wp = Nil
      BY <1>1, <2>1 DEF ColorsOK
    <3>2. \A m \in K, f \in Sides : ~ RedChild(new, m, f)
      BY <1>5, <1>14, <3>1
    <3>3. Swap(z, y, w) = Nil /\ Swap(z, y, wp) = Nil
      BY <1>5, <3>1
    <3> QED BY <1>15, <2>1, <3>1, <3>2, <3>3 DEF ColorsOK
  <2>2. CASE state = "inserting"
    <3>1. /\ w \in M /\ tr.color[w] = "red" /\ wp = Nil
          /\ \A m \in M, f \in Sides : RedChild(tr, m, f) => w = tr.kid[f][m]
          /\ tr.root # w => ColorOf(tr, tr.root) = "black"
      BY <1>1, <2>2 DEF ColorsOK
    <3>2. Swap(z, y, w) \in K /\ Swap(z, y, wp) = Nil /\ Swap(y, z, Swap(z, y, w)) = w
      BY <1>2, <1>5, <3>1
    <3>3. new.color[Swap(z, y, w)] = "red"
      BY <1>6, <3>1, <3>2
    <3>4. \A m \in K, f \in Sides : RedChild(new, m, f) => Swap(z, y, w) = new.kid[f][m]
      BY <1>5, <1>6, <1>14, <3>1
    <3> QED BY <1>15, <2>2, <3>1, <3>2, <3>3, <3>4 DEF ColorsOK
  <2>3. CASE state = "erasing"
    <3>1. /\ \A m \in M, f \in Sides : RedChild(tr, m, f) => w \in {m, tr.kid[f][m]}
          /\ tr.root # w => ColorOf(tr, tr.root) = "black"
          /\ IF wp = Nil THEN w = tr.root
             ELSE wp \in M /\ hd \in Sides /\ tr.kid[hd][wp] = w
      BY <1>1, <2>3 DEF ColorsOK
    <3>2. \A m \in K, f \in Sides :
            RedChild(new, m, f) => Swap(z, y, w) \in {m, new.kid[f][m]}
      <4> SUFFICES ASSUME NEW m \in K, NEW f \in Sides, RedChild(new, m, f)
                   PROVE  Swap(z, y, w) \in {m, new.kid[f][m]}
        OBVIOUS
      <4>1. PICK n : n \in M /\ n = Swap(y, z, m) /\ m = Swap(z, y, n)
        BY <1>5
      <4>2. w = n \/ w = tr.kid[f][n]
        BY <1>14, <3>1, <4>1
      <4>3. new.kid[f][m] = Swap(z, y, tr.kid[f][n])
        BY <1>6, <4>1
      <4> QED BY <4>1, <4>2, <4>3
    <3>3. CASE wp = Nil
      <4>1. Swap(z, y, wp) = Nil /\ Swap(z, y, w) = new.root
        BY <1>5, <1>6, <3>1, <3>3
      <4> QED BY <1>15, <2>3, <3>1, <3>2, <4>1 DEF ColorsOK
    <3>4. CASE wp # Nil
      <4>1. wp \in M /\ hd \in Sides /\ tr.kid[hd][wp] = w
        BY <3>1, <3>4
      <4>2. /\ Swap(z, y, wp) \in K /\ Swap(z, y, wp) # Nil
            /\ Swap(y, z, Swap(z, y, wp)) = wp
        BY <1>2, <1>5, <4>1
      <4>3. new.kid[hd][Swap(z, y, wp)] = Swap(z, y, w)
        BY <1>6, <4>1, <4>2
      <4> QED BY <1>15, <2>3, <3>1, <3>2, <4>1, <4>2, <4>3 DEF ColorsOK
    <3> QED BY <3>3, <3>4
  <2> QED BY <1>1, <2>1, <2>2, <2>3 DEF ColorsOK
<1> QED BY <1>3, <1>12, <1>16 DEF Shape

\* What deletion does to the records of the tree.
IsRecycled(tr, z, new) ==
  /\ new \in Trees /\ new.root = tr.root
  /\ \A e \in Sides, m \in Prices : new.kid[e][m] = IF m = z THEN Nil ELSE tr.kid[e][m]
  /\ \A m \in Prices : new.parent[m] = IF m = z THEN Nil ELSE tr.parent[m]
  /\ \A m \in Prices : new.color[m] = IF m = z THEN "black" ELSE tr.color[m]

LEMMA RecycledIs ==
  ASSUME NEW tr \in Trees, NEW z \in Prices
  PROVE  IsRecycled(tr, z, Recycled(tr, z))
<1>1. PICK new : new = Recycled(tr, z)
  OBVIOUS
<1>2. PICK kl, kd : /\ kl = [tr.kid EXCEPT !["left"][z] = Nil]
                    /\ kd = [kl EXCEPT !["right"][z] = Nil]
  OBVIOUS
<1>3. /\ Nil \in Maybe /\ "black" \in Colors /\ Sides = {"left", "right"}
      /\ tr.root \in Maybe /\ tr.kid \in [Sides -> [Prices -> Maybe]]
      /\ tr.parent \in [Prices -> Maybe] /\ tr.color \in [Prices -> Colors]
  BY SideFacts DEF Maybe, Colors, Trees
<1>4. /\ kl \in [Sides -> [Prices -> Maybe]]
      /\ \A e \in Sides, m \in Prices :
           kl[e][m] = IF e = "left" /\ m = z THEN Nil ELSE tr.kid[e][m]
  BY <1>2, <1>3
<1>5. /\ kd \in [Sides -> [Prices -> Maybe]]
      /\ \A e \in Sides, m \in Prices :
           kd[e][m] = IF e = "right" /\ m = z THEN Nil ELSE kl[e][m]
  BY <1>2, <1>3, <1>4
<1>6. /\ \A e \in Sides, m \in Prices : kd[e][m] = IF m = z THEN Nil ELSE tr.kid[e][m]
  BY <1>3, <1>4, <1>5
<1>7. /\ new.root = tr.root /\ new.kid = kd
      /\ new.parent = [tr.parent EXCEPT ![z] = Nil]
      /\ new.color = [tr.color EXCEPT ![z] = "black"]
      /\ new = [root |-> tr.root, kid |-> kd, parent |-> [tr.parent EXCEPT ![z] = Nil],
                color |-> [tr.color EXCEPT ![z] = "black"]]
  BY <1>1, <1>2, <1>3 DEF Recycled, Trees
<1>8. new \in Trees
  BY <1>3, <1>5, <1>7 DEF Trees
<1> QED BY <1>1, <1>3, <1>6, <1>7, <1>8 DEF IsRecycled

LEMMA SpliceIs ==
  ASSUME NEW tr, NEW L, NEW sub, NEW u, NEW e, CanSplice(tr, L, sub, u, e)
  PROVE  IsSpliced(tr, u, tr.kid[e][u], Recycled(Transplant(tr, u, tr.kid[e][u]), u))
<1>1. PICK c, mid, new : /\ c = tr.kid[e][u] /\ mid = Transplant(tr, u, c)
                         /\ new = Recycled(mid, u)
  OBVIOUS
<1>2. /\ TreeOK(tr, L, sub) /\ u \in L /\ e \in Sides /\ u \in Prices /\ tr \in Trees
      /\ c \in Maybe /\ c # u /\ u # Nil
  <2>1. tr.kid[e][u] # Nil => tr.kid[e][u] # u
    BY KidFacts DEF CanSplice
  <2>2. tr.kid[e][u] \in L \union {Nil} /\ L \subseteq Prices /\ tr \in Trees
    BY DEF CanSplice, TreeOK, BranchOK
  <2> QED BY <1>1, <2>1, <2>2, PriceFacts DEF CanSplice, Maybe
<1>3. IsTransplanted(tr, u, c, mid)
  BY <1>1, <1>2, TransplantIs
<1>4. IsRecycled(mid, u, new)
  BY <1>1, <1>2, <1>3, RecycledIs DEF IsTransplanted
<1>5. /\ tr.parent[u] = Nil <=> u = tr.root
      /\ \A m \in Prices, d \in Sides :
           tr.kid[d][m] = u <=> tr.parent[u] # Nil /\ m = tr.parent[u] /\ d = SideOf(tr, u)
  <2>1. /\ tr.parent[u] = Nil <=> u = tr.root
        /\ u # tr.root => tr.kid[SideOf(tr, u)][tr.parent[u]] = u
        /\ \A m \in L, d \in Sides :
             tr.kid[d][m] = u => m = tr.parent[u] /\ d = SideOf(tr, u) /\ u # tr.root
    BY <1>2, ParentFacts
  <2>2. \A m \in Prices \ L, d \in Sides : tr.kid[d][m] = Nil
    BY <1>2, SideFacts DEF TreeOK
  <2>3. \A m \in Prices, d \in Sides :
          tr.kid[d][m] = u => m = tr.parent[u] /\ d = SideOf(tr, u) /\ u # tr.root
    BY <1>2, <2>1, <2>2
  <2> QED BY <2>1, <2>3
<1>6. /\ mid.root = IF u = tr.root THEN c ELSE tr.root
      /\ \A d \in Sides, m \in Prices : mid.kid[d][m] =
           IF tr.kid[d][m] = u THEN c ELSE tr.kid[d][m]
      /\ \A m \in Prices : mid.parent[m] = IF m = c THEN tr.parent[u] ELSE tr.parent[m]
      /\ mid.color = tr.color
  BY <1>3, <1>5 DEF IsTransplanted
<1>7. IsSpliced(tr, u, c, new)
  BY <1>2, <1>4, <1>6 DEF IsRecycled, IsSpliced
<1> QED BY <1>1, <1>7

\* A level z with two children, and y, the least of those under its right one.
InnerAt(tr, L, z, y, a, b, c, q, r, s, f) ==
  /\ z \in L /\ y \in L /\ a \in L /\ b \in L /\ c \in L \union {Nil}
  /\ r \in L /\ q \in L \union {Nil} /\ f \in Sides
  /\ a = tr.kid["left"][z] /\ b = tr.kid["right"][z]
  /\ tr.kid["left"][y] = Nil /\ c = tr.kid["right"][y]
  /\ q = tr.parent[z] /\ r = tr.parent[y] /\ s = SideOf(tr, z) /\ f = SideOf(tr, y)
  /\ z # y /\ a # z /\ b # z /\ a # b /\ a # y /\ c \notin {z, y, a, b}
  /\ q \notin {z, y, r} /\ r # y
  /\ q = Nil <=> z = tr.root
  /\ y # tr.root
  /\ r = z => y = b /\ f = "right"
  /\ r # z => y # b
  /\ \A m \in Prices : tr.parent[m] = z <=> m \in {a, b}
  /\ \A m \in Prices : tr.parent[m] = y <=> c # Nil /\ m = c
  /\ \A e \in Sides, m \in Prices : tr.kid[e][m] = z <=> q # Nil /\ m = q /\ e = s
  /\ \A e \in Sides, m \in Prices : tr.kid[e][m] = y <=> m = r /\ e = f
  /\ \A m \in L : m # z /\ m # y => ((m < y) <=> (m < z))

LEMMA InnerFacts ==
  ASSUME NEW tr, NEW L, NEW sub, TreeOK(tr, L, sub), NEW z \in L, NEW y, NEW a, NEW b,
         a = tr.kid["left"][z], b = tr.kid["right"][z], a # Nil, b # Nil,
         y \in sub[b], tr.kid["left"][y] = Nil, \A m \in sub[b] : y <= m
  PROVE  InnerAt(tr, L, z, y, a, b, tr.kid["right"][y], tr.parent[z], tr.parent[y],
                 SideOf(tr, z), SideOf(tr, y))
<1>1. PICK c, q, r, s, f : /\ c = tr.kid["right"][y] /\ q = tr.parent[z] /\ r = tr.parent[y]
                           /\ s = SideOf(tr, z) /\ f = SideOf(tr, y)
  OBVIOUS
<1>2. "left" \in Sides /\ "right" \in Sides /\ Other("right") = "left" /\ Other("left") = "right"
      /\ \A e \in Sides : e = "left" \/ e = "right"
  BY DEF Sides, Other
<1>3. /\ L \subseteq Prices /\ Nil \notin L /\ Nil \notin Prices
      /\ \A m \in Prices \ L, e \in Sides : tr.kid[e][m] = Nil
      /\ \A m \in Prices \ L : tr.parent[m] = Nil
      /\ \A m \in L : m \in Nat
  BY <1>2, PriceFacts DEF TreeOK
<1>4. /\ a \in L /\ a # z /\ a \in Under(sub, a) /\ a # b
      /\ \A m \in Under(sub, a) : Beyond("left", m, z) /\ m \notin Under(sub, b)
      /\ z \in sub[z] /\ sub[z] = {z} \union Under(sub, a) \union Under(sub, b)
      /\ tr.parent[a] = z
  BY <1>2, KidFacts
<1>5. /\ b \in L /\ b # z /\ Under(sub, b) = sub[b] /\ z \notin sub[b] /\ tr.parent[b] = z
      /\ \A m \in Under(sub, b) : Beyond("right", m, z)
  BY <1>2, KidFacts
<1>6. /\ y \in L /\ y \in sub[z] /\ y # z /\ y # a /\ z < y
  <2>1. sub[b] \subseteq L
    BY <1>5, SubFacts
  <2> QED BY <1>4, <1>5, <2>1 DEF Beyond
<1>7. /\ c # Nil => c \in L /\ c # y /\ c \in sub[y] /\ c \in sub[b] /\ tr.parent[c] = y
      /\ c \in L \union {Nil}
  <2>1. tr.kid["right"][y] # Nil =>
          /\ tr.kid["right"][y] \in L /\ tr.kid["right"][y] # y
          /\ tr.kid["right"][y] \in Under(sub, tr.kid["right"][y])
          /\ tr.parent[tr.kid["right"][y]] = y
    BY <1>2, <1>6, KidFacts
  <2>2. sub[y] = {y} \union Under(sub, tr.kid["right"][y])
                     \union Under(sub, tr.kid["left"][y])
    BY <1>2, <1>6, KidFacts
  <2>3. sub[y] \subseteq sub[b]
    BY <1>5, SubFacts
  <2> QED BY <1>1, <2>1, <2>2, <2>3
<1>8. c \notin {z, y, a, b}
  <2>1. c = b => c # Nil /\ b \in sub[y]
    BY <1>7
  <2>2. b \in sub[y] => y = b
    BY <1>5, SubFacts
  <2>3. c # z
    BY <1>3, <1>5, <1>7
  <2>4. c # a
    BY <1>3, <1>4, <1>5, <1>7
  <2>5. c # y
    BY <1>3, <1>6, <1>7
  <2> QED BY <2>1, <2>2, <2>3, <2>4, <2>5, <1>7
<1>9. r \in sub[z] /\ r \in L
  <2>1. r \in sub[z]
    BY <1>1, <1>6, UpFacts
  <2>2. sub[z] \subseteq L
    BY SubFacts
  <2> QED BY <2>1, <2>2
<1>10. /\ y # tr.root /\ f \in Sides /\ tr.kid[f][r] = y
       /\ \A m \in L, e \in Sides : tr.kid[e][m] = y => m = r /\ e = f
  <2>1. /\ tr.parent[y] = Nil <=> y = tr.root
        /\ y # tr.root => SideOf(tr, y) \in Sides /\ tr.kid[SideOf(tr, y)][tr.parent[y]] = y
        /\ \A m \in L, e \in Sides :
             tr.kid[e][m] = y => m = tr.parent[y] /\ e = SideOf(tr, y)
    BY <1>6, ParentFacts
  <2> QED BY <1>1, <1>3, <1>9, <2>1
<1>11. r # y
  <2>1. tr.kid[f][r] # Nil => tr.kid[f][r] # r
    BY <1>9, <1>10, KidFacts
  <2> QED BY <1>3, <1>6, <1>10, <2>1
<1>12. /\ q = Nil <=> z = tr.root
       /\ q # Nil => q \in L /\ s \in Sides /\ tr.kid[s][q] = z
       /\ \A m \in L, e \in Sides : tr.kid[e][m] = z => m = q /\ e = s /\ q # Nil
  <2>1. /\ tr.parent[z] = Nil <=> z = tr.root
        /\ z # tr.root => /\ tr.parent[z] \in L /\ SideOf(tr, z) \in Sides
                          /\ tr.kid[SideOf(tr, z)][tr.parent[z]] = z
        /\ \A m \in L, e \in Sides :
             tr.kid[e][m] = z => m = tr.parent[z] /\ e = SideOf(tr, z) /\ z # tr.root
    BY ParentFacts
  <2> QED BY <1>1, <2>1
<1>13. q \notin {z, y, r}
  <2>1. CASE q = Nil
    BY <1>3, <1>6, <1>9, <2>1
  <2>2. CASE q # Nil
    <3>1. q \in L /\ s \in Sides /\ tr.kid[s][q] = z /\ z # Nil
      BY <1>3, <1>12, <2>2
    <3>2. /\ tr.kid[s][q] # q /\ tr.kid[s][q] \in Under(sub, tr.kid[s][q])
          /\ sub[q] = {q} \union Under(sub, tr.kid[s][q])
                          \union Under(sub, tr.kid[Other(s)][q])
      BY <3>1, KidFacts
    <3>3. z \in sub[q] /\ q # z
      BY <3>1, <3>2
    <3>4. q \notin sub[z]
      BY <3>1, <3>3, SubFacts
    <3> QED BY <1>4, <1>6, <1>9, <3>4
  <2> QED BY <2>1, <2>2
<1>14. r = z => y = b /\ f = "right"
  BY <1>2, <1>6, <1>10
<1>15. r # z => y # b
  BY <1>1, <1>5
<1>16. \A m \in L : tr.parent[m] # Nil =>
                      SideOf(tr, m) \in Sides /\ tr.kid[SideOf(tr, m)][tr.parent[m]] = m
  BY ParentFacts
<1>17. \A m \in Prices : tr.parent[m] = z <=> m \in {a, b}
  <2> TAKE m \in Prices
  <2>1. tr.parent[m] = z => m \in {a, b}
    BY <1>2, <1>3, <1>16
  <2> QED BY <1>4, <1>5, <2>1
<1>18. \A m \in Prices : tr.parent[m] = y <=> c # Nil /\ m = c
  <2> TAKE m \in Prices
  <2>1. tr.parent[m] = y => c # Nil /\ m = c
    <3> SUFFICES ASSUME tr.parent[m] = y PROVE c # Nil /\ m = c
      OBVIOUS
    <3>1. m \in L /\ SideOf(tr, m) \in Sides /\ tr.kid[SideOf(tr, m)][y] = m
      BY <1>3, <1>6, <1>16
    <3> QED BY <1>1, <1>2, <1>3, <3>1
  <2> QED BY <1>7, <2>1
<1>19. \A e \in Sides, m \in Prices : tr.kid[e][m] = z <=> q # Nil /\ m = q /\ e = s
  BY <1>3, <1>12
<1>20. \A e \in Sides, m \in Prices : tr.kid[e][m] = y <=> m = r /\ e = f
  BY <1>3, <1>6, <1>10
<1>21. ASSUME NEW m \in L, m # z, m # y
       PROVE  (m < y) <=> (m < z)
  <2>1. m \in Nat /\ y \in Nat /\ z \in Nat /\ z < y
    BY <1>3, <1>6
  <2>2. CASE m \notin sub[z]
    <3>1. \A n \in L \ sub[z] : \A j, k \in sub[z] : (j < n) <=> (k < n)
      BY SubFacts
    <3>2. (y < m) <=> (z < m)
      BY <1>4, <1>6, <2>2, <3>1
    <3> QED BY <1>21, <2>1, <3>2
  <2>3. CASE m \in Under(sub, a)
    BY <1>4, <2>1, <2>3 DEF Beyond
  <2>4. CASE m \in Under(sub, b)
    <3>1. y <= m
      BY <1>5, <2>4
    <3> QED BY <2>1, <3>1
  <2> QED BY <1>4, <1>21, <2>2, <2>3, <2>4
<1>22. q \in L \union {Nil}
  BY <1>12
<1>23. InnerAt(tr, L, z, y, a, b, c, q, r, s, f)
  BY <1>1, <1>4, <1>5, <1>6, <1>7, <1>8, <1>9, <1>10, <1>11, <1>12, <1>13, <1>14, <1>15,
     <1>17, <1>18, <1>19, <1>20, <1>21, <1>22 DEF InnerAt
<1> QED BY <1>1, <1>23

\* y out of its place, unless it hangs from z.
LiftedOut(tr, z, y) ==
  IF tr.parent[y] = z THEN tr
  ELSE Attached(Transplant(tr, y, tr.kid["right"][y]), y, "right", tr.kid["right"][z])
\* y in the place of z.
MovedUp(tr, z, y) ==
  Painted(Attached(Transplant(LiftedOut(tr, z, y), z, y), y, "left", tr.kid["left"][z]),
          y, tr.color[z])

IsLiftedOut(tr, z, y, a, b, c, q, r, s, f, new) ==
  /\ new \in Trees /\ new.root = tr.root /\ new.color = tr.color
  /\ \A e \in Sides, m \in Prices : new.kid[e][m] =
       IF m = y /\ e = "right" /\ r # z THEN b
       ELSE IF m = r /\ e = f /\ r # z THEN c ELSE tr.kid[e][m]
  /\ \A m \in Prices : new.parent[m] =
       IF m = b /\ r # z THEN y ELSE IF m = c /\ r # z THEN r ELSE tr.parent[m]

LEMMA LiftedOutIs ==
  ASSUME NEW tr \in Trees, NEW L \in SUBSET Prices, NEW z, NEW y, NEW a, NEW b, NEW c,
         NEW q, NEW r, NEW s, NEW f, InnerAt(tr, L, z, y, a, b, c, q, r, s, f)
  PROVE  IsLiftedOut(tr, z, y, a, b, c, q, r, s, f, LiftedOut(tr, z, y))
<1>1. /\ z \in Prices /\ y \in Prices /\ b \in Prices /\ c \in Maybe /\ b \in Maybe
      /\ r \in Prices /\ r # Nil /\ y # r /\ c # b /\ f \in Sides
      /\ b = tr.kid["right"][z] /\ c = tr.kid["right"][y]
      /\ r = tr.parent[y] /\ f = SideOf(tr, y) /\ "right" \in Sides
  BY PriceFacts DEF InnerAt, Maybe, Sides
<1>2. CASE r = z
  <2>1. LiftedOut(tr, z, y) = tr
    BY <1>1, <1>2 DEF LiftedOut
  <2> QED BY <1>2, <2>1 DEF IsLiftedOut
<1>3. CASE r # z
  <2>1. PICK one, new : /\ one = Transplant(tr, y, c) /\ new = Attached(one, y, "right", b)
    OBVIOUS
  <2>2. IsTransplanted(tr, y, c, one)
    BY <1>1, <2>1, TransplantIs
  <2>3. one \in Trees
    BY <2>2 DEF IsTransplanted
  <2>4. IsAttached(one, y, "right", b, new)
    BY <1>1, <2>1, <2>3, AttachedIs
  <2>5. LiftedOut(tr, z, y) = new
    BY <1>1, <1>3, <2>1 DEF LiftedOut
  <2>6. /\ one.root = tr.root /\ one.color = tr.color
        /\ \A e \in Sides, m \in Prices : one.kid[e][m] =
             IF e = f /\ m = r THEN c ELSE tr.kid[e][m]
        /\ \A m \in Prices : one.parent[m] = IF m = c THEN r ELSE tr.parent[m]
    BY <1>1, <2>2 DEF IsTransplanted
  <2>7. /\ new \in Trees /\ new.root = one.root /\ new.color = one.color
        /\ \A e \in Sides, m \in Prices : new.kid[e][m] =
             IF e = "right" /\ m = y THEN b ELSE one.kid[e][m]
        /\ \A m \in Prices : new.parent[m] = IF m = b THEN y ELSE one.parent[m]
    BY <2>4 DEF IsAttached
  <2>8. IsLiftedOut(tr, z, y, a, b, c, q, r, s, f, new)
    BY <1>3, <2>6, <2>7 DEF IsLiftedOut
  <2> QED BY <2>5, <2>8
<1> QED BY <1>2, <1>3

\* y takes the place of z, as if it had been taken out first.
LEMMA MovedUpIs ==
  ASSUME NEW tr \in Trees, NEW L \in SUBSET Prices, NEW z, NEW y, NEW a, NEW b, NEW c,
         NEW q, NEW r, NEW s, NEW f, InnerAt(tr, L, z, y, a, b, c, q, r, s, f),
         NEW cut, IsSpliced(tr, y, c, cut)
  PROVE  IsSwapped(cut, z, y, Recycled(MovedUp(tr, z, y), z))
<1>1. PICK l1, l2, l3, l4, new :
        /\ l1 = LiftedOut(tr, z, y) /\ l2 = Transplant(l1, z, y)
        /\ l3 = Attached(l2, y, "left", a) /\ l4 = Painted(l3, y, tr.color[z])
        /\ new = Recycled(l4, z)
  OBVIOUS
<1>2. /\ z \in Prices /\ y \in Prices /\ a \in Prices /\ b \in Prices /\ c \in Maybe
      /\ q \in Maybe /\ a \in Maybe /\ y \in Maybe /\ y # Nil /\ z # Nil
      /\ r \in Prices /\ r # Nil /\ f \in Sides /\ tr.color[z] \in Colors
      /\ a = tr.kid["left"][z] /\ b = tr.kid["right"][z] /\ c = tr.kid["right"][y]
      /\ tr.kid["left"][y] = Nil
      /\ q = tr.parent[z] /\ r = tr.parent[y] /\ f = SideOf(tr, y) /\ s = SideOf(tr, z)
      /\ "left" \in Sides /\ "right" \in Sides /\ Sides = {"left", "right"}
      /\ \A m \in Prices : m # Nil
  BY PriceFacts, TreeFields DEF InnerAt, Maybe, Sides
<1>3. /\ z # y /\ a # z /\ b # z /\ a # b /\ a # y /\ c # z /\ c # y /\ c # a /\ c # b
      /\ q # z /\ q # y /\ q # r /\ r # y
      /\ q = Nil <=> z = tr.root
      /\ y # tr.root
      /\ r = z => y = b /\ f = "right"
      /\ r # z => y # b
  BY DEF InnerAt
<1>4. /\ \A m \in Prices : tr.parent[m] = z <=> m \in {a, b}
      /\ \A m \in Prices : tr.parent[m] = y <=> c # Nil /\ m = c
      /\ \A e \in Sides, m \in Prices : tr.kid[e][m] = z <=> q # Nil /\ m = q /\ e = s
      /\ \A e \in Sides, m \in Prices : tr.kid[e][m] = y <=> m = r /\ e = f
  BY DEF InnerAt
<1>5. /\ l1 \in Trees /\ l1.root = tr.root /\ l1.color = tr.color
      /\ \A e \in Sides, m \in Prices : l1.kid[e][m] =
           IF m = y /\ e = "right" /\ r # z THEN b
           ELSE IF m = r /\ e = f /\ r # z THEN c ELSE tr.kid[e][m]
      /\ \A m \in Prices : l1.parent[m] =
           IF m = b /\ r # z THEN y ELSE IF m = c /\ r # z THEN r ELSE tr.parent[m]
  <2>1. IsLiftedOut(tr, z, y, a, b, c, q, r, s, f, LiftedOut(tr, z, y))
    BY LiftedOutIs
  <2> QED BY <1>1, <2>1 DEF IsLiftedOut
<1>6. l1.parent[z] = q /\ (q # Nil => SideOf(l1, z) = s)
  <2>1. l1.parent[z] = q
    BY <1>2, <1>3, <1>5
  <2>2. q # Nil => l1.kid["left"][q] = tr.kid["left"][q]
    BY <1>2, <1>3, <1>5 DEF Maybe
  <2> QED BY <1>2, <2>1, <2>2 DEF SideOf
<1>7. IsTransplanted(l1, z, y, l2)
  BY <1>1, <1>2, <1>5, TransplantIs
<1>8. /\ l2 \in Trees /\ l2.root = IF q = Nil THEN y ELSE tr.root
      /\ l2.color = tr.color
      /\ \A e \in Sides, m \in Prices : l2.kid[e][m] =
           IF q # Nil /\ e = s /\ m = q THEN y ELSE l1.kid[e][m]
      /\ \A m \in Prices : l2.parent[m] = IF m = y THEN q ELSE l1.parent[m]
  BY <1>5, <1>6, <1>7 DEF IsTransplanted
<1>9. IsAttached(l2, y, "left", a, l3)
  BY <1>1, <1>2, <1>8, AttachedIs
<1>10. /\ l3 \in Trees /\ l3.root = l2.root /\ l3.color = tr.color
       /\ \A e \in Sides, m \in Prices : l3.kid[e][m] =
            IF e = "left" /\ m = y THEN a ELSE l2.kid[e][m]
       /\ \A m \in Prices : l3.parent[m] = IF m = a THEN y ELSE l2.parent[m]
  BY <1>8, <1>9 DEF IsAttached
<1>11. IsPainted(l3, y, tr.color[z], l4)
  BY <1>1, <1>2, <1>10, PaintedIs
<1>12. /\ l4 \in Trees /\ l4.root = l3.root /\ l4.kid = l3.kid /\ l4.parent = l3.parent
       /\ \A m \in Prices : l4.color[m] = IF m = y THEN tr.color[z] ELSE tr.color[m]
  BY <1>10, <1>11 DEF IsPainted
<1>13. /\ new \in Trees /\ new.root = l4.root
       /\ \A e \in Sides, m \in Prices : new.kid[e][m] = IF m = z THEN Nil ELSE l4.kid[e][m]
       /\ \A m \in Prices : new.parent[m] = IF m = z THEN Nil ELSE l4.parent[m]
       /\ \A m \in Prices : new.color[m] = IF m = z THEN "black" ELSE l4.color[m]
  <2>1. IsRecycled(l4, z, Recycled(l4, z))
    BY <1>2, <1>12, RecycledIs
  <2> QED BY <1>1, <2>1 DEF IsRecycled
<1>14. /\ new.root = Swap(z, y, tr.root)
       /\ \A e \in Sides, m \in Prices : new.kid[e][m] =
            IF m = z THEN Nil
            ELSE IF m = y THEN (IF e = "left" THEN a ELSE IF r # z THEN b ELSE c)
            ELSE IF q # Nil /\ e = s /\ m = q THEN y
            ELSE IF m = r /\ e = f THEN c ELSE tr.kid[e][m]
       /\ \A m \in Prices : new.parent[m] =
            IF m = z THEN Nil ELSE IF m = a THEN y ELSE IF m = y THEN q
            ELSE IF m = b THEN y ELSE IF m = c /\ r # z THEN r ELSE tr.parent[m]
       /\ \A m \in Prices : new.color[m] =
            IF m = z THEN "black" ELSE IF m = y THEN tr.color[z] ELSE tr.color[m]
  <2>1. new.root = Swap(z, y, tr.root)
    BY <1>3, <1>8, <1>10, <1>12, <1>13 DEF Swap
  <2>2. \A e \in Sides, m \in Prices : new.kid[e][m] =
          IF m = z THEN Nil
          ELSE IF e = "left" /\ m = y THEN a
          ELSE IF q # Nil /\ e = s /\ m = q THEN y ELSE l1.kid[e][m]
    BY <1>8, <1>10, <1>12, <1>13
  <2>3. ASSUME NEW e \in Sides, NEW m \in Prices, m # z
        PROVE  new.kid[e][m] =
            IF m = y THEN (IF e = "left" THEN a ELSE IF r # z THEN b ELSE c)
            ELSE IF q # Nil /\ e = s /\ m = q THEN y
            ELSE IF m = r /\ e = f THEN c ELSE tr.kid[e][m]
    <3>1. CASE m = y
      BY <1>2, <1>3, <1>5, <2>2, <2>3, <3>1
    <3>2. CASE m # y
      BY <1>3, <1>5, <2>2, <2>3, <3>2
    <3> QED BY <3>1, <3>2
  <2>4. \A m \in Prices : new.parent[m] =
          IF m = z THEN Nil ELSE IF m = a THEN y ELSE IF m = y THEN q ELSE l1.parent[m]
    BY <1>8, <1>10, <1>12, <1>13
  <2>5. ASSUME NEW m \in Prices, m # z, m # a, m # y
        PROVE  new.parent[m] = IF m = b THEN y ELSE IF m = c /\ r # z THEN r ELSE tr.parent[m]
    BY <1>3, <1>5, <2>4, <2>5
  <2>6. \A m \in Prices : new.color[m] =
          IF m = z THEN "black" ELSE IF m = y THEN tr.color[z] ELSE tr.color[m]
    BY <1>12, <1>13
  <2> QED BY <2>1, <2>2, <2>3, <2>4, <2>5, <2>6
<1>15. /\ cut.root = tr.root
       /\ \A e \in Sides, m \in Prices : cut.kid[e][m] =
            IF m = y THEN Nil ELSE IF tr.kid[e][m] = y THEN c ELSE tr.kid[e][m]
       /\ \A m \in Prices : cut.parent[m] =
            IF m = y THEN Nil ELSE IF m = c THEN r ELSE tr.parent[m]
       /\ \A m \in Prices : cut.color[m] = IF m = y THEN "black" ELSE tr.color[m]
  BY <1>2, <1>3 DEF IsSpliced
<1>16. ASSUME NEW e \in Sides, NEW m \in Prices, m # z
       PROVE  new.kid[e][m] = Swap(z, y, cut.kid[e][Swap(y, z, m)])
  <2>1. CASE m = y /\ e = "left"
    <3>1. Swap(y, z, m) = z /\ cut.kid[e][z] = a
      BY <1>2, <1>3, <1>15, <2>1 DEF Swap
    <3> QED BY <1>3, <1>14, <1>16, <2>1, <3>1 DEF Swap
  <2>2. CASE m = y /\ e = "right"
    <3>1. Swap(y, z, m) = z /\ cut.kid[e][z] = IF b = y THEN c ELSE b
      BY <1>2, <1>3, <1>15, <2>2 DEF Swap
    <3> QED BY <1>3, <1>14, <1>16, <2>2, <3>1 DEF Swap
  <2>3. CASE m # y
    <3>1. Swap(y, z, m) = m /\ cut.kid[e][m] = IF m = r /\ e = f THEN c ELSE tr.kid[e][m]
      BY <1>4, <1>15, <2>3 DEF Swap
    <3>2. tr.kid[e][m] = z <=> q # Nil /\ m = q /\ e = s
      BY <1>4
    <3> QED BY <1>3, <1>14, <1>16, <2>3, <3>1, <3>2 DEF Swap
  <2> QED BY <1>2, <2>1, <2>2, <2>3
<1>17. ASSUME NEW m \in Prices, m # z
       PROVE  new.parent[m] = Swap(z, y, cut.parent[Swap(y, z, m)])
  <2>1. CASE m = y
    <3>1. Swap(y, z, m) = z /\ cut.parent[z] = q
      BY <1>2, <1>3, <1>15, <2>1 DEF Swap
    <3> QED BY <1>3, <1>14, <1>17, <2>1, <3>1 DEF Swap
  <2>2. CASE m # y
    <3>1. Swap(y, z, m) = m /\ cut.parent[m] = IF m = c THEN r ELSE tr.parent[m]
      BY <1>15, <2>2 DEF Swap
    <3>2. /\ tr.parent[m] = z <=> m \in {a, b}
          /\ tr.parent[m] = y <=> c # Nil /\ m = c
      BY <1>4
    <3>3. CASE m = c
      <4>1. new.parent[m] = IF r # z THEN r ELSE y
        BY <1>2, <1>3, <1>14, <1>17, <2>2, <3>2, <3>3
      <4> QED BY <3>1, <3>3, <4>1 DEF Swap
    <3>4. CASE m # c
      BY <1>3, <1>14, <1>17, <2>2, <3>1, <3>2, <3>4 DEF Swap
    <3> QED BY <3>3, <3>4
  <2> QED BY <2>1, <2>2
<1>18. ASSUME NEW m \in Prices, m # z
       PROVE  new.color[m] = cut.color[Swap(y, z, m)]
  BY <1>2, <1>3, <1>14, <1>15, <1>18 DEF Swap
<1>19. IsSwapped(cut, z, y, new)
  BY <1>13, <1>14, <1>15, <1>16, <1>17, <1>18 DEF IsSwapped
<1>20. new = Recycled(MovedUp(tr, z, y), z)
  BY <1>1, <1>2 DEF MovedUp
<1> QED BY <1>19, <1>20

\* After z is erased the tree is sound, or a black level short where the
\* fix-up begins.
Erased(z, new, K) ==
  \E s2, b2, h2 :
    IF Deleted(z).lost = "black"
    THEN Shape(new, K, s2, b2, h2, "erasing", Deleted(z).at, Deleted(z).under)
    ELSE Shape(new, K, s2, b2, h2, "idle", Nil, Nil)

LEMMA EraseEnd ==
  ASSUME NEW L, NEW sub, NEW bh, NEW hd, Shape(t, L, sub, bh, hd, "idle", Nil, Nil),
         NEW z \in L, t.kid["left"][z] = Nil \/ t.kid["right"][z] = Nil
  PROVE  Erased(z, Recycled(Deleted(z).tree, z), L \ {z})
<1>1. PICK e \in Sides : /\ t.kid[Other(e)][z] = Nil
                         /\ t.kid[e][z] = IF t.kid["left"][z] = Nil THEN t.kid["right"][z]
                                          ELSE t.kid["left"][z]
  BY DEF Sides, Other
<1>2. PICK c, q, new : /\ c = t.kid[e][z] /\ q = t.parent[z]
                       /\ new = Recycled(Transplant(t, z, c), z)
  OBVIOUS
<1>3. TreeOK(t, L, sub)
  BY DEF Shape
<1>4. CanSplice(t, L, sub, z, e)
  BY <1>1, <1>3 DEF CanSplice
<1>5. IsSpliced(t, z, c, new)
  <2>1. IsSpliced(t, z, t.kid[e][z], Recycled(Transplant(t, z, t.kid[e][z]), z))
    BY <1>4, SpliceIs
  <2> QED BY <1>2, <2>1
<1>6. CanCut(t, L, sub, bh, hd, z, e, c, q, new)
  BY <1>2, <1>4, <1>5 DEF CanCut
<1>7. Cut(t, sub, z, bh, c, q, new, L \ {z})
  BY <1>6, CutShape
<1>8. /\ Deleted(z).tree = Transplant(t, z, c) /\ Deleted(z).lost = t.color[z]
      /\ Deleted(z).at = c /\ Deleted(z).under = q
  BY <1>1, <1>2 DEF Deleted
<1>9. Recycled(Deleted(z).tree, z) = new
  BY <1>2, <1>8
<1>10. Erased(z, new, L \ {z})
  BY <1>7, <1>8 DEF Cut, Erased
<1> QED BY <1>9, <1>10

LEMMA EraseMiddle ==
  ASSUME NEW L, NEW sub, NEW bh, NEW hd, Shape(t, L, sub, bh, hd, "idle", Nil, Nil),
         NEW z \in L, t.kid["left"][z] # Nil, t.kid["right"][z] # Nil
  PROVE  Erased(z, Recycled(Deleted(z).tree, z), L \ {z})
<1>1. PICK y, a, b, c, q, r, s, f :
        /\ a = t.kid["left"][z] /\ b = t.kid["right"][z] /\ y = Minimum[b]
        /\ c = t.kid["right"][y] /\ q = t.parent[z] /\ r = t.parent[y]
        /\ s = SideOf(t, z) /\ f = SideOf(t, y)
  OBVIOUS
<1>2. /\ TreeOK(t, L, sub) /\ t \in Trees /\ L \in SUBSET Prices
      /\ "right" \in Sides /\ Other("right") = "left"
  BY DEF Shape, TreeOK, Sides, Other
<1>3. b \in L
  <2>1. t.kid["right"][z] \in L
    BY <1>2, KidFacts
  <2> QED BY <1>1, <2>1
<1>4. /\ y \in sub[b] /\ y \in L /\ t.kid["left"][y] = Nil /\ \A m \in sub[b] : y <= m
  BY <1>1, <1>2, <1>3, MinimumIs
<1>5. InnerAt(t, L, z, y, a, b, c, q, r, s, f)
  <2>1. a # Nil /\ b # Nil
    BY <1>1
  <2>2. InnerAt(t, L, z, y, a, b, t.kid["right"][y], t.parent[z], t.parent[y],
                SideOf(t, z), SideOf(t, y))
    BY <1>1, <1>2, <1>4, <2>1, InnerFacts
  <2> QED BY <1>1, <2>2
<1>6. CanSplice(t, L, sub, y, "right")
  BY <1>2, <1>4 DEF CanSplice
<1>7. PICK cut : IsSpliced(t, y, c, cut)
  BY <1>1, <1>6, SpliceIs
<1>8. PICK new : new = Recycled(MovedUp(t, z, y), z)
  OBVIOUS
<1>9. IsSwapped(cut, z, y, new)
  BY <1>2, <1>5, <1>7, <1>8, MovedUpIs
<1>10. PICK M, s1 : M = L \ {y} /\ s1 = SplicedSub(sub, y)
  OBVIOUS
<1>11. CanCut(t, L, sub, bh, hd, y, "right", c, r, cut)
  BY <1>1, <1>6, <1>7 DEF CanCut
<1>12. Cut(t, sub, y, bh, c, r, cut, M)
  BY <1>10, <1>11, CutShape
<1>13. CanSwap(cut, M, s1, z, y)
  <2>1. TreeOK(cut, M, s1)
    <3>1. IsSpliced(t, y, t.kid["right"][y], cut)
      BY <1>1, <1>7
    <3> QED BY <1>6, <1>10, <3>1, SpliceTree
  <2>2. z \in M /\ y \in Prices \ M /\ \A m \in M : m # z => ((m < y) <=> (m < z))
    BY <1>2, <1>5, <1>10 DEF InnerAt
  <2> QED BY <2>1, <2>2 DEF CanSwap
<1>14. /\ SwapIn(z, y, M) = L \ {z} /\ c \in M \union {Nil} /\ Nil \in M \union {Nil}
       /\ Swap(z, y, c) = c /\ Swap(z, y, Nil) = Nil
       /\ Swap(z, y, r) = IF r = z THEN y ELSE r
  BY <1>2, <1>5, <1>10, PriceFacts DEF InnerAt, SwapIn, Swap
<1>15. /\ Deleted(z).tree = MovedUp(t, z, y) /\ Deleted(z).lost = t.color[y]
       /\ Deleted(z).at = c /\ Deleted(z).under = IF r = z THEN y ELSE r
  BY <1>1 DEF Deleted, MovedUp, LiftedOut
<1>16. CASE t.color[y] = "black"
  <2>1. PICK h2 : Shape(cut, M, s1, bh, h2, "erasing", c, r)
    BY <1>10, <1>12, <1>16 DEF Cut
  <2>2. CanReplace(cut, M, s1, bh, h2, "erasing", c, r, z, y, new)
    BY <1>9, <1>13, <1>14, <2>1 DEF CanReplace
  <2>3. \E s2, b2 : Shape(new, SwapIn(z, y, M), s2, b2, h2, "erasing",
                          Swap(z, y, c), Swap(z, y, r))
    BY <2>2, SwapShape
  <2>4. \E s2, b2 : Shape(new, L \ {z}, s2, b2, h2, "erasing",
                          Deleted(z).at, Deleted(z).under)
    BY <1>14, <1>15, <2>3
  <2>5. Erased(z, new, L \ {z})
    BY <1>15, <1>16, <2>4 DEF Erased
  <2> QED BY <1>8, <1>15, <2>5
<1>17. CASE t.color[y] # "black"
  <2>1. PICK h2 : Shape(cut, M, s1, bh, h2, "idle", Nil, Nil)
    BY <1>10, <1>12, <1>17 DEF Cut
  <2>2. CanReplace(cut, M, s1, bh, h2, "idle", Nil, Nil, z, y, new)
    BY <1>9, <1>13, <1>14, <2>1 DEF CanReplace
  <2>3. \E s2, b2 : Shape(new, SwapIn(z, y, M), s2, b2, h2, "idle",
                          Swap(z, y, Nil), Swap(z, y, Nil))
    BY <2>2, SwapShape
  <2>4. \E s2, b2 : Shape(new, L \ {z}, s2, b2, h2, "idle", Nil, Nil)
    BY <1>14, <2>3
  <2>5. Erased(z, new, L \ {z})
    BY <1>15, <1>17, <2>4 DEF Erased
  <2> QED BY <1>8, <1>15, <2>5
<1> QED BY <1>16, <1>17

-----------------------------------------------------------------------------
(* Restoring the colours after a deletion.                                 *)

\* y, on side d of p, is a black level short of its sibling w.
ShortAt(tr, L, sub, bh, d, o, y, p, w) ==
  /\ TreeOK(tr, L, sub) /\ HeightsOK(tr, L, bh, p, d)
  /\ d \in Sides /\ o = Other(d)
  /\ p \in L /\ w \in L /\ y \in L \union {Nil}
  /\ tr.kid[d][p] = y /\ tr.kid[o][p] = w
  /\ ColorOf(tr, y) = "black"
  /\ tr.root \in L /\ ColorOf(tr, tr.root) = "black"
  /\ \A m \in L, e \in Sides : ~ RedChild(tr, m, e)
  /\ bh[w] = bh[y] + 1

LEMMA FixingAt ==
  ASSUME NEW tr, NEW L, NEW sub, NEW bh, NEW hd, NEW y, NEW p,
         Shape(tr, L, sub, bh, hd, "erasing", y, p),
         y # tr.root, ColorOf(tr, y) = "black"
  PROVE  /\ hd \in Sides /\ tr.kid[hd][p] = y
         /\ (IF tr.kid["left"][p] = y THEN "left" ELSE "right") = hd
         /\ ShortAt(tr, L, sub, bh, hd, Other(hd), y, p, tr.kid[Other(hd)][p])
<1>1. TreeOK(tr, L, sub) /\ HeightsOK(tr, L, bh, p, hd)
  BY DEF Shape
<1>2. /\ p \in L /\ hd \in Sides /\ tr.kid[hd][p] = y
      /\ \A m \in L, e \in Sides : RedChild(tr, m, e) => y \in {m, tr.kid[e][m]}
      /\ ColorOf(tr, tr.root) = "black"
  BY DEF Shape, ColorsOK
<1>3. PICK o, w : o = Other(hd) /\ w = tr.kid[o][p]
  OBVIOUS
<1>4. /\ L \subseteq Prices /\ Nil \notin L /\ o \in Sides /\ o # hd /\ hd = Other(o)
      /\ \A m \in L, e \in Sides : tr.kid[e][m] \in L \union {Nil}
      /\ \A m \in L \union {Nil} : bh[m] \in Nat \ {0}
      /\ bh[Nil] = 1
  BY <1>1, <1>2, <1>3, ShapeFacts, SideFacts
<1>5. bh[w] = bh[y] + 1 /\ y \in L \union {Nil} /\ w \in L \union {Nil}
  <2>1. /\ bh[p] = bh[tr.kid[hd][p]] + Unit(tr, p) + 1
        /\ bh[p] = bh[tr.kid[o][p]] + Unit(tr, p)
    BY <1>1, <1>2, <1>4, HeightIs
  <2>2. bh[tr.kid[hd][p]] \in Nat /\ bh[tr.kid[o][p]] \in Nat /\ Unit(tr, p) \in Nat
    BY <1>2, <1>4 DEF Unit
  <2>3. bh[tr.kid[o][p]] = bh[tr.kid[hd][p]] + 1
    BY <2>1, <2>2
  <2> QED BY <1>2, <1>3, <1>4, <2>3
<1>6. w # Nil /\ w \in L /\ w # y
  <2>1. bh[y] \in Nat \ {0}
    BY <1>4, <1>5
  <2>2. bh[w] # 1 /\ bh[w] # bh[y]
    BY <1>5, <2>1
  <2> QED BY <1>4, <1>5, <2>2
<1>7. (IF tr.kid["left"][p] = y THEN "left" ELSE "right") = hd
  <2>1. CASE hd = "left"
    BY <1>2, <2>1
  <2>2. CASE hd = "right"
    <3>1. o = "left"
      BY <1>3, <2>2 DEF Other
    <3> QED BY <1>3, <1>6, <2>2, <3>1
  <2> QED BY <1>2, <2>1, <2>2 DEF Sides
<1>8. ASSUME NEW m \in L, NEW e \in Sides, RedChild(tr, m, e)
      PROVE  FALSE
  <2>1. CASE y = tr.kid[e][m]
    BY <1>8, <2>1 DEF RedChild
  <2>2. CASE y = m
    BY <1>4, <1>8, <2>2 DEF RedChild, ColorOf
  <2> QED BY <1>2, <1>8, <2>1, <2>2
<1>9. tr.root \in L
  BY <1>1, <1>2 DEF TreeOK
<1>10. ShortAt(tr, L, sub, bh, hd, o, y, p, w)
  BY <1>1, <1>2, <1>3, <1>5, <1>6, <1>8, <1>9 DEF ShortAt
<1> QED BY <1>2, <1>3, <1>7, <1>10

\* What every case of the fix-up starts from.
LEMMA ShortFacts ==
  ASSUME NEW tr, NEW L, NEW sub, NEW bh, NEW d, NEW o, NEW y, NEW p, NEW w,
         ShortAt(tr, L, sub, bh, d, o, y, p, w)
  PROVE  /\ TreeOK(tr, L, sub) /\ HeightsOK(tr, L, bh, p, d)
         /\ d \in Sides /\ o \in Sides /\ o # d /\ o = Other(d) /\ d = Other(o)
         /\ \A e \in Sides : e = d \/ e = o
         /\ tr \in Trees /\ L \subseteq Prices /\ Nil \notin L /\ Nil \notin Prices
         /\ \A m \in L : m \in Maybe /\ tr.color[m] \in Colors
         /\ \A m \in Prices : m \in Maybe
         /\ \A m \in L, e \in Sides : tr.kid[e][m] \in L \union {Nil}
         /\ \A m \in L \union {Nil} : bh[m] \in Nat \ {0}
         /\ Nil \in Maybe /\ bh \in [Maybe -> Nat \ {0}] /\ bh[Nil] = 1
         /\ p \in L /\ w \in L /\ y \in L \union {Nil}
         /\ p # w /\ y # p /\ y # w /\ w # tr.root
         /\ tr.kid[d][p] = y /\ tr.kid[o][p] = w /\ ColorOf(tr, y) = "black"
         /\ \A m \in L, e \in Sides : tr.kid[e][m] = w <=> m = p /\ e = o
         /\ \A m \in L, e \in Sides : ~ RedChild(tr, m, e)
         /\ \A m \in L, e \in Sides :
              /\ ~ (m = p /\ e = d) => bh[m] = bh[tr.kid[e][m]] + Unit(tr, m)
              /\ m = p /\ e = d => bh[m] = bh[tr.kid[e][m]] + Unit(tr, m) + 1
         /\ tr.root \in L /\ ColorOf(tr, tr.root) = "black" /\ bh[w] = bh[y] + 1
<1>1. TreeOK(tr, L, sub) /\ HeightsOK(tr, L, bh, p, d)
  BY DEF ShortAt
<1>2. /\ d \in Sides /\ o \in Sides /\ o # d /\ o = Other(d) /\ d = Other(o)
      /\ \A e \in Sides : e = d \/ e = o
  BY SideFacts DEF ShortAt
<1>3. /\ tr \in Trees /\ L \subseteq Prices /\ Nil \notin L /\ Nil \notin Prices
      /\ \A m \in L : m \in Maybe /\ tr.color[m] \in Colors
      /\ \A m \in Prices : m \in Maybe
      /\ \A m \in L, e \in Sides : tr.kid[e][m] \in L \union {Nil}
      /\ \A m \in L \union {Nil} : bh[m] \in Nat \ {0}
      /\ Nil \in Maybe /\ bh \in [Maybe -> Nat \ {0}] /\ bh[Nil] = 1
  BY <1>1, ShapeFacts
<1>4. /\ p \in L /\ w \in L /\ y \in L \union {Nil}
      /\ tr.kid[d][p] = y /\ tr.kid[o][p] = w /\ ColorOf(tr, y) = "black"
      /\ tr.root \in L /\ ColorOf(tr, tr.root) = "black" /\ bh[w] = bh[y] + 1
      /\ \A m \in L, e \in Sides : ~ RedChild(tr, m, e)
  BY DEF ShortAt
<1>5. p # w /\ y # p /\ y # w /\ w # tr.root
  <2>1. \A e \in Sides : tr.kid[e][p] # Nil =>
          /\ tr.kid[e][p] # p /\ tr.kid[e][p] # tr.kid[Other(e)][p] /\ tr.kid[e][p] # tr.root
    BY <1>1, <1>4, KidFacts
  <2> QED BY <1>2, <1>3, <1>4, <2>1
<1>6. \A m \in L, e \in Sides : tr.kid[e][m] = w <=> m = p /\ e = o
  <2>1. \A m \in L, e \in Sides : tr.kid[e][m] = w => m = tr.parent[w] /\ e = SideOf(tr, w)
    BY <1>1, <1>4, ParentFacts
  <2> QED BY <1>2, <1>4, <2>1
<1>7. \A m \in L, e \in Sides :
        /\ ~ (m = p /\ e = d) => bh[m] = bh[tr.kid[e][m]] + Unit(tr, m)
        /\ m = p /\ e = d => bh[m] = bh[tr.kid[e][m]] + Unit(tr, m) + 1
  BY <1>1, HeightIs
<1> QED BY <1>1, <1>2, <1>3, <1>4, <1>5, <1>6, <1>7

\* A red sibling painted black is rotated over the parent, painted red.
CanLower(tr, L, sub, bh, d, o, y, p, w, mid, new) ==
  /\ ShortAt(tr, L, sub, bh, d, o, y, p, w)
  /\ tr.color[w] = "red"
  /\ IsPainted3(tr, w, Nil, p, "red", mid)
  /\ IsRotated(mid, p, d, new)

LEMMA Lower ==
  ASSUME NEW tr, NEW L, NEW sub, NEW bh, NEW d, NEW o, NEW y, NEW p, NEW w,
         NEW mid, NEW new, CanLower(tr, L, sub, bh, d, o, y, p, w, mid, new)
  PROVE  \E s2, b2, v : /\ ShortAt(new, L, s2, b2, d, o, y, p, v)
                        /\ ColorOf(new, v) = "black"
<1>1. /\ TreeOK(tr, L, sub) /\ HeightsOK(tr, L, bh, p, d)
      /\ d \in Sides /\ o \in Sides /\ o # d /\ o = Other(d) /\ d = Other(o)
      /\ \A e \in Sides : e = d \/ e = o
      /\ L \subseteq Prices /\ Nil \notin L
      /\ \A m \in L : m \in Maybe /\ tr.color[m] \in Colors
      /\ \A m \in L, e \in Sides : tr.kid[e][m] \in L \union {Nil}
      /\ \A m \in L \union {Nil} : bh[m] \in Nat \ {0}
      /\ Nil \in Maybe /\ bh \in [Maybe -> Nat \ {0}] /\ bh[Nil] = 1
      /\ p \in L /\ w \in L /\ y \in L \union {Nil}
      /\ p # w /\ y # p /\ y # w /\ w # tr.root
      /\ tr.kid[d][p] = y /\ tr.kid[o][p] = w /\ ColorOf(tr, y) = "black"
      /\ \A m \in L, e \in Sides : ~ RedChild(tr, m, e)
      /\ tr.root \in L /\ ColorOf(tr, tr.root) = "black" /\ bh[w] = bh[y] + 1
  BY ShortFacts DEF CanLower
<1>2. \A m \in L, e \in Sides :
        /\ ~ (m = p /\ e = d) => bh[m] = bh[tr.kid[e][m]] + Unit(tr, m)
        /\ m = p /\ e = d => bh[m] = bh[tr.kid[e][m]] + Unit(tr, m) + 1
  BY ShortFacts DEF CanLower
<1>3. tr.color[w] = "red" /\ tr.color[p] = "black"
  <2>1. tr.color[w] = "red" /\ ~ RedChild(tr, p, o)
    BY <1>1 DEF CanLower
  <2> QED BY <1>1, <2>1 DEF RedChild, ColorOf, Colors
<1>4. /\ IsRepainted(tr, mid) /\ mid.kid = tr.kid /\ mid.root = tr.root
      /\ \A m \in L : mid.color[m] =
           IF m = p THEN "red" ELSE IF m = w THEN "black" ELSE tr.color[m]
      /\ \A m \in Prices \ L : mid.color[m] = tr.color[m]
  <2>1. /\ IsRepainted(tr, mid)
        /\ \A m \in Prices : mid.color[m] =
             IF m = p THEN "red" ELSE IF m = Nil \/ m = w THEN "black" ELSE tr.color[m]
    BY DEF CanLower, IsPainted3
  <2>2. mid.kid = tr.kid /\ mid.root = tr.root
    BY <2>1 DEF IsRepainted
  <2>3. \A m \in Prices : m # Nil
    BY PriceFacts
  <2> QED BY <1>1, <2>1, <2>2, <2>3
<1>5. TreeOK(mid, L, sub)
  BY <1>1, <1>4, PaintTree
<1>6. CanRotate(mid, L, sub, p, d) /\ IsRotated(mid, p, d, new)
  BY <1>1, <1>4, <1>5 DEF CanRotate, CanLower
<1>7. PICK s2 : s2 = RotSub(mid, sub, p, d) /\ TreeOK(new, L, s2)
  BY <1>6, RotateTree
<1>8. PICK v, i : v = tr.kid[d][w] /\ i = tr.kid[o][w]
  OBVIOUS
<1>9. /\ new.kid[d][p] = y /\ new.kid[o][p] = v
      /\ new.kid[d][w] = p /\ new.kid[o][w] = i
      /\ \A m \in L, e \in Sides : m # p /\ m # w =>
           /\ tr.kid[e][m] # w
           /\ new.kid[e][m] = IF tr.kid[e][m] = p THEN w ELSE tr.kid[e][m]
  <2>1. w = mid.kid[o][p] /\ o = Other(d)
    BY <1>1, <1>4
  <2>2. /\ new.kid[d][p] = mid.kid[d][p] /\ new.kid[o][p] = mid.kid[d][w]
        /\ new.kid[d][w] = p /\ new.kid[o][w] = mid.kid[o][w]
        /\ \A m \in L, e \in Sides : m # p /\ m # w =>
             /\ mid.kid[e][m] # w
             /\ new.kid[e][m] = IF mid.kid[e][m] = p THEN w ELSE mid.kid[e][m]
    BY <1>6, <2>1, RotateKids
  <2>3. /\ mid.kid[d][p] = y /\ mid.kid[d][w] = v /\ mid.kid[o][w] = i
    BY <1>1, <1>4, <1>8
  <2>4. \A m \in L, e \in Sides : mid.kid[e][m] = tr.kid[e][m]
    BY <1>4
  <2> QED BY <2>2, <2>3, <2>4
<1>10. v \in L \union {Nil} /\ v # p /\ v # w /\ i \in L \union {Nil} /\ i # p /\ i # w
  <2>1. w = mid.kid[o][p] /\ v = mid.kid[d][w] /\ i = mid.kid[o][w]
    BY <1>1, <1>4, <1>8
  <2>2. o = Other(d)
    BY <1>1
  <2>3. /\ v \in L \union {Nil} /\ v # p /\ v # w
        /\ mid.kid[o][w] \in L \union {Nil} /\ mid.kid[o][w] \notin {p, w}
    BY <1>6, <2>1, <2>2, RotateParts
  <2> QED BY <2>1, <2>3
<1>11. PICK b2 : b2 = [m \in Maybe |-> IF m = p THEN bh[w] ELSE IF m = w THEN bh[p] ELSE bh[m]]
  OBVIOUS
<1>12. /\ b2 \in [Maybe -> Nat \ {0}] /\ b2[Nil] = 1
       /\ b2[p] = bh[w] /\ b2[w] = bh[p]
       /\ \A m \in L \union {Nil} : m # p /\ m # w => b2[m] = bh[m]
  BY <1>1, <1>11
<1>13. /\ bh[w] \in Nat \ {0} /\ bh[p] = bh[w] + 1 /\ bh[v] = bh[w] /\ bh[i] = bh[w]
       /\ bh[w] = bh[y] + 1 /\ bh[y] \in Nat \ {0}
  <2>1. Unit(tr, p) = 1 /\ Unit(tr, w) = 0
    BY <1>3 DEF Unit
  <2>2. bh[p] = bh[w] + 1
    <3>1. bh[p] = bh[tr.kid[o][p]] + Unit(tr, p)
      BY <1>1, <1>2
    <3> QED BY <3>1, <2>1, <1>1
  <2>3. bh[w] = bh[v] + 0
    <3>1. bh[w] = bh[tr.kid[d][w]] + Unit(tr, w)
      BY <1>1, <1>2
    <3> QED BY <3>1, <2>1, <1>8
  <2>4. bh[w] = bh[i] + 0
    <3>1. bh[w] = bh[tr.kid[o][w]] + Unit(tr, w)
      BY <1>1, <1>2
    <3> QED BY <3>1, <2>1, <1>8
  <2> QED BY <1>1, <1>10, <2>2, <2>3, <2>4
<1>14. v # Nil
  <2>1. bh[v] # 1
    BY <1>13
  <2> QED BY <1>1, <2>1
<1>15. \A m \in L : new.color[m] =
         IF m = p THEN "red" ELSE IF m = w THEN "black" ELSE tr.color[m]
  BY <1>4, <1>6 DEF IsRotated
<1>16. ASSUME NEW m \in L PROVE HeightOK(new, b2, p, d, m)
  <2>1. CASE m # p /\ m # w
    <3>1. HeightOK(mid, bh, p, d, m)
      <4>1. HeightOK(tr, bh, p, d, m)
        BY <1>1 DEF HeightsOK
      <4>2. Unit(mid, m) = Unit(tr, m)
        BY <1>4, <2>1 DEF Unit
      <4> QED BY <1>4, <4>1, <4>2 DEF HeightOK
    <3>2. w = mid.kid[Other(d)][p]
      BY <1>1, <1>4
    <3> QED BY <1>6, <1>12, <2>1, <3>1, <3>2, RotateHeight
  <2>2. CASE m = p
    <3>1. Unit(new, m) = 0 /\ b2[m] = bh[w]
      BY <1>12, <1>15, <2>2 DEF Unit
    <3>2. b2[new.kid[d][m]] = bh[y] /\ b2[new.kid[o][m]] = bh[v]
      BY <1>1, <1>9, <1>10, <1>12, <2>2
    <3>3. \A e \in Sides :
           /\ b2[new.kid[e][m]] \in Nat
           /\ ~ (m = p /\ e = d) => b2[m] = b2[new.kid[e][m]] + Unit(new, m)
           /\ m = p /\ e = d => b2[m] = b2[new.kid[e][m]] + Unit(new, m) + 1
      <4> TAKE e \in Sides
      <4>1. CASE e = d
        BY <1>13, <2>2, <3>1, <3>2, <4>1
      <4>2. CASE e = o
        BY <1>1, <1>13, <2>2, <3>1, <3>2, <4>2
      <4> QED BY <1>1, <4>1, <4>2
    <3> QED BY <3>3, HeightBy
  <2>3. CASE m = w
    <3>1. Unit(new, m) = 1 /\ b2[m] = bh[w] + 1 /\ m # p
      BY <1>1, <1>12, <1>13, <1>15, <2>3 DEF Unit
    <3>2. b2[new.kid[d][m]] = bh[w] /\ b2[new.kid[o][m]] = bh[w]
      BY <1>1, <1>9, <1>10, <1>12, <1>13, <2>3
    <3>3. \A e \in Sides :
           /\ b2[new.kid[e][m]] \in Nat
           /\ ~ (m = p /\ e = d) => b2[m] = b2[new.kid[e][m]] + Unit(new, m)
           /\ m = p /\ e = d => b2[m] = b2[new.kid[e][m]] + Unit(new, m) + 1
      BY <1>1, <1>13, <3>1, <3>2
    <3> QED BY <3>3, HeightBy
  <2> QED BY <2>1, <2>2, <2>3
<1>17. HeightsOK(new, L, b2, p, d)
  <2>1. \A m \in Prices \ L : new.color[m] = "black"
    BY <1>1, <1>4, <1>6 DEF HeightsOK, IsRotated
  <2> QED BY <1>12, <1>16, <2>1 DEF HeightsOK
<1>18. v \in L /\ ColorOf(new, v) = "black"
  <2>1. v \in L
    BY <1>10, <1>14
  <2>2. tr.color[v] = "black"
    <3>1. ~ RedChild(tr, w, d)
      BY <1>1
    <3> QED BY <1>1, <1>3, <1>8, <1>14, <2>1, <3>1 DEF RedChild, ColorOf, Colors
  <2> QED BY <1>10, <1>15, <2>1, <2>2 DEF ColorOf
<1>19. ColorOf(new, y) = "black"
  <2>1. CASE y = Nil
    BY <2>1 DEF ColorOf
  <2>2. CASE y # Nil
    BY <1>1, <1>15, <2>2 DEF ColorOf
  <2> QED BY <2>1, <2>2
<1>20. ASSUME NEW m \in L, NEW e \in Sides, RedChild(new, m, e)
       PROVE  FALSE
  <2>1. PICK k : k = new.kid[e][m]
    OBVIOUS
  <2>2. k \in L \union {Nil}
    BY <1>7, <2>1 DEF TreeOK, BranchOK
  <2>3. new.color[m] = "red" /\ k # Nil /\ new.color[k] = "red" /\ k \in L
    BY <1>20, <2>1, <2>2 DEF RedChild, ColorOf
  <2>4. m # w /\ k # w
    BY <1>1, <1>15, <2>3
  <2>5. CASE m = p
    <3>1. k \in {y, v}
      BY <1>1, <1>9, <2>1, <2>5
    <3> QED BY <1>18, <1>19, <2>3, <3>1 DEF ColorOf
  <2>6. CASE m # p
    <3>1. k = tr.kid[e][m] /\ k # p
      BY <1>1, <1>9, <2>1, <2>4, <2>6
    <3>2. tr.color[m] = "red" /\ tr.color[k] = "red"
      BY <1>15, <2>3, <2>4, <2>6, <3>1
    <3>3. RedChild(tr, m, e)
      BY <2>3, <3>1, <3>2 DEF RedChild, ColorOf
    <3> QED BY <1>1, <3>3
  <2> QED BY <2>5, <2>6
<1>21. new.root \in L /\ ColorOf(new, new.root) = "black"
  <2>1. new.root = IF p = tr.root THEN w ELSE tr.root
    <3>1. w = mid.kid[Other(d)][p]
      BY <1>1, <1>4
    <3> QED BY <1>4, <1>6, <3>1 DEF IsRotated
  <2>2. CASE p = tr.root
    BY <1>1, <1>15, <2>1, <2>2 DEF ColorOf
  <2>3. CASE p # tr.root
    <3>1. tr.color[tr.root] = "black"
      BY <1>1 DEF ColorOf
    <3>2. new.color[tr.root] = "black"
      BY <1>1, <1>15, <2>3, <3>1
    <3> QED BY <1>1, <2>1, <2>3, <3>2 DEF ColorOf
  <2> QED BY <2>2, <2>3
<1>22. b2[v] = b2[y] + 1
  <2>1. b2[v] = bh[v] /\ b2[y] = bh[y]
    BY <1>1, <1>10, <1>12
  <2> QED BY <1>13, <2>1
<1>23. ShortAt(new, L, s2, b2, d, o, y, p, v)
  BY <1>1, <1>7, <1>9, <1>17, <1>18, <1>19, <1>20, <1>21, <1>22 DEF ShortAt
<1> QED BY <1>18, <1>23

\* The red child v of a black sibling w that is nearer to y, painted black, is
\* rotated over w, painted red.
CanNear(tr, L, sub, bh, d, o, y, p, w, v, mid, new) ==
  /\ ShortAt(tr, L, sub, bh, d, o, y, p, w)
  /\ tr.color[w] = "black" /\ v = tr.kid[d][w] /\ ColorOf(tr, v) = "red"
  /\ ColorOf(tr, tr.kid[o][w]) = "black"
  /\ IsPainted3(tr, v, Nil, w, "red", mid)
  /\ IsRotated(mid, w, o, new)

LEMMA Near ==
  ASSUME NEW tr, NEW L, NEW sub, NEW bh, NEW d, NEW o, NEW y, NEW p, NEW w, NEW v,
         NEW mid, NEW new, CanNear(tr, L, sub, bh, d, o, y, p, w, v, mid, new)
  PROVE  \E s2, b2 : /\ ShortAt(new, L, s2, b2, d, o, y, p, v)
                     /\ ColorOf(new, v) = "black"
                     /\ ColorOf(new, new.kid[o][v]) = "red"
<1>1. /\ TreeOK(tr, L, sub) /\ HeightsOK(tr, L, bh, p, d)
      /\ d \in Sides /\ o \in Sides /\ o # d /\ o = Other(d) /\ d = Other(o)
      /\ \A e \in Sides : e = d \/ e = o
      /\ L \subseteq Prices /\ Nil \notin L
      /\ \A m \in L : m \in Maybe /\ tr.color[m] \in Colors
      /\ \A m \in L, e \in Sides : tr.kid[e][m] \in L \union {Nil}
      /\ \A m \in L \union {Nil} : bh[m] \in Nat \ {0}
      /\ Nil \in Maybe /\ bh \in [Maybe -> Nat \ {0}] /\ bh[Nil] = 1
      /\ p \in L /\ w \in L /\ y \in L \union {Nil}
      /\ p # w /\ y # p /\ y # w /\ w # tr.root
      /\ tr.kid[d][p] = y /\ tr.kid[o][p] = w /\ ColorOf(tr, y) = "black"
      /\ \A m \in L, e \in Sides : tr.kid[e][m] = w <=> m = p /\ e = o
      /\ \A m \in L, e \in Sides : ~ RedChild(tr, m, e)
      /\ tr.root \in L /\ ColorOf(tr, tr.root) = "black" /\ bh[w] = bh[y] + 1
  BY ShortFacts DEF CanNear
<1>2. \A m \in L, e \in Sides :
        /\ ~ (m = p /\ e = d) => bh[m] = bh[tr.kid[e][m]] + Unit(tr, m)
        /\ m = p /\ e = d => bh[m] = bh[tr.kid[e][m]] + Unit(tr, m) + 1
  BY ShortFacts DEF CanNear
<1>3. /\ tr.color[w] = "black" /\ v = tr.kid[d][w] /\ v # Nil /\ tr.color[v] = "red"
      /\ ColorOf(tr, tr.kid[o][w]) = "black"
  BY DEF CanNear, ColorOf
<1>4. v \in L
  BY <1>1, <1>3
<1>5. /\ IsRepainted(tr, mid) /\ mid.kid = tr.kid /\ mid.root = tr.root
      /\ \A m \in L : mid.color[m] =
           IF m = w THEN "red" ELSE IF m = v THEN "black" ELSE tr.color[m]
      /\ \A m \in Prices \ L : mid.color[m] = tr.color[m]
  <2>1. /\ IsRepainted(tr, mid)
        /\ \A m \in Prices : mid.color[m] =
             IF m = w THEN "red" ELSE IF m = Nil \/ m = v THEN "black" ELSE tr.color[m]
    BY DEF CanNear, IsPainted3
  <2>2. mid.kid = tr.kid /\ mid.root = tr.root
    BY <2>1 DEF IsRepainted
  <2>3. \A m \in Prices : m # Nil
    BY PriceFacts
  <2> QED BY <1>1, <1>4, <2>1, <2>2, <2>3
<1>6. TreeOK(mid, L, sub)
  BY <1>1, <1>5, PaintTree
<1>7. CanRotate(mid, L, sub, w, o) /\ IsRotated(mid, w, o, new)
  BY <1>1, <1>3, <1>5, <1>6 DEF CanRotate, CanNear
<1>8. PICK s2 : s2 = RotSub(mid, sub, w, o) /\ TreeOK(new, L, s2)
  BY <1>7, RotateTree
<1>9. PICK f, i, g : f = tr.kid[o][w] /\ i = tr.kid[o][v] /\ g = tr.kid[d][v]
  OBVIOUS
<1>10. /\ new.kid[o][w] = f /\ new.kid[d][w] = i
       /\ new.kid[o][v] = w /\ new.kid[d][v] = g
       /\ \A m \in L, e \in Sides : m # w /\ m # v =>
            /\ tr.kid[e][m] # v
            /\ new.kid[e][m] = IF tr.kid[e][m] = w THEN v ELSE tr.kid[e][m]
  <2>1. v = mid.kid[d][w] /\ d = Other(o)
    BY <1>1, <1>3, <1>5
  <2>2. /\ new.kid[o][w] = mid.kid[o][w] /\ new.kid[d][w] = mid.kid[o][v]
        /\ new.kid[o][v] = w /\ new.kid[d][v] = mid.kid[d][v]
        /\ \A m \in L, e \in Sides : m # w /\ m # v =>
             /\ mid.kid[e][m] # v
             /\ new.kid[e][m] = IF mid.kid[e][m] = w THEN v ELSE mid.kid[e][m]
    BY <1>7, <2>1, RotateKids
  <2>3. mid.kid[o][w] = f /\ mid.kid[o][v] = i /\ mid.kid[d][v] = g
    BY <1>5, <1>9
  <2>4. \A m \in L, e \in Sides : mid.kid[e][m] = tr.kid[e][m]
    BY <1>5
  <2> QED BY <2>2, <2>3, <2>4
<1>11. /\ v # w /\ i \in L \union {Nil} /\ i # w /\ i # v
       /\ g \in L \union {Nil} /\ g # w /\ g # v
       /\ f \in L \union {Nil} /\ f # w /\ f # v
  <2>1. v = mid.kid[d][w] /\ i = mid.kid[o][v] /\ g = mid.kid[d][v] /\ f = mid.kid[o][w]
        /\ d = Other(o)
    BY <1>1, <1>3, <1>5, <1>9
  <2>2. /\ v # w
        /\ i \in L \union {Nil} /\ i # w /\ i # v
        /\ mid.kid[o][w] \in L \union {Nil} /\ mid.kid[o][w] \notin {w, v}
        /\ mid.kid[d][v] \in L \union {Nil} /\ mid.kid[d][v] \notin {w, v}
    BY <1>7, <2>1, RotateParts
  <2> QED BY <2>1, <2>2
<1>12. v # p /\ v # y /\ v # tr.root
  <2>1. v # p
    <3>1. w = tr.kid[o][p] /\ d \in Sides /\ o \in Sides
      BY <1>1
    <3>2. /\ w \in sub[w] /\ p \notin Under(sub, w)
      BY <1>1, KidFacts
    <3>3. v \in sub[w]
      <4>1. /\ tr.kid[d][w] \in Under(sub, tr.kid[d][w])
            /\ sub[w] = {w} \union Under(sub, tr.kid[d][w])
                            \union Under(sub, tr.kid[Other(d)][w])
        BY <1>1, <1>3, KidFacts
      <4> QED BY <1>3, <4>1
    <3> QED BY <1>1, <3>2, <3>3 DEF Under
  <2>2. v # y
    BY <1>1, <1>3, <1>4 DEF ColorOf
  <2>3. v # tr.root
    BY <1>1, <1>3, <1>4 DEF ColorOf
  <2> QED BY <2>1, <2>2, <2>3
<1>13. PICK b2 : b2 = [m \in Maybe |-> IF m = w THEN bh[v] ELSE IF m = v THEN bh[w] ELSE bh[m]]
  OBVIOUS
<1>14. /\ b2 \in [Maybe -> Nat \ {0}] /\ b2[Nil] = 1
       /\ b2[w] = bh[v] /\ b2[v] = bh[w]
       /\ \A m \in L \union {Nil} : m # w /\ m # v => b2[m] = bh[m]
  BY <1>1, <1>3, <1>4, <1>11, <1>13
<1>15. /\ bh[v] \in Nat \ {0} /\ bh[w] = bh[v] + 1
       /\ bh[f] = bh[v] /\ bh[i] = bh[v] /\ bh[g] = bh[v]
       /\ bh[w] = bh[y] + 1 /\ bh[y] \in Nat \ {0}
  <2>1. Unit(tr, w) = 1 /\ Unit(tr, v) = 0
    BY <1>3 DEF Unit
  <2>2. bh[w] = bh[v] + 1 /\ bh[w] = bh[f] + 1 /\ bh[v] = bh[i] + 0 /\ bh[v] = bh[g] + 0
    <3>1. \A e \in Sides : /\ bh[w] = bh[tr.kid[e][w]] + Unit(tr, w)
                           /\ bh[v] = bh[tr.kid[e][v]] + Unit(tr, v)
      BY <1>1, <1>2, <1>4, <1>12
    <3>2. tr.kid[d][w] = v /\ tr.kid[o][w] = f /\ tr.kid[o][v] = i /\ tr.kid[d][v] = g
      BY <1>3, <1>9
    <3> QED BY <1>1, <2>1, <3>1, <3>2
  <2> QED BY <1>1, <1>4, <1>11, <2>2
<1>16. \A m \in L : new.color[m] =
         IF m = w THEN "red" ELSE IF m = v THEN "black" ELSE tr.color[m]
  BY <1>5, <1>7 DEF IsRotated
<1>17. ASSUME NEW m \in L PROVE HeightOK(new, b2, p, d, m)
  <2>1. CASE m # w /\ m # v
    <3>1. HeightOK(mid, bh, p, d, m)
      <4>1. HeightOK(tr, bh, p, d, m)
        BY <1>1 DEF HeightsOK
      <4>2. Unit(mid, m) = Unit(tr, m)
        BY <1>5, <2>1 DEF Unit
      <4> QED BY <1>5, <4>1, <4>2 DEF HeightOK
    <3>2. v = mid.kid[Other(o)][w]
      BY <1>1, <1>3, <1>5
    <3> QED BY <1>7, <1>14, <2>1, <3>1, <3>2, RotateHeight
  <2>2. CASE m = w
    <3>1. Unit(new, m) = 0 /\ b2[m] = bh[v] /\ m # p
      BY <1>1, <1>14, <1>16, <2>2 DEF Unit
    <3>2. b2[new.kid[d][m]] = bh[v] /\ b2[new.kid[o][m]] = bh[v]
      BY <1>1, <1>10, <1>11, <1>14, <1>15, <2>2
    <3>3. \A e \in Sides :
           /\ b2[new.kid[e][m]] \in Nat
           /\ ~ (m = p /\ e = d) => b2[m] = b2[new.kid[e][m]] + Unit(new, m)
           /\ m = p /\ e = d => b2[m] = b2[new.kid[e][m]] + Unit(new, m) + 1
      BY <1>1, <1>15, <3>1, <3>2
    <3> QED BY <3>3, HeightBy
  <2>3. CASE m = v
    <3>1. Unit(new, m) = 1 /\ b2[m] = bh[v] + 1 /\ m # p
      BY <1>11, <1>12, <1>14, <1>15, <1>16, <2>3 DEF Unit
    <3>2. b2[new.kid[d][m]] = bh[v] /\ b2[new.kid[o][m]] = bh[v]
      BY <1>1, <1>10, <1>11, <1>14, <1>15, <2>3
    <3>3. \A e \in Sides :
           /\ b2[new.kid[e][m]] \in Nat
           /\ ~ (m = p /\ e = d) => b2[m] = b2[new.kid[e][m]] + Unit(new, m)
           /\ m = p /\ e = d => b2[m] = b2[new.kid[e][m]] + Unit(new, m) + 1
      BY <1>1, <1>15, <3>1, <3>2
    <3> QED BY <3>3, HeightBy
  <2> QED BY <2>1, <2>2, <2>3
<1>18. HeightsOK(new, L, b2, p, d)
  <2>1. \A m \in Prices \ L : new.color[m] = "black"
    BY <1>1, <1>5, <1>7 DEF HeightsOK, IsRotated
  <2> QED BY <1>14, <1>17, <2>1 DEF HeightsOK
<1>19. ColorOf(new, y) = "black"
  <2>1. CASE y = Nil
    BY <2>1 DEF ColorOf
  <2>2. CASE y # Nil
    BY <1>1, <1>12, <1>16, <2>2 DEF ColorOf
  <2> QED BY <2>1, <2>2
<1>20. ASSUME NEW m \in L, NEW e \in Sides, RedChild(new, m, e)
       PROVE  FALSE
  <2>1. PICK k : k = new.kid[e][m]
    OBVIOUS
  <2>2. k \in L \union {Nil}
    BY <1>8, <2>1 DEF TreeOK, BranchOK
  <2>3. new.color[m] = "red" /\ k # Nil /\ new.color[k] = "red" /\ k \in L
    BY <1>20, <2>1, <2>2 DEF RedChild, ColorOf
  <2>4. m # v /\ k # v
    BY <1>1, <1>11, <1>16, <2>3
  <2>5. CASE m = w
    <3>1. k \in {f, i}
      BY <1>1, <1>10, <2>1, <2>5
    <3>2. tr.color[k] = "red"
      BY <1>11, <1>16, <2>3, <3>1
    <3>3. k = i
      BY <1>3, <1>9, <2>3, <3>1, <3>2 DEF ColorOf
    <3>4. RedChild(tr, v, o)
      BY <1>3, <1>9, <2>3, <3>2, <3>3 DEF RedChild, ColorOf
    <3> QED BY <1>1, <1>4, <3>4
  <2>6. CASE m # w
    <3>1. k = tr.kid[e][m] /\ k # w
      BY <1>1, <1>10, <2>1, <2>4, <2>6
    <3>2. tr.color[m] = "red" /\ tr.color[k] = "red"
      BY <1>16, <2>3, <2>4, <2>6, <3>1
    <3>3. RedChild(tr, m, e)
      BY <2>3, <3>1, <3>2 DEF RedChild, ColorOf
    <3> QED BY <1>1, <3>3
  <2> QED BY <2>5, <2>6
<1>21. new.root \in L /\ ColorOf(new, new.root) = "black"
  <2>1. new.root = tr.root
    BY <1>1, <1>5, <1>7 DEF IsRotated
  <2>2. tr.color[tr.root] = "black"
    BY <1>1 DEF ColorOf
  <2>3. new.color[tr.root] = "black"
    BY <1>1, <1>12, <1>16, <2>2
  <2> QED BY <1>1, <2>1, <2>3 DEF ColorOf
<1>22. b2[v] = b2[y] + 1
  <2>1. b2[v] = bh[w] /\ b2[y] = bh[y]
    BY <1>1, <1>12, <1>14
  <2> QED BY <1>15, <2>1
<1>23. new.kid[d][p] = y /\ new.kid[o][p] = v
  BY <1>1, <1>10, <1>12
<1>24. ShortAt(new, L, s2, b2, d, o, y, p, v)
  BY <1>1, <1>4, <1>8, <1>18, <1>19, <1>20, <1>21, <1>22, <1>23 DEF ShortAt
<1>25. ColorOf(new, v) = "black" /\ ColorOf(new, new.kid[o][v]) = "red"
  BY <1>1, <1>3, <1>4, <1>10, <1>11, <1>16 DEF ColorOf
<1> QED BY <1>24, <1>25

\* A black sibling without a red child, painted red: the parent is now the one
\* that is short.
CanPass(tr, L, sub, bh, d, o, y, p, w, new) ==
  /\ ShortAt(tr, L, sub, bh, d, o, y, p, w)
  /\ tr.color[w] = "black" /\ \A e \in Sides : ColorOf(tr, tr.kid[e][w]) = "black"
  /\ IsPainted(tr, w, "red", new)

LEMMA Pass ==
  ASSUME NEW tr, NEW L, NEW sub, NEW bh, NEW d, NEW o, NEW y, NEW p, NEW w,
         NEW new, CanPass(tr, L, sub, bh, d, o, y, p, w, new)
  PROVE  \E b2, h2 : Shape(new, L, sub, b2, h2, "erasing", p, tr.parent[p])
<1>1. /\ TreeOK(tr, L, sub) /\ HeightsOK(tr, L, bh, p, d)
      /\ d \in Sides /\ o \in Sides /\ o # d
      /\ \A e \in Sides : e = d \/ e = o
      /\ tr \in Trees /\ L \subseteq Prices /\ Nil \notin L
      /\ \A m \in L : m \in Maybe /\ tr.color[m] \in Colors
      /\ \A m \in L, e \in Sides : tr.kid[e][m] \in L \union {Nil}
      /\ \A m \in L \union {Nil} : bh[m] \in Nat \ {0}
      /\ Nil \in Maybe /\ bh \in [Maybe -> Nat \ {0}] /\ bh[Nil] = 1
      /\ p \in L /\ w \in L /\ y \in L \union {Nil}
      /\ p # w /\ y # p /\ y # w /\ w # tr.root
      /\ tr.kid[d][p] = y /\ tr.kid[o][p] = w
      /\ \A m \in L, e \in Sides : tr.kid[e][m] = w <=> m = p /\ e = o
      /\ \A m \in L, e \in Sides : ~ RedChild(tr, m, e)
      /\ tr.root \in L /\ ColorOf(tr, tr.root) = "black" /\ bh[w] = bh[y] + 1
  BY ShortFacts DEF CanPass
<1>2. \A m \in L, e \in Sides :
        /\ ~ (m = p /\ e = d) => bh[m] = bh[tr.kid[e][m]] + Unit(tr, m)
        /\ m = p /\ e = d => bh[m] = bh[tr.kid[e][m]] + Unit(tr, m) + 1
  BY ShortFacts DEF CanPass
<1>3. /\ tr.color[w] = "black" /\ \A e \in Sides : ColorOf(tr, tr.kid[e][w]) = "black"
      /\ new \in Trees /\ new.root = tr.root /\ new.kid = tr.kid /\ new.parent = tr.parent
      /\ \A m \in Prices : new.color[m] = IF m = w THEN "red" ELSE tr.color[m]
  BY DEF CanPass, IsPainted
<1>4. TreeOK(new, L, sub)
  <2>1. IsRepainted(tr, new)
    BY <1>3 DEF IsRepainted
  <2> QED BY <1>1, <2>1, PaintTree
<1>5. PICK q, s : /\ q = tr.parent[p] /\ s = IF q = Nil THEN "left" ELSE SideOf(tr, p)
  OBVIOUS
<1>6. /\ q = Nil <=> p = tr.root
      /\ q # Nil => q \in L /\ s \in Sides /\ tr.kid[s][q] = p
      /\ \A m \in L, e \in Sides : tr.kid[e][m] = p <=> q # Nil /\ m = q /\ e = s
  <2>1. /\ tr.parent[p] = Nil <=> p = tr.root
        /\ p # tr.root => /\ tr.parent[p] \in L /\ SideOf(tr, p) \in Sides
                          /\ tr.kid[SideOf(tr, p)][tr.parent[p]] = p
        /\ \A m \in L, e \in Sides :
             tr.kid[e][m] = p => m = tr.parent[p] /\ e = SideOf(tr, p) /\ p # tr.root
    BY <1>1, ParentFacts
  <2> QED BY <1>1, <1>5, <2>1
<1>7. q # p /\ q # w /\ p # Nil /\ w # Nil
  <2>1. q # p
    <3>1. \A e \in Sides : tr.kid[e][p] # Nil => tr.kid[e][p] # p
      BY <1>1, KidFacts
    <3> QED BY <1>1, <1>6, <3>1
  <2>2. \A e \in Sides : tr.kid[e][w] # p
    <3> SUFFICES ASSUME NEW e \in Sides, tr.kid[e][w] = p PROVE FALSE
      OBVIOUS
    <3>1. p \notin Under(sub, tr.kid[o][p])
      BY <1>1, KidFacts
    <3>2. /\ tr.kid[e][w] \in Under(sub, tr.kid[e][w])
          /\ sub[w] = {w} \union Under(sub, tr.kid[e][w])
                          \union Under(sub, tr.kid[Other(e)][w])
      BY <1>1, KidFacts
    <3> QED BY <1>1, <3>1, <3>2 DEF Under
  <2>3. q # w
    BY <1>1, <1>6, <2>2
  <2> QED BY <1>1, <2>1, <2>3
<1>8. PICK b2 : b2 = [m \in Maybe |-> IF m = w \/ m = p THEN bh[m] - 1 ELSE bh[m]]
  OBVIOUS
<1>9. /\ bh[w] = bh[y] + 1 /\ bh[y] \in Nat \ {0} /\ bh[w] \in Nat /\ bh[p] \in Nat
      /\ bh[p] = bh[w] + Unit(tr, p) /\ Unit(tr, p) \in {0, 1}
      /\ \A e \in Sides : bh[w] = bh[tr.kid[e][w]] + 1
  <2>1. bh[p] = bh[w] + Unit(tr, p) /\ Unit(tr, p) \in {0, 1}
    BY <1>1, <1>2 DEF Unit
  <2>2. Unit(tr, w) = 1
    BY <1>3 DEF Unit
  <2>3. \A e \in Sides : bh[w] = bh[tr.kid[e][w]] + 1
    BY <1>1, <1>2, <2>2
  <2> QED BY <1>1, <2>1, <2>3
<1>10. /\ b2 \in [Maybe -> Nat \ {0}] /\ b2[Nil] = 1
       /\ b2[w] = bh[w] - 1 /\ b2[p] = bh[p] - 1
       /\ \A m \in L \union {Nil} : m # w /\ m # p => b2[m] = bh[m]
  <2>1. bh[w] - 1 \in Nat \ {0} /\ bh[p] - 1 \in Nat \ {0}
    BY <1>9
  <2> QED BY <1>1, <1>7, <1>8, <2>1
<1>11. \A m \in L : Unit(new, m) = IF m = w THEN 0 ELSE Unit(tr, m)
  BY <1>1, <1>3 DEF Unit
<1>12. ASSUME NEW m \in L, NEW e \in Sides
       PROVE  /\ b2[new.kid[e][m]] \in Nat
              /\ ~ (m = q /\ e = s) => b2[m] = b2[new.kid[e][m]] + Unit(new, m)
              /\ m = q /\ e = s => b2[m] = b2[new.kid[e][m]] + Unit(new, m) + 1
  <2>1. PICK k : k = tr.kid[e][m] /\ k \in L \union {Nil} /\ k = new.kid[e][m]
    BY <1>1, <1>3
  <2>2. CASE m = w
    <3>1. k # w /\ k # p
      <4>1. tr.kid[e][w] # w
        BY <1>1
      <4>2. tr.kid[e][w] # p
        BY <1>1, <1>6, <1>7
      <4> QED BY <2>1, <2>2, <4>1, <4>2
    <3>2. b2[k] = bh[k] /\ b2[m] = bh[w] - 1 /\ Unit(new, m) = 0 /\ bh[w] = bh[k] + 1
          /\ bh[k] \in Nat
      <4>1. bh[w] = bh[k] + 1 /\ bh[k] \in Nat
        BY <1>1, <1>9, <2>1, <2>2
      <4>2. b2[k] = bh[k] /\ b2[m] = bh[w] - 1
        BY <1>10, <2>1, <2>2, <3>1
      <4>3. Unit(new, m) = 0
        BY <1>11, <2>2
      <4> QED BY <4>1, <4>2, <4>3
    <3> QED BY <1>7, <1>9, <2>1, <2>2, <3>2
  <2>3. CASE m = p /\ e = d
    <3>1. k = y /\ b2[k] = bh[y] /\ b2[m] = bh[p] - 1 /\ Unit(new, m) = Unit(tr, p)
      BY <1>1, <1>10, <1>11, <2>1, <2>3
    <3> QED BY <1>7, <1>9, <2>1, <2>3, <3>1
  <2>4. CASE m = p /\ e = o
    <3>1. k = w /\ b2[k] = bh[w] - 1 /\ b2[m] = bh[p] - 1 /\ Unit(new, m) = Unit(tr, p)
      BY <1>1, <1>10, <1>11, <2>1, <2>4
    <3> QED BY <1>7, <1>9, <2>1, <2>4, <3>1
  <2>5. CASE m # w /\ m # p
    <3>1. /\ b2[m] = bh[m] /\ Unit(new, m) = Unit(tr, m) /\ k # w
          /\ bh[m] = bh[k] + Unit(tr, m) /\ bh[k] \in Nat /\ Unit(tr, m) \in Nat
      <4>1. b2[m] = bh[m] /\ Unit(new, m) = Unit(tr, m)
        BY <1>10, <1>11, <2>5
      <4>2. k # w
        BY <1>1, <2>1, <2>5
      <4>3. bh[m] = bh[k] + Unit(tr, m)
        BY <1>2, <2>1, <2>5
      <4>4. bh[k] \in Nat /\ Unit(tr, m) \in Nat
        BY <1>1, <2>1 DEF Unit
      <4> QED BY <4>1, <4>2, <4>3, <4>4
    <3>2. CASE k = p
      <4>1. m = q /\ e = s /\ b2[k] = bh[p] - 1
        BY <1>6, <1>10, <2>1, <3>2
      <4> QED BY <1>9, <1>10, <2>1, <3>1, <3>2, <4>1
    <3>3. CASE k # p
      <4>1. ~ (m = q /\ e = s) /\ b2[k] = bh[k]
        BY <1>1, <1>6, <1>10, <2>1, <3>1, <3>3
      <4> QED BY <2>1, <3>1, <4>1
    <3> QED BY <3>2, <3>3
  <2> QED BY <1>1, <2>2, <2>3, <2>4, <2>5
<1>13. HeightsOK(new, L, b2, q, s)
  <2>1. \A m \in L : HeightOK(new, b2, q, s, m)
    BY <1>12, HeightBy
  <2>2. \A m \in Prices \ L : new.color[m] = "black"
    BY <1>1, <1>3 DEF HeightsOK
  <2> QED BY <1>10, <2>1, <2>2 DEF HeightsOK
<1>14. ASSUME NEW m \in L, NEW e \in Sides, RedChild(new, m, e)
       PROVE  p \in {m, new.kid[e][m]}
  <2>1. PICK k : k = tr.kid[e][m] /\ k \in L \union {Nil} /\ k = new.kid[e][m]
    BY <1>1, <1>3
  <2>2. k # Nil /\ new.color[k] = "red" /\ new.color[m] = "red" /\ k \in L
    BY <1>14, <2>1 DEF RedChild, ColorOf
  <2>3. CASE k = w
    BY <1>1, <2>1, <2>3
  <2>4. CASE k # w
    <3>1. tr.color[k] = "red"
      BY <1>1, <1>3, <2>2, <2>4
    <3>2. m # w
      BY <1>3, <2>1, <2>2, <3>1 DEF ColorOf
    <3>3. RedChild(tr, m, e)
      BY <1>1, <1>3, <2>1, <2>2, <3>1, <3>2 DEF RedChild, ColorOf
    <3> QED BY <1>1, <3>3
  <2> QED BY <2>3, <2>4
<1>15. ColorOf(new, new.root) = "black"
  BY <1>1, <1>3 DEF ColorOf
<1>16. IF q = Nil THEN p = new.root ELSE q \in L /\ s \in Sides /\ new.kid[s][q] = p
  BY <1>3, <1>6
<1>17. ColorsOK(new, L, "erasing", p, q, s)
  BY <1>14, <1>15, <1>16 DEF ColorsOK
<1>18. Shape(new, L, sub, b2, s, "erasing", p, q)
  BY <1>4, <1>13, <1>17 DEF Shape
<1> QED BY <1>5, <1>18

\* A black sibling with a red child f on the far side takes the parent's place
\* and its colour; the parent and f are painted black, and nothing is short.
CanFar(tr, L, sub, bh, d, o, y, p, w, f, mid, new) ==
  /\ ShortAt(tr, L, sub, bh, d, o, y, p, w)
  /\ tr.color[w] = "black" /\ f = tr.kid[o][w] /\ ColorOf(tr, f) = "red"
  /\ IsPainted3(tr, p, f, w, tr.color[p], mid)
  /\ IsRotated(mid, p, d, new)

LEMMA Far ==
  ASSUME NEW tr, NEW L, NEW sub, NEW bh, NEW d, NEW o, NEW y, NEW p, NEW w, NEW f,
         NEW mid, NEW new, CanFar(tr, L, sub, bh, d, o, y, p, w, f, mid, new)
  PROVE  \E s2, b2 : Shape(new, L, s2, b2, d, "erasing", new.root, Nil)
<1>1. /\ TreeOK(tr, L, sub) /\ HeightsOK(tr, L, bh, p, d)
      /\ d \in Sides /\ o \in Sides /\ o # d /\ o = Other(d) /\ d = Other(o)
      /\ \A e \in Sides : e = d \/ e = o
      /\ L \subseteq Prices /\ Nil \notin L
      /\ \A m \in L : m \in Maybe /\ tr.color[m] \in Colors
      /\ \A m \in L, e \in Sides : tr.kid[e][m] \in L \union {Nil}
      /\ \A m \in L \union {Nil} : bh[m] \in Nat \ {0}
      /\ Nil \in Maybe /\ bh \in [Maybe -> Nat \ {0}] /\ bh[Nil] = 1
      /\ p \in L /\ w \in L /\ y \in L \union {Nil}
      /\ p # w /\ y # p /\ y # w /\ w # tr.root
      /\ tr.kid[d][p] = y /\ tr.kid[o][p] = w /\ ColorOf(tr, y) = "black"
      /\ \A m \in L, e \in Sides : tr.kid[e][m] = w <=> m = p /\ e = o
      /\ \A m \in L, e \in Sides : ~ RedChild(tr, m, e)
      /\ tr.root \in L /\ ColorOf(tr, tr.root) = "black" /\ bh[w] = bh[y] + 1
  BY ShortFacts DEF CanFar
<1>2. \A m \in L, e \in Sides :
        /\ ~ (m = p /\ e = d) => bh[m] = bh[tr.kid[e][m]] + Unit(tr, m)
        /\ m = p /\ e = d => bh[m] = bh[tr.kid[e][m]] + Unit(tr, m) + 1
  BY ShortFacts DEF CanFar
<1>3. /\ tr.color[w] = "black" /\ f = tr.kid[o][w] /\ f # Nil /\ tr.color[f] = "red"
      /\ f \in L
  <2>1. /\ tr.color[w] = "black" /\ f = tr.kid[o][w] /\ f # Nil /\ tr.color[f] = "red"
    BY DEF CanFar, ColorOf
  <2>2. tr.kid[o][w] \in L \union {Nil}
    BY <1>1
  <2> QED BY <2>1, <2>2
<1>4. f # w /\ f # p /\ f # y /\ f # tr.root
      /\ \A m \in L, e \in Sides : tr.kid[e][m] = f => m = w
  <2>1. f # w /\ f # tr.root
    BY <1>1, <1>3 DEF ColorOf
  <2>2. f # y
    BY <1>1, <1>3 DEF ColorOf
  <2>3. f # p
    <3>1. p \notin Under(sub, tr.kid[o][p])
      BY <1>1, KidFacts
    <3>2. /\ tr.kid[o][w] \in Under(sub, tr.kid[o][w])
          /\ sub[w] = {w} \union Under(sub, tr.kid[o][w])
                          \union Under(sub, tr.kid[Other(o)][w])
      <4>1. tr.kid[o][w] # Nil /\ w \in L /\ o \in Sides
        BY <1>1, <1>3
      <4> QED BY <1>1, <4>1, KidFacts
    <3>3. f \in sub[w] /\ Under(sub, tr.kid[o][p]) = sub[w]
      BY <1>1, <1>3, <3>2 DEF Under
    <3> QED BY <3>1, <3>3
  <2>4. \A m \in L, e \in Sides : tr.kid[e][m] = f => m = tr.parent[f]
    BY <1>1, <1>3, ParentFacts
  <2>5. tr.parent[f] = w
    BY <1>1, <1>3, <2>4
  <2> QED BY <2>1, <2>2, <2>3, <2>4, <2>5
<1>5. /\ IsRepainted(tr, mid) /\ mid.kid = tr.kid /\ mid.root = tr.root
      /\ \A m \in L : mid.color[m] =
           IF m = w THEN tr.color[p] ELSE IF m = p \/ m = f THEN "black" ELSE tr.color[m]
      /\ \A m \in Prices \ L : mid.color[m] = tr.color[m]
  <2>1. /\ IsRepainted(tr, mid)
        /\ \A m \in Prices : mid.color[m] =
             IF m = w THEN tr.color[p] ELSE IF m = f \/ m = p THEN "black" ELSE tr.color[m]
    BY DEF CanFar, IsPainted3
  <2>2. mid.kid = tr.kid /\ mid.root = tr.root
    BY <2>1 DEF IsRepainted
  <2> QED BY <1>1, <1>3, <2>1, <2>2
<1>6. TreeOK(mid, L, sub)
  BY <1>1, <1>5, PaintTree
<1>7. CanRotate(mid, L, sub, p, d) /\ IsRotated(mid, p, d, new)
  BY <1>1, <1>5, <1>6 DEF CanRotate, CanFar
<1>8. PICK s2 : s2 = RotSub(mid, sub, p, d) /\ TreeOK(new, L, s2)
  BY <1>7, RotateTree
<1>9. PICK i : i = tr.kid[d][w]
  OBVIOUS
<1>10. /\ new.kid[d][p] = y /\ new.kid[o][p] = i
       /\ new.kid[d][w] = p /\ new.kid[o][w] = f
       /\ \A m \in L, e \in Sides : m # p /\ m # w =>
            /\ tr.kid[e][m] # w
            /\ new.kid[e][m] = IF tr.kid[e][m] = p THEN w ELSE tr.kid[e][m]
  <2>1. w = mid.kid[o][p] /\ o = Other(d)
    BY <1>1, <1>5
  <2>2. /\ new.kid[d][p] = mid.kid[d][p] /\ new.kid[o][p] = mid.kid[d][w]
        /\ new.kid[d][w] = p /\ new.kid[o][w] = mid.kid[o][w]
        /\ \A m \in L, e \in Sides : m # p /\ m # w =>
             /\ mid.kid[e][m] # w
             /\ new.kid[e][m] = IF mid.kid[e][m] = p THEN w ELSE mid.kid[e][m]
    BY <1>7, <2>1, RotateKids
  <2>3. /\ mid.kid[d][p] = y /\ mid.kid[d][w] = i /\ mid.kid[o][w] = f
    BY <1>1, <1>3, <1>5, <1>9
  <2>4. \A m \in L, e \in Sides : mid.kid[e][m] = tr.kid[e][m]
    BY <1>5
  <2> QED BY <2>2, <2>3, <2>4
<1>11. i \in L \union {Nil} /\ i # p /\ i # w /\ i # f
  <2>1. w = mid.kid[o][p] /\ i = mid.kid[d][w] /\ o = Other(d)
    BY <1>1, <1>5, <1>9
  <2>2. i \in L \union {Nil} /\ i # p /\ i # w
    BY <1>7, <2>1, RotateParts
  <2>3. tr.kid[o][w] # Nil => tr.kid[o][w] # tr.kid[Other(o)][w]
    BY <1>1, KidFacts
  <2> QED BY <1>1, <1>3, <1>9, <2>2, <2>3
<1>12. PICK b1 : b1 = [m \in Maybe |-> IF m = f THEN bh[m] + 1 ELSE bh[m]]
  OBVIOUS
<1>13. PICK b2 : b2 = [m \in Maybe |-> IF m = p THEN bh[w] ELSE IF m = w THEN bh[p] ELSE b1[m]]
  OBVIOUS
<1>14. /\ \A m \in L \union {Nil} : b1[m] = IF m = f THEN bh[m] + 1 ELSE bh[m]
       /\ b1[w] = bh[w] /\ b1[p] = bh[p]
  BY <1>1, <1>4, <1>12
<1>15. /\ b2 \in [Maybe -> Nat \ {0}] /\ b2[Nil] = 1
       /\ b2[p] = bh[w] /\ b2[w] = bh[p]
       /\ \A m \in L \union {Nil} : m # p /\ m # w => b2[m] = b1[m]
  <2>1. b1 \in [Maybe -> Nat \ {0}] /\ b1[Nil] = 1
    BY <1>1, <1>3, <1>12
  <2> QED BY <1>1, <1>13, <2>1
<1>16. /\ bh[y] \in Nat \ {0} /\ bh[w] = bh[y] + 1 /\ bh[f] = bh[y] /\ bh[i] = bh[y]
       /\ Unit(tr, p) \in {0, 1} /\ bh[p] = bh[y] + 1 + Unit(tr, p)
       /\ \A e \in Sides : bh[f] = bh[tr.kid[e][f]]
  <2>1. Unit(tr, w) = 1 /\ Unit(tr, f) = 0 /\ Unit(tr, p) \in {0, 1}
    BY <1>3 DEF Unit
  <2>2. \A e \in Sides : /\ bh[w] = bh[tr.kid[e][w]] + Unit(tr, w)
                         /\ bh[f] = bh[tr.kid[e][f]] + Unit(tr, f)
    BY <1>1, <1>2, <1>3, <1>4
  <2>3. bh[p] = bh[w] + Unit(tr, p)
    BY <1>1, <1>2
  <2>4. bh[w] = bh[f] + 1 /\ bh[w] = bh[i] + 1
    <3>1. tr.kid[o][w] = f /\ tr.kid[d][w] = i
      BY <1>3, <1>9
    <3> QED BY <1>1, <2>1, <2>2, <3>1
  <2>5. bh[y] \in Nat \ {0} /\ bh[f] \in Nat /\ bh[i] \in Nat /\ bh[w] = bh[y] + 1
    BY <1>1, <1>3, <1>11
  <2>6. bh[f] = bh[y] /\ bh[i] = bh[y]
    BY <2>4, <2>5
  <2>7. \A e \in Sides : bh[tr.kid[e][f]] \in Nat
    BY <1>1, <1>3
  <2> QED BY <2>1, <2>2, <2>3, <2>5, <2>6, <2>7
<1>17. \A m \in L : new.color[m] =
         IF m = w THEN tr.color[p] ELSE IF m = p \/ m = f THEN "black" ELSE tr.color[m]
  BY <1>5, <1>7 DEF IsRotated
<1>18. ASSUME NEW m \in L, m # p, m # w PROVE HeightOK(mid, b1, Nil, d, m)
  <2>1. \A e \in Sides : tr.kid[e][m] # f /\ mid.kid[e][m] = tr.kid[e][m]
                         /\ tr.kid[e][m] \in L \union {Nil}
    BY <1>1, <1>4, <1>5, <1>18
  <2>2. \A e \in Sides : b1[mid.kid[e][m]] = bh[tr.kid[e][m]] /\ bh[tr.kid[e][m]] \in Nat
    BY <1>1, <1>14, <2>1
  <2>3. ASSUME NEW e \in Sides
        PROVE  b1[m] = b1[mid.kid[e][m]] + Unit(mid, m)
    <3>1. CASE m = f
      <4>1. Unit(mid, m) = 1 /\ b1[m] = bh[f] + 1
        BY <1>3, <1>4, <1>5, <1>14, <3>1 DEF Unit
      <4>2. bh[f] = bh[tr.kid[e][m]]
        BY <1>16, <3>1
      <4> QED BY <2>2, <4>1, <4>2
    <3>2. CASE m # f
      <4>1. Unit(mid, m) = Unit(tr, m) /\ b1[m] = bh[m]
        BY <1>5, <1>14, <1>18, <3>2 DEF Unit
      <4>2. bh[m] = bh[tr.kid[e][m]] + Unit(tr, m)
        BY <1>2, <1>18
      <4> QED BY <2>2, <4>1, <4>2
    <3> QED BY <3>1, <3>2
  <2>4. m # Nil
    BY <1>1
  <2> QED BY <2>2, <2>3, <2>4, HeightBy
<1>19. ASSUME NEW m \in L PROVE HeightOK(new, b2, Nil, d, m)
  <2>1. CASE m # p /\ m # w
    <3>1. HeightOK(mid, b1, Nil, d, m)
      BY <1>18, <2>1
    <3>2. w = mid.kid[Other(d)][p]
      BY <1>1, <1>5
    <3>3. b2[w] = b1[p]
      BY <1>14, <1>15
    <3> QED BY <1>7, <1>15, <2>1, <3>1, <3>2, <3>3, RotateHeight
  <2>2. CASE m = p
    <3>1. Unit(new, m) = 1 /\ b2[m] = bh[y] + 1
      BY <1>1, <1>15, <1>16, <1>17, <2>2 DEF Unit
    <3>2. b2[new.kid[d][m]] = bh[y] /\ b2[new.kid[o][m]] = bh[y]
      <4>1. b2[y] = bh[y] /\ b2[i] = bh[i]
        BY <1>1, <1>4, <1>11, <1>14, <1>15
      <4> QED BY <1>10, <1>16, <2>2, <4>1
    <3>3. \A e \in Sides :
           b2[new.kid[e][m]] \in Nat /\ b2[m] = b2[new.kid[e][m]] + Unit(new, m)
      BY <1>1, <1>16, <3>1, <3>2
    <3>4. m # Nil
      BY <1>1
    <3> QED BY <3>3, <3>4, HeightBy
  <2>3. CASE m = w
    <3>1. Unit(new, m) = Unit(tr, p) /\ b2[m] = bh[y] + 1 + Unit(tr, p)
      BY <1>15, <1>16, <1>17, <2>3 DEF Unit
    <3>2. b2[new.kid[d][m]] = bh[y] + 1 /\ b2[new.kid[o][m]] = bh[y] + 1
      <4>1. b2[f] = bh[f] + 1 /\ b2[p] = bh[w]
        BY <1>3, <1>4, <1>14, <1>15
      <4> QED BY <1>10, <1>16, <2>3, <4>1
    <3>3. \A e \in Sides :
           b2[new.kid[e][m]] \in Nat /\ b2[m] = b2[new.kid[e][m]] + Unit(new, m)
      BY <1>1, <1>16, <3>1, <3>2
    <3>4. m # Nil
      BY <1>1
    <3> QED BY <3>3, <3>4, HeightBy
  <2> QED BY <2>1, <2>2, <2>3
<1>20. HeightsOK(new, L, b2, Nil, d)
  <2>1. \A m \in Prices \ L : new.color[m] = "black"
    BY <1>1, <1>5, <1>7 DEF HeightsOK, IsRotated
  <2> QED BY <1>15, <1>19, <2>1 DEF HeightsOK
<1>21. ASSUME NEW m \in L, NEW e \in Sides, RedChild(new, m, e)
       PROVE  FALSE
  <2>1. PICK k : k = new.kid[e][m]
    OBVIOUS
  <2>2. k \in L \union {Nil}
    BY <1>8, <2>1 DEF TreeOK, BranchOK
  <2>3. new.color[m] = "red" /\ k # Nil /\ new.color[k] = "red" /\ k \in L
    BY <1>21, <2>1, <2>2 DEF RedChild, ColorOf
  <2>4. m # p /\ m # f /\ k # p /\ k # f
    BY <1>1, <1>3, <1>4, <1>17, <2>3
  <2>5. m # w
    BY <1>1, <1>10, <2>1, <2>4
  <2>6. tr.color[m] = "red"
    BY <1>17, <2>3, <2>4, <2>5
  <2>7. CASE tr.kid[e][m] = p
    <3>1. k = w
      BY <1>10, <2>1, <2>4, <2>5, <2>7
    <3>2. tr.color[p] = "red"
      BY <1>17, <2>3, <3>1
    <3>3. RedChild(tr, m, e)
      BY <1>1, <2>6, <2>7, <3>2 DEF RedChild, ColorOf
    <3> QED BY <1>1, <3>3
  <2>8. CASE tr.kid[e][m] # p
    <3>1. k = tr.kid[e][m] /\ k # w
      BY <1>10, <2>1, <2>4, <2>5, <2>8
    <3>2. tr.color[k] = "red"
      BY <1>17, <2>3, <2>4, <3>1
    <3>3. RedChild(tr, m, e)
      BY <2>3, <2>6, <3>1, <3>2 DEF RedChild, ColorOf
    <3> QED BY <1>1, <3>3
  <2> QED BY <2>7, <2>8
<1>22. ColorsOK(new, L, "erasing", new.root, Nil, d)
  BY <1>21 DEF ColorsOK
<1> QED BY <1>8, <1>20, <1>22 DEF Shape

\* The loop of a deletion ends.
LEMMA Even ==
  ASSUME NEW tr, NEW L, NEW sub, NEW bh, NEW hd, NEW y, NEW p,
         Shape(tr, L, sub, bh, hd, "erasing", y, p),
         ~ (y # tr.root /\ ColorOf(tr, y) = "black"),
         NEW new, new = Painted(tr, y, "black")
  PROVE  \E b2 : Shape(new, L, sub, b2, hd, "idle", Nil, Nil)
<1>1. /\ TreeOK(tr, L, sub) /\ HeightsOK(tr, L, bh, p, hd) /\ tr \in Trees
      /\ \A m \in L, e \in Sides : RedChild(tr, m, e) => y \in {m, tr.kid[e][m]}
      /\ tr.root # y => ColorOf(tr, tr.root) = "black"
      /\ IF p = Nil THEN y = tr.root
         ELSE p \in L /\ hd \in Sides /\ tr.kid[hd][p] = y
  BY DEF Shape, ColorsOK, TreeOK
<1>2. /\ L \subseteq Prices /\ Nil \notin L
      /\ \A m \in L : m \in Maybe /\ tr.color[m] \in Colors
      /\ \A m \in L, e \in Sides : tr.kid[e][m] \in L \union {Nil}
      /\ Nil \in Maybe /\ tr.root \in L \union {Nil}
  <2>1. tr.root \in L \union {Nil}
    BY <1>1 DEF TreeOK
  <2> QED BY <1>1, <2>1, ShapeFacts
<1>3. y \in L \union {Nil} /\ y \in Maybe
  BY <1>1, <1>2
<1>4. IsPainted(tr, y, "black", new)
  BY <1>1, <1>3, PaintedIs DEF Colors
<1>5. /\ new \in Trees /\ new.root = tr.root /\ new.kid = tr.kid /\ new.parent = tr.parent
      /\ \A m \in Prices : new.color[m] = IF m = y THEN "black" ELSE tr.color[m]
  BY <1>4 DEF IsPainted
<1>6. TreeOK(new, L, sub)
  <2>1. IsRepainted(tr, new)
    BY <1>5 DEF IsRepainted
  <2> QED BY <1>1, <2>1, PaintTree
<1>7. ASSUME NEW m \in L, NEW e \in Sides, RedChild(new, m, e)
      PROVE  FALSE
  <2>1. PICK k : k = tr.kid[e][m] /\ k \in L \union {Nil} /\ k = new.kid[e][m]
    BY <1>2, <1>5
  <2>2. k # Nil /\ k \in L /\ new.color[k] = "red" /\ new.color[m] = "red"
    BY <1>7, <2>1 DEF RedChild, ColorOf
  <2>3. m # y /\ k # y /\ tr.color[k] = "red" /\ tr.color[m] = "red"
    BY <1>2, <1>5, <2>2
  <2>4. RedChild(tr, m, e)
    BY <2>1, <2>2, <2>3 DEF RedChild, ColorOf
  <2> QED BY <1>1, <2>1, <2>3, <2>4
<1>8. ColorOf(new, new.root) = "black"
  <2>1. CASE tr.root = y
    BY <1>2, <1>5, <2>1 DEF ColorOf
  <2>2. CASE tr.root # y
    BY <1>1, <1>2, <1>5, <2>2 DEF ColorOf
  <2> QED BY <2>1, <2>2
<1>9. ColorsOK(new, L, "idle", Nil, Nil, hd)
  BY <1>7, <1>8 DEF ColorsOK
<1>10. CASE y = tr.root
  <2>1. p = Nil
    <3> SUFFICES ASSUME p # Nil PROVE FALSE
      OBVIOUS
    <3>1. p \in L /\ hd \in Sides /\ tr.kid[hd][p] = tr.root
      BY <1>1, <1>10
    <3>2. tr.root # Nil
      BY <1>1, <1>2, <3>1 DEF TreeOK
    <3> QED BY <1>1, <3>1, <3>2, KidFacts
  <2>2. \E b2 : HeightsOK(new, L, b2, Nil, hd)
    BY <1>1, <1>4, <1>10, <2>1, BlackRoot
  <2> QED BY <1>6, <1>9, <2>2 DEF Shape
<1>11. CASE y # tr.root
  <2>1. ColorOf(tr, y) # "black"
    BY <1>11
  <2>2. y # Nil /\ y \in L /\ tr.color[y] = "red"
    BY <1>2, <1>3, <2>1 DEF ColorOf, Colors
  <2>3. p \in L /\ hd \in Sides /\ tr.kid[hd][p] = y
    BY <1>1, <1>11
  <2>4. \A m \in L, e \in Sides : tr.kid[e][m] = y <=> m = p /\ e = hd
    <3>1. \A m \in L, e \in Sides : tr.kid[e][m] = y => m = tr.parent[y] /\ e = SideOf(tr, y)
      BY <1>1, <2>2, ParentFacts
    <3> QED BY <2>3, <3>1
  <2>5. CanBlacken(tr, L, sub, bh, p, hd, y, new)
    BY <1>1, <1>4, <2>2, <2>4 DEF CanBlacken
  <2>6. \E b2 : HeightsOK(new, L, b2, Nil, hd)
    BY <2>5, Blacken
  <2> QED BY <1>6, <1>9, <2>6 DEF Shape
<1> QED BY <1>10, <1>11

-----------------------------------------------------------------------------
(* Every step keeps the invariant.                                         *)

LEMMA SoundIs ==
  ASSUME NEW L, NEW sub, NEW bh, NEW hd, Sound(L, sub, bh, hd)
  PROVE  /\ Shape(t, L, sub, bh, hd, pc, x, xp) /\ ThreadsOK(L, type, pred, succ, best)
         /\ TreeOK(t, L, sub) /\ t \in Trees /\ L \subseteq Prices
         /\ t.root = Nil <=> L = {}
<1>1. Shape(t, L, sub, bh, hd, pc, x, xp) /\ ThreadsOK(L, type, pred, succ, best)
      /\ TreeOK(t, L, sub)
  BY DEF Sound, Shape
<1>2. t.root = Nil <=> L = {}
  BY <1>1, PriceFacts DEF TreeOK
<1> QED BY <1>1, <1>2 DEF TreeOK

LEMMA SoundNext ==
  ASSUME NEW L, NEW sub, NEW bh, NEW hd, Shape(t', L, sub, bh, hd, pc', x', xp'),
         ThreadsOK(L, type', pred', succ', best')
  PROVE  Linked(L)'
<1>1. Sound(L, sub, bh, hd)'
  BY DEF Shape, Sound
<1> QED BY <1>1 DEF Linked

LEMMA InitSound ==
  ASSUME Init
  PROVE  Linked({})
<1>1. PICK sub, bh : sub = [m \in Prices |-> {}] /\ bh = [m \in Maybe |-> 1]
  OBVIOUS
<1>2. /\ t \in Trees /\ t.root = Nil
      /\ \A l \in Prices : /\ t.kid["left"][l] = Nil /\ t.kid["right"][l] = Nil
                           /\ t.parent[l] = Nil /\ t.color[l] = "black"
  BY DEF Init, EmptyTree, Unthreaded, Trees, Sides, Colors, Maybe
<1>3. IsFiniteSet({})
  BY FS_EmptySet
<1>4. TreeOK(t, {}, sub)
  BY <1>1, <1>2, <1>3 DEF TreeOK
<1>5. HeightsOK(t, {}, bh, xp, "left")
  BY <1>1, <1>2 DEF HeightsOK, Maybe
<1>6. ColorsOK(t, {}, pc, x, xp, "left")
  BY <1>2 DEF Init, ColorsOK, ColorOf
<1>7. ThreadsOK({}, type, pred, succ, best)
  BY DEF Init, ThreadsOK, Unthreaded, Maybe
<1>8. Sound({}, sub, bh, "left")
  BY <1>4, <1>5, <1>6, <1>7 DEF Sound
<1> QED BY <1>8 DEF Linked

LEMMA ClearKeeps ==
  ASSUME NEW L, Linked(L), Clear
  PROVE  Linked({})'
<1>1. PICK sub, bh : sub = [m \in Prices |-> {}] /\ bh = [m \in Maybe |-> 1]
  OBVIOUS
<1>2. /\ t' \in Trees /\ t'.root = Nil
      /\ \A l \in Prices : /\ t'.kid["left"][l] = Nil /\ t'.kid["right"][l] = Nil
                           /\ t'.parent[l] = Nil /\ t'.color[l] = "black"
  BY DEF Clear, EmptyTree, Unthreaded, Trees, Sides, Colors, Maybe
<1>3. pc = "idle" /\ pc' = "idle" /\ type \in {"BID", "ASK"} /\ type' = type
      /\ x = Nil /\ xp = Nil /\ x' = x /\ xp' = xp
  BY DEF Clear, Linked, Sound, ColorsOK, ThreadsOK
<1>4. IsFiniteSet({})
  BY FS_EmptySet
<1>5. TreeOK(t', {}, sub)
  BY <1>1, <1>2, <1>4 DEF TreeOK
<1>6. HeightsOK(t', {}, bh, xp', "left")
  BY <1>1, <1>2 DEF HeightsOK, Maybe
<1>7. ColorsOK(t', {}, pc', x', xp', "left")
  BY <1>2, <1>3 DEF ColorsOK, ColorOf
<1>8. ThreadsOK({}, type', pred', succ', best')
  BY <1>3 DEF Clear, ThreadsOK, Unthreaded, Maybe
<1>9. Shape(t', {}, sub, bh, "left", pc', x', xp')
  BY <1>5, <1>6, <1>7 DEF Shape
<1> QED BY <1>8, <1>9, SoundNext

LEMMA InsertKeeps ==
  ASSUME NEW L, Linked(L), NEW p \in Prices, Insert(p)
  PROVE  p \notin L /\ Linked(L \union {p})'
<1>1. PICK sub, bh, hd : Sound(L, sub, bh, hd)
  BY DEF Linked
<1>2. /\ Shape(t, L, sub, bh, hd, pc, x, xp) /\ ThreadsOK(L, type, pred, succ, best)
      /\ TreeOK(t, L, sub) /\ t \in Trees /\ L \subseteq Prices
      /\ t.root = Nil <=> L = {}
  BY <1>1, SoundIs
<1>3. PICK gap, a, b : gap = Route(p) /\ a = gap.pred /\ b = gap.succ
  OBVIOUS
<1>4. /\ pc = "idle" /\ gap.existing = Nil /\ t' = Rooted(p, gap)
      /\ pred' = [l \in Prices |-> IF l = p THEN a ELSE IF l = b THEN p ELSE pred[l]]
      /\ succ' = [l \in Prices |-> IF l = p THEN b ELSE IF l = a THEN p ELSE succ[l]]
      /\ best' = IF t.root = Nil \/ (IF Bid THEN b ELSE a) = Nil THEN p ELSE best
      /\ pc' = "inserting" /\ x' = p /\ type' = type /\ xp' = xp
  BY <1>3 DEF Insert
<1>5. x = Nil /\ xp = Nil
  BY <1>2, <1>4 DEF Shape, ColorsOK
<1>6. p \notin L /\ a \in Maybe /\ b \in Maybe /\ Below(L, p, a) /\ Above(L, p, b)
  <2>1. IsPlace(L, p, Route(p))
    BY <1>2, RouteFound
  <2>2. p \notin L
    <3>1. p \in L => gap.existing = p
      BY <1>3, <2>1 DEF IsPlace, At
    <3> QED BY <1>4, <3>1, PriceFacts
  <2> QED BY <1>3, <2>1, <2>2 DEF IsPlace
<1>7. ThreadsOK(L \union {p}, type', pred', succ', best')
  <2>1. IsThreaded(L, type, pred, succ, best, p, a, b, pred', succ', best')
    BY <1>2, <1>4, <1>6 DEF IsThreaded, Bid
  <2>2. ThreadsOK(L \union {p}, type, pred', succ', best')
    BY <2>1, ThreadsGain
  <2> QED BY <1>4, <2>2
<1>8. PICK fresh : fresh = Painted(t, p, "red")
  OBVIOUS
<1>9. /\ IsPainted(t, p, "red", fresh) /\ p \in Maybe
  <2>1. p \in Maybe /\ "red" \in Colors
    BY DEF Maybe, Colors
  <2> QED BY <1>2, <1>8, <2>1, PaintedIs
<1>10. \E s2, b2 : Shape(t', L \union {p}, s2, b2, hd, "inserting", p, Nil)
  <2>1. CASE L = {}
    <3>1. t' = [fresh EXCEPT !.root = p]
      BY <1>2, <1>4, <1>8, <2>1 DEF Rooted
    <3>2. /\ t' \in Trees /\ t'.root = p /\ t'.kid = t.kid /\ t'.parent = t.parent
          /\ t'.color = fresh.color
      BY <1>9, <3>1 DEF IsPainted, Trees
    <3>3. \A m \in Prices : t'.color[m] = IF m = p THEN "red" ELSE t.color[m]
      BY <1>9, <3>2 DEF IsPainted
    <3>4. Shape(t, {}, sub, bh, hd, "idle", Nil, Nil)
      BY <1>2, <1>4, <1>5, <2>1
    <3>5. \E s2, b2 : Shape(t', {p}, s2, b2, hd, "inserting", p, Nil)
      BY <3>2, <3>3, <3>4, SproutFirst
    <3>6. L \union {p} = {p}
      BY <2>1
    <3> QED BY <3>5, <3>6
  <2>2. CASE L # {}
    <3>1. Shape(t, L, sub, bh, hd, "idle", Nil, Nil) /\ t.root # Nil
      BY <1>2, <1>4, <1>5, <2>2
    <3>2. /\ a # Nil /\ t.kid["right"][a] = Nil => CanHang(t, L, sub, p, a, "right")
          /\ ~ (a # Nil /\ t.kid["right"][a] = Nil) => CanHang(t, L, sub, p, b, "left")
      BY <1>2, <1>6, <2>2, PlaceFree
    <3>3. PICK q, d : /\ CanHang(t, L, sub, p, q, d)
                      /\ t' = Attached(fresh, q, d, p)
      <4>1. CASE a # Nil /\ t.kid["right"][a] = Nil
        <5>1. t' = Attached(fresh, a, "right", p)
          BY <1>3, <1>4, <1>8, <3>1, <4>1 DEF Rooted
        <5> QED BY <3>2, <4>1, <5>1
      <4>2. CASE ~ (a # Nil /\ t.kid["right"][a] = Nil)
        <5>1. t' = Attached(fresh, b, "left", p)
          BY <1>3, <1>4, <1>8, <3>1, <4>2 DEF Rooted
        <5> QED BY <3>2, <4>2, <5>1
      <4> QED BY <4>1, <4>2
    <3>4. IsHung(t, p, q, d, t')
      <4>1. IsHung(t, p, q, d, Attached(Painted(t, p, "red"), q, d, p))
        BY <3>3, HangIs
      <4> QED BY <1>8, <3>3, <4>1
    <3> QED BY <3>1, <3>3, <3>4, Sprout
  <2> QED BY <2>1, <2>2
<1>11. \E s2, b2 : Shape(t', L \union {p}, s2, b2, hd, pc', x', xp')
  BY <1>4, <1>5, <1>10
<1>12. Linked(L \union {p})'
  BY <1>7, <1>11, SoundNext
<1> QED BY <1>6, <1>12

LEMMA InsertDoneKeeps ==
  ASSUME NEW L, Linked(L), InsertDone
  PROVE  Linked(L)'
<1>1. PICK sub, bh, hd : Sound(L, sub, bh, hd)
  BY DEF Linked
<1>2. /\ Shape(t, L, sub, bh, hd, pc, x, xp) /\ ThreadsOK(L, type, pred, succ, best)
      /\ TreeOK(t, L, sub) /\ t \in Trees /\ L \subseteq Prices
      /\ t.root = Nil <=> L = {}
  BY <1>1, SoundIs
<1>3. /\ pc = "inserting" /\ ~ RedRed /\ t' = Painted(t, t.root, "black")
      /\ pc' = "idle" /\ x' = Nil /\ xp' = xp
      /\ UNCHANGED <<type, pred, succ, best>>
  BY DEF InsertDone
<1>4. xp = Nil
  BY <1>2, <1>3 DEF Shape, ColorsOK
<1>5. Shape(t, L, sub, bh, hd, "inserting", x, Nil)
  BY <1>2, <1>3, <1>4
<1>6. IsPainted(t, t.root, "black", t')
  <2>1. t.root \in Maybe /\ "black" \in Colors
    BY <1>2, TreeFields DEF Colors
  <2> QED BY <1>2, <1>3, <2>1, PaintedIs
<1>7. ~ (x # t.root /\ t.color[t.parent[x]] = "red")
  BY <1>3 DEF RedRed
<1>8. \E b2 : Shape(t', L, sub, b2, hd, "idle", Nil, Nil)
  BY <1>5, <1>6, <1>7, Settle
<1>9. \E b2 : Shape(t', L, sub, b2, hd, pc', x', xp')
  BY <1>3, <1>4, <1>8
<1>10. ThreadsOK(L, type', pred', succ', best')
  BY <1>2, <1>3
<1> QED BY <1>9, <1>10, SoundNext

-----------------------------------------------------------------------------
(* The walk in order.                                                      *)

Price == [p \in Prices |-> p]

LEMMA PriceRank ==
  ASSUME NEW S \in SUBSET Prices
  PROVE  /\ \A p \in S : Price[p] = p /\ Price[p] \in Int /\ p \in Nat
         /\ \A p, q \in S : Price[p] = Price[q] => p = q
<1>1. \A p \in S : Price[p] = p /\ p \in Nat
  BY PriceFacts DEF Price
<1> QED BY <1>1

LEMMA InOrderStep ==
  ASSUME NEW L, NEW sub, TreeOK(t, L, sub)
  PROVE  /\ InOrder[Nil] = <<>>
         /\ \A l \in Prices :
              InOrder[l] = InOrder[t.kid["left"][l]] \o <<l>> \o InOrder[t.kid["right"][l]]
<1> DEFINE V == Seq(Prices)
           Is(h) == h = [l \in Maybe |->
                           IF l = Nil THEN <<>>
                           ELSE h[t.kid["left"][l]] \o <<l>> \o h[t.kid["right"][l]]]
           F == [k \in Prices |-> [a \in V |-> [b \in V |-> a \o <<k>> \o b]]]
<1>1. /\ Nil \in Maybe /\ Nil \notin Prices /\ \A k \in Prices : k \in Maybe
      /\ \A k \in Prices : t.kid["left"][k] \in Maybe /\ t.kid["right"][k] \in Maybe
  BY TreeFields, PriceFacts DEF TreeOK, Sides, Maybe
<1>2. \A k \in Prices, a, b \in V : a \o <<k>> \o b \in V
  OBVIOUS
<1>3. <<>> \in V
  OBVIOUS
<1> HIDE DEF V
<1>4. /\ F \in [Prices -> [V -> [V -> V]]]
      /\ \A k \in Prices, a, b \in V : F[k][a][b] = a \o <<k>> \o b
  BY <1>2
<1> HIDE DEF F
<1>5. PICK f : f \in [Maybe -> V] /\ f[Nil] = <<>> /\ Solves(t, F, Prices, f)
  BY <1>3, <1>4, TreeRecursion
<1>6. \A k \in Prices : f[k] = f[t.kid["left"][k]] \o <<k>> \o f[t.kid["right"][k]]
  <2> TAKE k \in Prices
  <2>1. f[t.kid["left"][k]] \in V /\ f[t.kid["right"][k]] \in V
    BY <1>1, <1>5
  <2>2. f[k] = F[k][f[t.kid["left"][k]]][f[t.kid["right"][k]]]
    BY <1>5 DEF Solves
  <2> QED BY <1>4, <2>1, <2>2
<1>7. Is(f)
  <2>1. \A l \in Maybe : f[l] = IF l = Nil THEN <<>>
                                ELSE f[t.kid["left"][l]] \o <<l>> \o f[t.kid["right"][l]]
    BY <1>1, <1>5, <1>6 DEF Maybe
  <2> QED BY <1>5, <2>1
<1>8. InOrder = CHOOSE h : Is(h)
  BY DEF InOrder
<1>9. Is(InOrder)
  <2> HIDE DEF Is
  <2> QED BY <1>7, <1>8
<1> QED BY <1>1, <1>9

\* Read in order, the levels at and under a level come in the order of price.
LEMMA InOrderIs ==
  ASSUME NEW L, NEW sub, TreeOK(t, L, sub), NEW l \in L \union {Nil}
  PROVE  Enumerates(InOrder[l], Under(sub, l), Price)
<1> DEFINE Good == {k \in L : Enumerates(InOrder[k], Under(sub, k), Price)}
<1>1. /\ "left" \in Sides /\ "right" \in Sides /\ L \subseteq Prices /\ Nil \notin L
      /\ \A k \in L, d \in Sides : t.kid[d][k] \in L \union {Nil}
  BY PriceFacts DEF Sides, TreeOK, BranchOK
<1>2. Enumerates(InOrder[Nil], Under(sub, Nil), Price)
  BY InOrderStep, EnumNone DEF Under
<1>3. ASSUME NEW k \in L,
             \A d \in Sides : t.kid[d][k] # Nil => t.kid[d][k] \in Good
      PROVE  k \in Good
  <2>1. PICK a, b : a = t.kid["left"][k] /\ b = t.kid["right"][k]
    OBVIOUS
  <2>2. PICK s, u, A, B : /\ s = InOrder[a] /\ u = InOrder[b]
                          /\ A = Under(sub, a) /\ B = Under(sub, b)
    OBVIOUS
  <2>3. Enumerates(s, A, Price) /\ Enumerates(u, B, Price)
    BY <1>1, <1>2, <1>3, <2>1, <2>2
  <2>4. /\ Under(sub, k) = {k} \union A \union B /\ k \in Prices
        /\ \A m \in A : m \in Prices /\ m < k
        /\ \A m \in B : m \in Prices /\ k < m
    <3>1. sub[k] = {k} \union A \union B /\ sub[k] \subseteq L /\ k # Nil
      BY <1>1, <2>1, <2>2, KidPair, SubFacts
    <3>2. \A d \in Sides : \A m \in Under(sub, t.kid[d][k]) : Beyond(d, m, k)
      BY DEF TreeOK, BranchOK
    <3>3. (\A m \in A : m < k) /\ (\A m \in B : k < m)
      BY <1>1, <2>1, <2>2, <3>2 DEF Beyond
    <3> QED BY <1>1, <3>1, <3>3 DEF Under
  <2>5. /\ k \in Nat /\ Price[k] = k
        /\ \A m \in A \union B : m \in Nat /\ Price[m] = m
    BY <2>4, PriceFacts DEF Price
  <2>6. Enumerates(<<k>>, {k}, Price)
    BY <2>5, EnumOne
  <2>7. Enumerates(s \o <<k>>, A \union {k}, Price)
    <3>1. \A m \in A, n \in {k} : Price[m] < Price[n]
      BY <2>4, <2>5
    <3> QED BY <2>3, <2>6, <3>1, EnumJoin
  <2>8. Enumerates(s \o <<k>> \o u, (A \union {k}) \union B, Price)
    <3>1. \A m \in A \union {k}, n \in B : Price[m] < Price[n]
      <4> TAKE m \in A \union {k}, n \in B
      <4>1. m \in Nat /\ n \in Nat /\ k \in Nat /\ k < n /\ (m = k \/ m < k)
        BY <2>4, <2>5
      <4> QED BY <2>5, <4>1
    <3> QED BY <2>3, <2>7, <3>1, EnumJoin
  <2>9. InOrder[k] = s \o <<k>> \o u
    BY <2>1, <2>2, <2>4, InOrderStep
  <2>10. (A \union {k}) \union B = Under(sub, k)
    BY <2>4
  <2> QED BY <2>8, <2>9, <2>10
<1>4. Good \in SUBSET L
  OBVIOUS
<1> HIDE DEF Good
<1>5. Good = L
  BY <1>3, <1>4, TreeInduct
<1> QED BY <1>2, <1>5 DEF Good

\* The walk over the whole tree.
LEMMA LadderIs ==
  ASSUME NEW L, NEW sub, TreeOK(t, L, sub)
  PROVE  Enumerates(Ladder, L, Price) /\ Levels = L /\ L \subseteq Prices
<1>1. t.root \in L \union {Nil} /\ Under(sub, t.root) = L /\ L \subseteq Prices
  BY PriceFacts DEF TreeOK, Under
<1>2. Enumerates(Ladder, L, Price)
  BY <1>1, InOrderIs DEF Ladder
<1>3. \A p \in L : Price[p] \in Int
  BY <1>1, PriceRank
<1>4. ToSet(Ladder) = L
  BY <1>2, <1>3, EnumFacts
<1> QED BY <1>1, <1>2, <1>4 DEF Levels, ToSet

\* The two paints of one level each that come before a rotation.
LEMMA Painted2Is ==
  ASSUME NEW tr \in Trees, NEW p \in Maybe, NEW l \in Maybe, NEW c \in Colors
  PROVE  IsPainted3(tr, p, Nil, l, c, Painted(Painted(tr, p, "black"), l, c))
<1>1. Painted(Painted(tr, p, "black"), Nil, "black") = Painted(tr, p, "black")
  BY DEF Painted
<1>2. Nil \in Maybe
  BY DEF Maybe
<1>3. IsPainted3(tr, p, Nil, l, c,
        Painted(Painted(Painted(tr, p, "black"), Nil, "black"), l, c))
  BY <1>2, Painted3Is
<1> QED BY <1>1, <1>3

\* A level painted and then rotated down.
LEMMA PaintRotate ==
  ASSUME NEW tr, NEW L, NEW sub, TreeOK(tr, L, sub), NEW mid, IsRepainted(tr, mid),
         NEW l \in L, NEW d \in Sides, tr.kid[Other(d)][l] # Nil
  PROVE  IsRotated(mid, l, d, Rotate(mid, l, d))
<1>1. TreeOK(mid, L, sub)
  BY PaintTree
<1>2. mid.kid[Other(d)][l] # Nil
  BY DEF IsRepainted
<1>3. CanRotate(mid, L, sub, l, d)
  BY <1>1, <1>2 DEF CanRotate
<1> QED BY <1>3, RotateIs

\* After the rotation over the grandparent no red level has a red child.
Lifted(new, L, hd, y) ==
  /\ \E s2, b2 : Shape(new, L, s2, b2, hd, "inserting", y, Nil)
  /\ new.color[new.parent[y]] = "black"

\* The red level y is the outer child of its parent.
LEMMA LiftOuter ==
  ASSUME NEW tr, NEW L, NEW sub, NEW bh, NEW hd, NEW y, NEW p, NEW g, NEW d, NEW o,
         Shape(tr, L, sub, bh, hd, "inserting", y, Nil),
         RedRedAt(tr, L, y, p, g, d, o),
         tr.kid[d][p] = y, ColorOf(tr, tr.kid[o][g]) = "black",
         NEW new, new = Rotate(Painted(Painted(tr, p, "black"), g, "red"), g, o)
  PROVE  Lifted(new, L, hd, y)
<1>1. PICK mid : mid = Painted(Painted(tr, p, "black"), g, "red")
  OBVIOUS
<1>2. /\ TreeOK(tr, L, sub) /\ tr \in Trees /\ L \subseteq Prices
      /\ p \in L /\ g \in L /\ d \in Sides /\ o \in Sides /\ Other(o) = d
      /\ tr.kid[d][g] = p /\ p \in Maybe /\ g \in Maybe /\ p # Nil
  <2>1. /\ p \in L /\ g \in L /\ d \in Sides /\ o = Other(d) /\ tr.kid[d][g] = p
    BY DEF RedRedAt
  <2>2. TreeOK(tr, L, sub) /\ tr \in Trees /\ L \subseteq Prices
    BY DEF Shape, TreeOK
  <2> QED BY <2>1, <2>2, SideFacts, PriceFacts DEF Maybe
<1>3. IsPainted3(tr, p, Nil, g, "red", mid)
  <2>1. "red" \in Colors
    BY DEF Colors
  <2> QED BY <1>1, <1>2, <2>1, Painted2Is
<1>4. IsRotated(mid, g, o, new)
  <2>1. IsRepainted(tr, mid)
    BY <1>3 DEF IsPainted3
  <2>2. tr.kid[Other(o)][g] # Nil
    BY <1>2
  <2>3. IsRotated(mid, g, o, Rotate(mid, g, o))
    BY <1>2, <2>1, <2>2, PaintRotate
  <2> QED BY <1>1, <2>3
<1>5. CanLift(tr, L, sub, bh, hd, y, p, g, d, o, mid, new)
  BY <1>3, <1>4 DEF CanLift
<1>6. \E s2, b2 : Shape(new, L, s2, b2, hd, "inserting", y, Nil)
  BY <1>5, OuterLift
<1>7. new.color[new.parent[y]] = "black"
  <2>1. mid.kid = tr.kid /\ mid.parent = tr.parent /\ mid.color[p] = "black"
    <3>1. p # g /\ p \in Prices
      BY <1>2 DEF RedRedAt
    <3> QED BY <3>1, <1>3 DEF IsPainted3, IsRepainted
  <2>2. y \in Prices /\ y # g /\ y # p /\ y # tr.kid[o][p] /\ tr.parent[y] = p
    <3>1. y \in L /\ y # g /\ y # p /\ y # Nil
      BY <1>2, PriceFacts DEF RedRedAt
    <3>2. tr.kid[d][p] # Nil => /\ tr.kid[d][p] # tr.kid[Other(d)][p]
                                /\ tr.parent[tr.kid[d][p]] = p
      BY <1>2, KidFacts
    <3> QED BY <1>2, <3>1, <3>2 DEF RedRedAt
  <2>3. new.parent[y] = tr.parent[y] /\ new.color = mid.color
    BY <1>2, <1>4, <2>1, <2>2 DEF IsRotated
  <2> QED BY <2>1, <2>2, <2>3
<1> QED BY <1>6, <1>7 DEF Lifted

\* A pass that is not the last only paints, and goes on at the grandparent.
InsertPass ==
  RedRed' => t'.root = t.root /\ t'.parent = t.parent /\ x' = t.parent[t.parent[x]]

LEMMA InsertRebalanceKeeps ==
  ASSUME NEW L, Linked(L), InsertRebalance
  PROVE  Linked(L)' /\ InsertPass
<1>1. PICK sub, bh, hd : Sound(L, sub, bh, hd)
  BY DEF Linked
<1>2. /\ Shape(t, L, sub, bh, hd, pc, x, xp) /\ ThreadsOK(L, type, pred, succ, best)
      /\ TreeOK(t, L, sub) /\ t \in Trees /\ L \subseteq Prices
      /\ t.root = Nil <=> L = {}
  BY <1>1, SoundIs
<1>3. PICK p, g, d, o, u : /\ p = t.parent[x] /\ g = t.parent[p] /\ d = SideOf(t, p)
                           /\ o = Other(d) /\ u = t.kid[o][g]
  OBVIOUS
<1>4. /\ pc = "inserting" /\ RedRed /\ Lift(u, p, g, d)
      /\ pc' = pc /\ xp' = xp /\ UNCHANGED <<type, pred, succ, best>>
  BY <1>3 DEF InsertRebalance
<1>5. xp = Nil
  BY <1>2, <1>4 DEF Shape, ColorsOK
<1>6. Shape(t, L, sub, bh, hd, "inserting", x, Nil)
  BY <1>2, <1>4, <1>5
<1>7. RedRedAt(t, L, x, p, g, d, o)
  <2>1. x # t.root /\ t.color[t.parent[x]] = "red"
    BY <1>4 DEF RedRed
  <2> QED BY <1>3, <1>6, <2>1, RedPair
<1>8. /\ p \in L /\ g \in L /\ x \in L /\ d \in Sides /\ o \in Sides /\ o = Other(d)
      /\ t.kid[d][g] = p /\ u \in Maybe /\ p \in Maybe /\ g \in Maybe
      /\ x # Nil /\ "red" \in Colors
  <2>1. p \in L /\ g \in L /\ x \in L /\ d \in Sides /\ o = Other(d) /\ t.kid[d][g] = p
    BY <1>7 DEF RedRedAt
  <2>2. u \in Maybe
    BY <1>2, <1>3, <2>1, TreeFields, SideFacts
  <2> QED BY <1>2, <2>1, <2>2, SideFacts, PriceFacts DEF Maybe, Colors
<1>9. /\ \E s2, b2 : Shape(t', L, s2, b2, hd, "inserting", x', Nil)
      /\ InsertPass
  <2>1. CASE ColorOf(t, u) = "red"
    <3>1. x' = g /\ t' = Painted(Painted(Painted(t, p, "black"), u, "black"), g, "red")
      BY <1>4, <2>1 DEF Lift
    <3>2. IsPainted3(t, p, u, g, "red", t')
      BY <1>2, <1>8, <3>1, Painted3Is
    <3>3. CanRecolour(t, L, sub, bh, hd, x, p, g, d, o, u, t')
      BY <1>3, <1>6, <1>7, <2>1, <3>2 DEF CanRecolour
    <3>4. t'.root = t.root /\ t'.parent = t.parent
      BY <3>2 DEF IsPainted3, IsRepainted
    <3>5. \E s2, b2 : Shape(t', L, s2, b2, hd, "inserting", g, Nil)
      BY <3>3, Recolour
    <3> QED BY <1>3, <3>1, <3>4, <3>5 DEF InsertPass
  <2>2. CASE ColorOf(t, u) # "red" /\ x = t.kid[d][p]
    <3>1. x' = x /\ t' = Rotate(Painted(Painted(t, p, "black"), g, "red"), g, o)
      BY <1>4, <1>8, <2>2 DEF Lift
    <3>2. ColorOf(t, t.kid[o][g]) = "black"
      BY <1>2, <1>3, <1>8, <2>2, TreeFields DEF ColorOf, Colors, Maybe
    <3>3. Lifted(t', L, hd, x)
      BY <1>6, <1>7, <2>2, <3>1, <3>2, LiftOuter
    <3> QED BY <3>1, <3>3 DEF Lifted, InsertPass, RedRed
  <2>3. CASE ColorOf(t, u) # "red" /\ x # t.kid[d][p]
    <3>1. PICK line : line = Rotate(t, p, d)
      OBVIOUS
    <3>2. /\ x' = p
          /\ t' = Rotate(Painted(Painted(line, line.kid[d][g], "black"), g, "red"), g, o)
      BY <1>4, <1>8, <2>3, <3>1 DEF Lift
    <3>3. IsRotated(t, p, d, line)
      <4>1. t.kid[o][p] = x
        BY <1>7, <1>8, <2>3, SideFacts DEF RedRedAt
      <4>2. CanRotate(t, L, sub, p, d)
        BY <1>2, <1>8, <4>1 DEF CanRotate
      <4> QED BY <3>1, <4>2, RotateIs
    <3>4. CanTurn(t, L, sub, bh, hd, x, p, g, d, o, line)
      BY <1>6, <1>7, <2>3, <3>3 DEF CanTurn
    <3>5. PICK s2 : /\ Shape(line, L, s2, bh, hd, "inserting", p, Nil)
                    /\ RedRedAt(line, L, p, x, g, d, o)
                    /\ line.kid[d][x] = p /\ line.kid[o][g] = t.kid[o][g]
                    /\ line.color = t.color
      BY <3>4, InnerTurn
    <3>6. line.kid[d][g] = x
      BY <3>5 DEF RedRedAt
    <3>7. ColorOf(line, line.kid[o][g]) = "black"
      <4>1. ColorOf(line, line.kid[o][g]) = ColorOf(t, u)
        BY <1>3, <3>5 DEF ColorOf
      <4>2. ColorOf(t, u) = "black"
        BY <1>2, <1>8, <2>3, TreeFields DEF ColorOf, Colors, Maybe
      <4> QED BY <4>1, <4>2
    <3>8. Lifted(t', L, hd, p)
      <4>1. t' = Rotate(Painted(Painted(line, x, "black"), g, "red"), g, o)
        BY <3>2, <3>6
      <4>2. /\ Shape(line, L, s2, bh, hd, "inserting", p, Nil)
            /\ RedRedAt(line, L, p, x, g, d, o) /\ line.kid[d][x] = p
        BY <3>5
      <4>3. PICK y, top, new : /\ y = p /\ top = x /\ new = t'
                               /\ RedRedAt(line, L, y, top, g, d, o)
                               /\ Shape(line, L, s2, bh, hd, "inserting", y, Nil)
                               /\ line.kid[d][top] = y
        BY <4>2
      <4>4. new = Rotate(Painted(Painted(line, top, "black"), g, "red"), g, o)
        BY <4>1, <4>3
      <4>5. Lifted(new, L, hd, y)
        BY <3>7, <4>3, <4>4, LiftOuter
      <4> QED BY <4>3, <4>5
    <3> QED BY <3>2, <3>8 DEF Lifted, InsertPass, RedRed
  <2> QED BY <2>1, <2>2, <2>3
<1>10. \E s2, b2 : Shape(t', L, s2, b2, hd, pc', x', xp')
  BY <1>4, <1>5, <1>9
<1>11. ThreadsOK(L, type', pred', succ', best')
  BY <1>2, <1>4
<1>12. Linked(L)'
  BY <1>10, <1>11, SoundNext
<1> QED BY <1>9, <1>12

LEMMA EraseLevelKeeps ==
  ASSUME NEW L, Linked(L), NEW z \in Prices, EraseLevel(z)
  PROVE  z \in L /\ Linked(L \ {z})'
<1>1. PICK sub, bh, hd : Sound(L, sub, bh, hd)
  BY DEF Linked
<1>2. /\ Shape(t, L, sub, bh, hd, pc, x, xp) /\ ThreadsOK(L, type, pred, succ, best)
      /\ TreeOK(t, L, sub) /\ t \in Trees /\ L \subseteq Prices
      /\ t.root = Nil <=> L = {}
  BY <1>1, SoundIs
<1>3. /\ pc = "idle" /\ z \in Levels
      /\ best' = IF z = best THEN Worse(z) ELSE best
      /\ succ' = Without(succ, z, pred[z]) /\ pred' = Without(pred, z, succ[z])
      /\ t' = Recycled(Deleted(z).tree, z)
      /\ IF Deleted(z).lost = "black"
         THEN pc' = "erasing" /\ x' = Deleted(z).at /\ xp' = Deleted(z).under
         ELSE pc' = pc /\ x' = x /\ xp' = xp
      /\ type' = type
  BY DEF EraseLevel
<1>4. z \in L
  BY <1>2, <1>3, LadderIs
<1>5. x = Nil /\ xp = Nil
  BY <1>2, <1>3 DEF Shape, ColorsOK
<1>6. Shape(t, L, sub, bh, hd, "idle", Nil, Nil)
  BY <1>2, <1>3, <1>5
<1>7. Erased(z, t', L \ {z})
  <2>1. CASE t.kid["left"][z] = Nil \/ t.kid["right"][z] = Nil
    <3>1. Erased(z, Recycled(Deleted(z).tree, z), L \ {z})
      BY <1>4, <1>6, <2>1, EraseEnd
    <3> QED BY <1>3, <3>1
  <2>2. CASE t.kid["left"][z] # Nil /\ t.kid["right"][z] # Nil
    <3>1. Erased(z, Recycled(Deleted(z).tree, z), L \ {z})
      BY <1>4, <1>6, <2>2, EraseMiddle
    <3> QED BY <1>3, <3>1
  <2> QED BY <2>1, <2>2
<1>8. \E s2, b2, h2 : Shape(t', L \ {z}, s2, b2, h2, pc', x', xp')
  BY <1>3, <1>5, <1>7 DEF Erased
<1>9. ThreadsOK(L \ {z}, type', pred', succ', best')
  <2>1. IsUnthreaded(L, type, pred, succ, best, z, pred', succ', best')
    BY <1>2, <1>3, <1>4 DEF IsUnthreaded, Worse, Bid
  <2>2. ThreadsOK(L \ {z}, type, pred', succ', best')
    BY <2>1, ThreadsLose
  <2> QED BY <1>3, <2>2
<1>10. Linked(L \ {z})'
  BY <1>8, <1>9, SoundNext
<1> QED BY <1>4, <1>10

\* Once a red sibling is rotated away, the sibling is black.
LEMMA SiblingBlack ==
  ASSUME NEW L, NEW sub, NEW bh, NEW d, NEW o, NEW w,
         ShortAt(t, L, sub, bh, d, o, x, xp, w)
  PROVE  /\ \E s2, b2, v : /\ ShortAt(BlackSibling(d), L, s2, b2, d, o, x, xp, v)
                           /\ ColorOf(BlackSibling(d), v) = "black"
         /\ BlackSibling(d) = t \/ BlackSibling(d).color[xp] = "red"
<1>1. /\ TreeOK(t, L, sub) /\ t \in Trees /\ L \subseteq Prices
      /\ d \in Sides /\ o \in Sides /\ o = Other(d)
      /\ w \in L /\ xp \in L /\ w \in Maybe /\ xp \in Maybe
      /\ t.kid[o][xp] = w /\ w # Nil /\ t.color[w] \in Colors
  BY ShortFacts
<1>2. BlackSibling(d) =
        IF t.color[w] = "black" THEN t
        ELSE Rotate(Painted(Painted(t, w, "black"), xp, "red"), xp, d)
  BY <1>1 DEF BlackSibling, ColorOf
<1>3. CASE t.color[w] = "black"
  BY <1>1, <1>2, <1>3 DEF ColorOf
<1>4. CASE t.color[w] # "black"
  <2>1. PICK mid, new : /\ mid = Painted(Painted(t, w, "black"), xp, "red")
                        /\ new = Rotate(mid, xp, d)
    OBVIOUS
  <2>2. t.color[w] = "red" /\ "red" \in Colors
    BY <1>1, <1>4 DEF Colors
  <2>3. IsPainted3(t, w, Nil, xp, "red", mid)
    BY <1>1, <2>1, <2>2, Painted2Is
  <2>4. IsRotated(mid, xp, d, new)
    <3>1. IsRepainted(t, mid)
      BY <2>3 DEF IsPainted3
    <3>2. t.kid[Other(d)][xp] # Nil
      BY <1>1
    <3>3. IsRotated(mid, xp, d, Rotate(mid, xp, d))
      BY <1>1, <3>1, <3>2, PaintRotate
    <3> QED BY <2>1, <3>3
  <2>5. CanLower(t, L, sub, bh, d, o, x, xp, w, mid, new)
    BY <2>2, <2>3, <2>4 DEF CanLower
  <2>6. BlackSibling(d) = new
    BY <1>2, <1>4, <2>1
  <2>7. new.color[xp] = "red"
    BY <1>1, <2>3, <2>4 DEF IsPainted3, IsRotated
  <2>8. \E s2, b2, v : /\ ShortAt(new, L, s2, b2, d, o, x, xp, v)
                       /\ ColorOf(new, v) = "black"
    BY <2>5, Lower
  <2> QED BY <2>6, <2>7, <2>8
<1> QED BY <1>3, <1>4

\* The tree in which the sibling v of x has its red child on the far side.
FarTurned(tr, v, d, o) ==
  IF ColorOf(tr, tr.kid[o][v]) = "red" THEN tr
  ELSE Rotate(Painted(Painted(tr, tr.kid[d][v], "black"), v, "red"), v, o)

LEMMA FarTurnedIs ==
  ASSUME NEW tr, NEW L, NEW sub, NEW bh, NEW d, NEW o, NEW y, NEW p, NEW v,
         ShortAt(tr, L, sub, bh, d, o, y, p, v), ColorOf(tr, v) = "black",
         ~ \A e \in Sides : ColorOf(tr, tr.kid[e][v]) = "black"
  PROVE  \E s2, b2, w :
           /\ ShortAt(FarTurned(tr, v, d, o), L, s2, b2, d, o, y, p, w)
           /\ ColorOf(FarTurned(tr, v, d, o), w) = "black"
           /\ ColorOf(FarTurned(tr, v, d, o), FarTurned(tr, v, d, o).kid[o][w]) = "red"
<1>1. /\ TreeOK(tr, L, sub) /\ tr \in Trees /\ L \subseteq Prices /\ Nil \notin L
      /\ d \in Sides /\ o \in Sides /\ d = Other(o) /\ o = Other(d)
      /\ \A e \in Sides : e = d \/ e = o
      /\ v \in L /\ v \in Maybe /\ v # Nil
      /\ \A m \in L, e \in Sides : tr.kid[e][m] \in L \union {Nil}
      /\ \A m \in L : m \in Maybe /\ tr.color[m] \in Colors
  BY ShortFacts
<1>2. CASE ColorOf(tr, tr.kid[o][v]) = "red"
  BY <1>2 DEF FarTurned
<1>3. CASE ColorOf(tr, tr.kid[o][v]) # "red"
  <2>1. PICK u, mid, new : /\ u = tr.kid[d][v]
                           /\ mid = Painted(Painted(tr, u, "black"), v, "red")
                           /\ new = Rotate(mid, v, o)
    OBVIOUS
  <2>2. FarTurned(tr, v, d, o) = new
    BY <1>3, <2>1 DEF FarTurned
  <2>3. \A e \in Sides : ColorOf(tr, tr.kid[e][v]) \in {"red", "black"}
    BY <1>1 DEF ColorOf, Colors
  <2>4. ColorOf(tr, tr.kid[o][v]) = "black" /\ ColorOf(tr, u) = "red"
    BY <1>1, <1>3, <2>1, <2>3
  <2>5. u \in L /\ u # Nil /\ u \in Maybe /\ tr.color[v] = "black" /\ "red" \in Colors
    BY <1>1, <2>1, <2>4 DEF ColorOf, Colors
  <2>6. IsPainted3(tr, u, Nil, v, "red", mid)
    BY <1>1, <2>1, <2>5, Painted2Is
  <2>7. IsRotated(mid, v, o, new)
    <3>1. IsRepainted(tr, mid)
      BY <2>6 DEF IsPainted3
    <3>2. tr.kid[Other(o)][v] # Nil
      BY <1>1, <2>1, <2>5
    <3>3. IsRotated(mid, v, o, Rotate(mid, v, o))
      BY <1>1, <3>1, <3>2, PaintRotate
    <3> QED BY <2>1, <3>3
  <2>8. CanNear(tr, L, sub, bh, d, o, y, p, v, u, mid, new)
    BY <2>1, <2>4, <2>5, <2>6, <2>7 DEF CanNear
  <2>9. \E s2, b2 : /\ ShortAt(new, L, s2, b2, d, o, y, p, u)
                    /\ ColorOf(new, u) = "black"
                    /\ ColorOf(new, new.kid[o][u]) = "red"
    BY <2>8, Near
  <2> QED BY <2>2, <2>9
<1> QED BY <1>2, <1>3

\* The tree of which the sibling w, in the parent's place, makes good the loss.
Evened(far, p, w, d, o) ==
  LET even == Painted(Painted(far, w, far.color[p]), p, "black")
  IN  Rotate(Painted(even, even.kid[o][w], "black"), p, d)

LEMMA EvenedIs ==
  ASSUME NEW tr, NEW L, NEW sub, NEW bh, NEW d, NEW o, NEW y, NEW p, NEW w,
         ShortAt(tr, L, sub, bh, d, o, y, p, w), ColorOf(tr, w) = "black",
         ColorOf(tr, tr.kid[o][w]) = "red", NEW new, new = Evened(tr, p, w, d, o)
  PROVE  \E s2, b2 : Shape(new, L, s2, b2, d, "erasing", new.root, Nil)
<1>1. /\ TreeOK(tr, L, sub) /\ tr \in Trees /\ L \subseteq Prices /\ Nil \notin L
      /\ d \in Sides /\ o \in Sides /\ o = Other(d)
      /\ p \in L /\ w \in L /\ w # p /\ w \in Maybe /\ p \in Maybe
      /\ w # Nil /\ p # Nil /\ tr.kid[o][p] = w
      /\ tr.color[p] \in Colors /\ "black" \in Colors
      /\ \A m \in L, e \in Sides : tr.kid[e][m] \in L \union {Nil}
  BY ShortFacts DEF Colors
<1>2. PICK f, c : f = tr.kid[o][w] /\ c = tr.color[p]
  OBVIOUS
<1>3. f \in L /\ f \in Maybe /\ f # w
  <2>1. f \in L \union {Nil} /\ f # Nil
    BY <1>1, <1>2 DEF ColorOf
  <2>2. tr.kid[o][w] # Nil => tr.kid[o][w] # w
    BY <1>1, KidFacts
  <2> QED BY <1>1, <1>2, <2>1, <2>2 DEF Maybe
<1>4. PICK one, two, mid : /\ one = Painted(tr, w, c) /\ two = Painted(one, p, "black")
                           /\ mid = Painted(two, f, "black")
  OBVIOUS
<1>5. IsPainted(tr, w, c, one)
  BY <1>1, <1>2, <1>4, PaintedIs
<1>6. IsPainted(one, p, "black", two)
  <2>1. one \in Trees
    BY <1>5 DEF IsPainted
  <2> QED BY <1>1, <1>4, <2>1, PaintedIs
<1>7. IsPainted(two, f, "black", mid)
  <2>1. two \in Trees
    BY <1>6 DEF IsPainted
  <2> QED BY <1>1, <1>3, <1>4, <2>1, PaintedIs
<1>8. IsPainted3(tr, p, f, w, c, mid)
  <2>1. IsRepainted(tr, mid)
    BY <1>5, <1>6, <1>7 DEF IsPainted, IsRepainted
  <2>2. \A m \in Prices :
          mid.color[m] = IF m = w THEN c ELSE IF m = f \/ m = p THEN "black"
                         ELSE tr.color[m]
    <3> TAKE m \in Prices
    <3>1. /\ one.color[m] = IF m = w THEN c ELSE tr.color[m]
          /\ two.color[m] = IF m = p THEN "black" ELSE one.color[m]
          /\ mid.color[m] = IF m = f THEN "black" ELSE two.color[m]
      BY <1>5, <1>6, <1>7 DEF IsPainted
    <3> QED BY <1>1, <1>3, <3>1
  <2> QED BY <2>1, <2>2 DEF IsPainted3
<1>9. new = Rotate(mid, p, d)
  <2>1. two.kid = tr.kid
    BY <1>5, <1>6 DEF IsPainted
  <2> QED BY <1>2, <1>4, <2>1 DEF Evened
<1>10. IsRotated(mid, p, d, new)
  <2>1. IsRepainted(tr, mid)
    BY <1>8 DEF IsPainted3
  <2>2. tr.kid[Other(d)][p] # Nil
    BY <1>1
  <2>3. IsRotated(mid, p, d, Rotate(mid, p, d))
    BY <1>1, <2>1, <2>2, PaintRotate
  <2> QED BY <1>9, <2>3
<1>11. tr.color[w] = "black"
  BY <1>1 DEF ColorOf
<1>12. CanFar(tr, L, sub, bh, d, o, y, p, w, f, mid, new)
  BY <1>2, <1>8, <1>10, <1>11 DEF CanFar
<1> QED BY <1>12, Far

\* A pass that is not the last only paints, and goes on at the parent.
ErasePass == Fixing' => t'.root = t.root /\ t'.parent = t.parent /\ x' = xp

LEMMA DeleteFixupKeeps ==
  ASSUME NEW L, Linked(L), DeleteFixup
  PROVE  Linked(L)' /\ ErasePass
<1>1. PICK sub, bh, hd : Sound(L, sub, bh, hd)
  BY DEF Linked
<1>2. /\ Shape(t, L, sub, bh, hd, pc, x, xp) /\ ThreadsOK(L, type, pred, succ, best)
      /\ TreeOK(t, L, sub) /\ t \in Trees /\ L \subseteq Prices
      /\ t.root = Nil <=> L = {}
  BY <1>1, SoundIs
<1>3. PICK d, o : d = (IF t.kid["left"][xp] = x THEN "left" ELSE "right") /\ o = Other(d)
  OBVIOUS
<1>4. PICK tr, w : tr = BlackSibling(d) /\ w = tr.kid[o][xp]
  OBVIOUS
<1>5. /\ pc = "erasing" /\ x # t.root /\ ColorOf(t, x) = "black"
      /\ IF \A e \in Sides : ColorOf(tr, tr.kid[e][w]) = "black"
         THEN PassedUp(tr, w) ELSE MadeGood(tr, d)
      /\ pc' = pc /\ UNCHANGED <<type, pred, succ, best>>
  BY <1>3, <1>4 DEF DeleteFixup, Fixing
<1>6. Shape(t, L, sub, bh, hd, "erasing", x, xp)
  BY <1>2, <1>5
<1>7. ShortAt(t, L, sub, bh, d, o, x, xp, t.kid[o][xp])
  <2>1. /\ (IF t.kid["left"][xp] = x THEN "left" ELSE "right") = hd
        /\ ShortAt(t, L, sub, bh, hd, Other(hd), x, xp, t.kid[Other(hd)][xp])
    BY <1>5, <1>6, FixingAt
  <2> QED BY <1>3, <2>1
<1>8. PICK s2, b2 : /\ ShortAt(tr, L, s2, b2, d, o, x, xp, w) /\ ColorOf(tr, w) = "black"
                    /\ tr = t \/ tr.color[xp] = "red"
  <2>1. PICK s2, b2, v : /\ ShortAt(tr, L, s2, b2, d, o, x, xp, v)
                         /\ ColorOf(tr, v) = "black"
                         /\ tr = t \/ tr.color[xp] = "red"
    BY <1>4, <1>7, SiblingBlack
  <2>2. v = w
    BY <1>4, <2>1 DEF ShortAt
  <2> QED BY <2>1, <2>2
<1>9. /\ tr \in Trees /\ w \in L /\ w \in Maybe /\ w # Nil /\ L \subseteq Prices
      /\ o = Other(d)
  BY <1>8, ShortFacts
<1>10. /\ \E s3, b3, h3 : Shape(t', L, s3, b3, h3, "erasing", x', xp')
       /\ ErasePass
  <2>1. CASE \A e \in Sides : ColorOf(tr, tr.kid[e][w]) = "black"
    <3>1. t' = Painted(tr, w, "red") /\ x' = xp /\ xp' = tr.parent[xp]
      BY <1>5, <2>1 DEF PassedUp
    <3>2. IsPainted(tr, w, "red", t')
      <4>1. "red" \in Colors
        BY DEF Colors
      <4> QED BY <1>9, <3>1, <4>1, PaintedIs
    <3>3. CanPass(tr, L, s2, b2, d, o, x, xp, w, t')
      BY <1>8, <1>9, <2>1, <3>2 DEF CanPass, ColorOf
    <3>4. \E b3, h3 : Shape(t', L, s2, b3, h3, "erasing", xp, tr.parent[xp])
      BY <3>3, Pass
    <3>5. ErasePass
      <4>1. CASE tr = t
        <5>1. t'.root = t.root /\ t'.parent = t.parent
          BY <3>2, <4>1 DEF IsPainted
        <5> QED BY <3>1, <5>1 DEF ErasePass
      <4>2. CASE tr.color[xp] = "red"
        <5>1. xp \in Prices /\ xp # Nil
          BY <1>8, <1>9, ShortFacts
        <5>2. ColorOf(t', xp) = "red"
          BY <3>2, <4>2, <5>1 DEF IsPainted, ColorOf
        <5> QED BY <3>1, <5>2 DEF ErasePass, Fixing
      <4> QED BY <1>8, <4>1, <4>2
    <3> QED BY <3>1, <3>4, <3>5
  <2>2. CASE ~ \A e \in Sides : ColorOf(tr, tr.kid[e][w]) = "black"
    <3>1. PICK far, f : far = FarTurned(tr, w, d, o) /\ f = far.kid[o][xp]
      OBVIOUS
    <3>2. t' = Evened(far, xp, f, d, o) /\ x' = t'.root /\ xp' = Nil
      <4>1. MadeGood(tr, d)
        BY <1>5, <2>2
      <4> QED BY <1>4, <1>9, <3>1, <4>1 DEF MadeGood, FarTurned, Evened
    <3>3. PICK s3, b3 : /\ ShortAt(far, L, s3, b3, d, o, x, xp, f)
                        /\ ColorOf(far, f) = "black"
                        /\ ColorOf(far, far.kid[o][f]) = "red"
      <4>1. PICK s3, b3, v : /\ ShortAt(far, L, s3, b3, d, o, x, xp, v)
                             /\ ColorOf(far, v) = "black"
                             /\ ColorOf(far, far.kid[o][v]) = "red"
        BY <1>8, <2>2, <3>1, FarTurnedIs
      <4>2. v = f
        BY <3>1, <4>1 DEF ShortAt
      <4> QED BY <4>1, <4>2
    <3>4. \E s4, b4 : Shape(t', L, s4, b4, d, "erasing", t'.root, Nil)
      BY <3>2, <3>3, EvenedIs
    <3> QED BY <3>2, <3>4 DEF ErasePass, Fixing
  <2> QED BY <2>1, <2>2
<1>11. \E s3, b3, h3 : Shape(t', L, s3, b3, h3, pc', x', xp')
  BY <1>5, <1>10
<1>12. ThreadsOK(L, type', pred', succ', best')
  BY <1>2, <1>5
<1>13. Linked(L)'
  BY <1>11, <1>12, SoundNext
<1> QED BY <1>10, <1>13

LEMMA DeleteDoneKeeps ==
  ASSUME NEW L, Linked(L), DeleteDone
  PROVE  Linked(L)'
<1>1. PICK sub, bh, hd : Sound(L, sub, bh, hd)
  BY DEF Linked
<1>2. /\ Shape(t, L, sub, bh, hd, pc, x, xp) /\ ThreadsOK(L, type, pred, succ, best)
      /\ TreeOK(t, L, sub) /\ t \in Trees /\ L \subseteq Prices
      /\ t.root = Nil <=> L = {}
  BY <1>1, SoundIs
<1>3. /\ pc = "erasing" /\ ~ (x # t.root /\ ColorOf(t, x) = "black")
      /\ t' = Painted(t, x, "black") /\ pc' = "idle" /\ x' = Nil /\ xp' = Nil
      /\ UNCHANGED <<type, pred, succ, best>>
  BY DEF DeleteDone, Fixing
<1>4. Shape(t, L, sub, bh, hd, "erasing", x, xp)
  BY <1>2, <1>3
<1>5. \E b2 : Shape(t', L, sub, b2, hd, "idle", Nil, Nil)
  BY <1>3, <1>4, Even
<1>6. \E b2 : Shape(t', L, sub, b2, hd, pc', x', xp')
  BY <1>3, <1>5
<1>7. ThreadsOK(L, type', pred', succ', best')
  BY <1>2, <1>3
<1> QED BY <1>6, <1>7, SoundNext

\* Levels enter the tree and leave it one at a time, or all at once.
LevelsStep(L, K) ==
  \/ \E p \in Prices \ L : K = L \union {p}
  \/ \E z \in L : K = L \ {z}
  \/ K = L \/ K = {}

LEMMA StepKeeps ==
  ASSUME NEW L, Linked(L), [Next]_vars
  PROVE  \E K : Linked(K)' /\ LevelsStep(L, K)
<1>1. CASE UNCHANGED vars
  <2>1. Linked(L)'
    BY <1>1 DEF vars, Linked, Sound
  <2> QED BY <2>1 DEF LevelsStep
<1>2. ASSUME NEW p \in Prices, Insert(p)
      PROVE  \E K : Linked(K)' /\ LevelsStep(L, K)
  BY <1>2, InsertKeeps DEF LevelsStep
<1>3. CASE InsertRebalance
  BY <1>3, InsertRebalanceKeeps DEF LevelsStep
<1>4. CASE InsertDone
  BY <1>4, InsertDoneKeeps DEF LevelsStep
<1>5. ASSUME NEW z \in Prices, EraseLevel(z)
      PROVE  \E K : Linked(K)' /\ LevelsStep(L, K)
  BY <1>5, EraseLevelKeeps DEF LevelsStep
<1>6. CASE DeleteFixup
  BY <1>6, DeleteFixupKeeps DEF LevelsStep
<1>7. CASE DeleteDone
  BY <1>7, DeleteDoneKeeps DEF LevelsStep
<1>8. CASE Clear
  BY <1>8, ClearKeeps DEF LevelsStep
<1> QED BY <1>1, <1>2, <1>3, <1>4, <1>5, <1>6, <1>7, <1>8 DEF Next

\* After every step some set of levels, subtrees and black heights make the
\* tree, the colours and the threads sound: insert and erase of narb_tree.h
\* keep the red-black tree they restore, pass by pass.
THEOREM Invariant == Spec => []IInv
<1>1. Init => IInv
  BY InitSound DEF IInv
<1>2. IInv /\ [Next]_vars => IInv'
  BY StepKeeps DEF IInv
<1> QED BY <1>1, <1>2, PTL DEF Spec

-----------------------------------------------------------------------------
(* What the invariant says of the state.                                   *)

\* The levels read from the tree are those of the invariant.
LEMMA LinkedLevels ==
  \A L : Linked(L) => Enumerates(Ladder, L, Price) /\ Levels = L /\ L \subseteq Prices
<1> SUFFICES ASSUME NEW L, Linked(L)
             PROVE  Enumerates(Ladder, L, Price) /\ Levels = L /\ L \subseteq Prices
  OBVIOUS
<1>1. PICK sub, bh, hd : Sound(L, sub, bh, hd)
  BY DEF Linked
<1>2. TreeOK(t, L, sub)
  BY <1>1 DEF Sound
<1> QED BY <1>2, LadderIs

LEMMA LinkedLevelsNext ==
  (\A L : Linked(L) =>
     Enumerates(Ladder, L, Price) /\ Levels = L /\ L \subseteq Prices)'
  BY LinkedLevels, PTL

LEMMA InvTypes == IInv => TypeOK
<1> SUFFICES ASSUME IInv PROVE TypeOK
  OBVIOUS
<1>1. PICK L, sub, bh, hd : Sound(L, sub, bh, hd)
  BY DEF IInv, Linked
<1>2. /\ TreeOK(t, L, sub) /\ ThreadsOK(L, type, pred, succ, best)
      /\ ColorsOK(t, L, pc, x, xp, hd)
  BY <1>1 DEF Sound
<1>3. t \in Trees /\ L \subseteq Prices /\ Levels = L /\ t.root \in Maybe
  BY <1>2, LadderIs, TreeFields DEF TreeOK
<1>4. best \in Maybe
  BY <1>2, <1>3 DEF ThreadsOK, Maybe
<1>5. pc \in {"idle", "inserting", "erasing"} /\ x \in Maybe /\ xp \in Maybe
  <2>1. CASE pc = "idle"
    BY <1>2, <2>1 DEF ColorsOK, Maybe
  <2>2. CASE pc = "inserting"
    BY <1>2, <1>3, <2>2 DEF ColorsOK, Maybe
  <2>3. CASE pc = "erasing"
    <3>1. IF xp = Nil THEN x = t.root ELSE xp \in L /\ hd \in Sides /\ t.kid[hd][xp] = x
      BY <1>2, <2>3 DEF ColorsOK
    <3>2. xp \in Maybe
      BY <1>3, <3>1 DEF Maybe
    <3>3. x \in Maybe
      BY <1>3, <3>1, TreeFields
    <3> QED BY <2>3, <3>2, <3>3
  <2> QED BY <1>2, <2>1, <2>2, <2>3 DEF ColorsOK
<1>6. \A l \in Levels : IF t.parent[l] = Nil THEN l = t.root
                        ELSE l \in {t.kid[d][t.parent[l]] : d \in Sides}
  <2> TAKE l \in Levels
  <2>1. /\ t.parent[l] = Nil <=> l = t.root
        /\ l # t.root => /\ SideOf(t, l) \in Sides
                         /\ t.kid[SideOf(t, l)][t.parent[l]] = l
    BY <1>2, <1>3, ParentFacts
  <2> QED BY <2>1
<1> QED BY <1>2, <1>3, <1>4, <1>5, <1>6 DEF TypeOK, Trees, ThreadsOK

\* Whatever the levels and the calls, every field of a level, and the top of
\* the book, is a level or null, and each level hangs from the parent it names.
THEOREM LevelTypes == Spec => []TypeOK
  BY Invariant, InvTypes, PTL

-----------------------------------------------------------------------------
(* The black height.                                                       *)

HeightOver(l, a, b) ==
  IF \/ t.color[l] = "red" /\ \E d \in Sides : ColorOf(t, t.kid[d][l]) = "red"
     \/ a # b \/ a = -1
  THEN -1
  ELSE a + (IF t.color[l] = "black" THEN 1 ELSE 0)

LEMMA BlackHeightStep ==
  ASSUME NEW L, NEW sub, TreeOK(t, L, sub)
  PROVE  /\ BlackHeight[Nil] = 1
         /\ \A l \in Prices :
              BlackHeight[l] = HeightOver(l, BlackHeight[t.kid["left"][l]],
                                          BlackHeight[t.kid["right"][l]])
<1> DEFINE Is(h) == h = [l \in Maybe |->
             IF l = Nil THEN 1
             ELSE LET heights == [d \in Sides |-> h[t.kid[d][l]]]
                  IN  IF \/ t.color[l] = "red"
                            /\ \E d \in Sides : ColorOf(t, t.kid[d][l]) = "red"
                         \/ heights["left"] # heights["right"]
                         \/ heights["left"] = -1
                      THEN -1
                      ELSE heights["left"] + (IF t.color[l] = "black" THEN 1 ELSE 0)]
           F == [k \in Prices |-> [a \in Int |-> [b \in Int |-> HeightOver(k, a, b)]]]
<1>1. /\ Nil \in Maybe /\ Nil \notin Prices /\ \A k \in Prices : k \in Maybe
      /\ "left" \in Sides /\ "right" \in Sides
      /\ \A k \in Prices : t.kid["left"][k] \in Maybe /\ t.kid["right"][k] \in Maybe
  BY TreeFields, PriceFacts DEF TreeOK, Sides, Maybe
<1>2. \A k \in Prices, a, b \in Int : HeightOver(k, a, b) \in Int
  BY DEF HeightOver
<1>3. /\ F \in [Prices -> [Int -> [Int -> Int]]]
      /\ \A k \in Prices, a, b \in Int : F[k][a][b] = HeightOver(k, a, b)
  BY <1>2
<1> HIDE DEF F
<1>4. PICK f : f \in [Maybe -> Int] /\ f[Nil] = 1 /\ Solves(t, F, Prices, f)
  <2>1. PICK V, one : V = Int /\ one = 1 /\ one \in V /\ F \in [Prices -> [V -> [V -> V]]]
    BY <1>3
  <2>2. \E f : f \in [Maybe -> V] /\ f[Nil] = one /\ Solves(t, F, Prices, f)
    BY <2>1, TreeRecursion
  <2> QED BY <2>1, <2>2
<1>5. \A k \in Prices : f[k] = HeightOver(k, f[t.kid["left"][k]], f[t.kid["right"][k]])
  <2> TAKE k \in Prices
  <2>1. f[t.kid["left"][k]] \in Int /\ f[t.kid["right"][k]] \in Int
    BY <1>1, <1>4
  <2>2. f[k] = F[k][f[t.kid["left"][k]]][f[t.kid["right"][k]]]
    BY <1>4 DEF Solves
  <2> QED BY <1>3, <2>1, <2>2
<1>6. ASSUME NEW h
      PROVE  Is(h) <=> h = [l \in Maybe |->
               IF l = Nil THEN 1
               ELSE HeightOver(l, h[t.kid["left"][l]], h[t.kid["right"][l]])]
  BY <1>1 DEF HeightOver
<1>7. Is(f)
  <2>1. \A l \in Maybe : f[l] = IF l = Nil THEN 1
          ELSE HeightOver(l, f[t.kid["left"][l]], f[t.kid["right"][l]])
    BY <1>1, <1>4, <1>5 DEF Maybe
  <2>2. f = [l \in Maybe |->
               IF l = Nil THEN 1
               ELSE HeightOver(l, f[t.kid["left"][l]], f[t.kid["right"][l]])]
    BY <1>4, <2>1
  <2> HIDE DEF Is
  <2> QED BY <1>6, <2>2
<1>8. BlackHeight = CHOOSE h : Is(h)
  BY DEF BlackHeight
<1> HIDE DEF Is
<1>9. Is(BlackHeight)
  BY <1>7, <1>8
<1>10. BlackHeight = [l \in Maybe |->
         IF l = Nil THEN 1
         ELSE HeightOver(l, BlackHeight[t.kid["left"][l]], BlackHeight[t.kid["right"][l]])]
  BY <1>6, <1>9
<1> QED BY <1>1, <1>10

\* Between calls the invariant's heights are the ones rb_check computes.
LEMMA BlackHeightIs ==
  ASSUME NEW L, NEW sub, NEW bh, NEW hd, Shape(t, L, sub, bh, hd, "idle", Nil, Nil),
         NEW l \in L \union {Nil}
  PROVE  BlackHeight[l] = bh[l] /\ bh[l] \in Nat \ {0}
<1> DEFINE Good == {k \in L : BlackHeight[k] = bh[k]}
<1>1. /\ TreeOK(t, L, sub) /\ HeightsOK(t, L, bh, Nil, hd)
      /\ \A k \in L, d \in Sides : ~ RedChild(t, k, d)
  BY DEF Shape, ColorsOK
<1>2. /\ "left" \in Sides /\ "right" \in Sides /\ L \subseteq Prices /\ Nil \notin L
      /\ \A k \in L, d \in Sides : t.kid[d][k] \in L \union {Nil}
      /\ \A k \in L \union {Nil} : bh[k] \in Nat \ {0}
      /\ bh[Nil] = 1
  BY <1>1, ShapeFacts DEF Sides
<1>3. BlackHeight[Nil] = bh[Nil]
  BY <1>1, <1>2, BlackHeightStep
<1>4. ASSUME NEW k \in L,
             \A d \in Sides : t.kid[d][k] # Nil => t.kid[d][k] \in Good
      PROVE  k \in Good
  <2>1. PICK a, b : a = t.kid["left"][k] /\ b = t.kid["right"][k]
    OBVIOUS
  <2>2. BlackHeight[a] = bh[a] /\ BlackHeight[b] = bh[b]
    BY <1>2, <1>3, <1>4, <2>1
  <2>3. /\ bh[a] \in Nat \ {0} /\ bh[b] \in Nat \ {0}
        /\ bh[k] = bh[a] + Unit(t, k) /\ bh[k] = bh[b] + Unit(t, k)
        /\ Unit(t, k) \in {0, 1}
    <3>1. k # Nil
      BY <1>2
    <3> QED BY <1>1, <1>2, <2>1, <3>1, HeightIs
  <2>4. bh[a] = bh[b] /\ bh[a] # -1
    BY <2>3
  <2>5. BlackHeight[k] = HeightOver(k, bh[a], bh[b])
    BY <1>1, <1>2, <2>1, <2>2, BlackHeightStep
  <2>6. ~ (t.color[k] = "red" /\ \E d \in Sides : ColorOf(t, t.kid[d][k]) = "red")
    BY <1>1 DEF RedChild
  <2>7. BlackHeight[k] = bh[a] + Unit(t, k)
    BY <2>4, <2>5, <2>6 DEF HeightOver, Unit
  <2> QED BY <2>3, <2>7
<1>5. Good \in SUBSET L
  OBVIOUS
<1> HIDE DEF Good
<1>6. Good = L
  BY <1>1, <1>4, <1>5, TreeInduct
<1> QED BY <1>2, <1>3, <1>6 DEF Good

LEMMA InvRedBlack == IInv => RedBlack
<1> SUFFICES ASSUME IInv, pc = "idle"
             PROVE  ColorOf(t, t.root) = "black" /\ BlackHeight[t.root] # -1
  BY DEF RedBlack
<1>1. PICK L, sub, bh, hd : Sound(L, sub, bh, hd)
  BY DEF IInv, Linked
<1>2. /\ Shape(t, L, sub, bh, hd, "idle", Nil, Nil) /\ ColorOf(t, t.root) = "black"
      /\ TreeOK(t, L, sub)
  BY <1>1 DEF Sound, Shape, ColorsOK
<1>3. t.root \in L \union {Nil}
  BY <1>2 DEF TreeOK
<1>4. BlackHeight[t.root] \in Nat \ {0}
  BY <1>2, <1>3, BlackHeightIs
<1> QED BY <1>2, <1>4

\* Between two calls the root is black, no red level has a red child, and every
\* way down meets as many black levels, whatever was inserted and erased.
THEOREM StaysRedBlack == Spec => []RedBlack
  BY Invariant, InvRedBlack, PTL

-----------------------------------------------------------------------------
(* The neighbours of a price in the list of the levels.                    *)

LEMMA ListFacts ==
  ASSUME NEW s, NEW L, Enumerates(s, L, Price), L \subseteq Prices
  PROVE  /\ Len(s) \in Nat /\ DOMAIN s = 1 .. Len(s)
         /\ \A i \in DOMAIN s : s[i] \in L /\ s[i] \in Nat /\ s[i] # Nil
         /\ \A i, j \in DOMAIN s : i < j <=> s[i] < s[j]
         /\ \A l \in L : \E i \in DOMAIN s : s[i] = l
         /\ \A l \in L : l \in Nat /\ l # Nil /\ Price[l] = l /\ Price[l] \in Int
         /\ L = {} <=> Len(s) = 0
<1>1. \A l \in L : l \in Nat /\ l # Nil /\ Price[l] = l /\ Price[l] \in Int
  BY PriceFacts DEF Price
<1>2. /\ Len(s) \in Nat /\ DOMAIN s = 1 .. Len(s)
      /\ \A i \in DOMAIN s : s[i] \in L
      /\ \A i, j \in DOMAIN s : i < j <=> Price[s[i]] < Price[s[j]]
  BY <1>1, EnumFacts
<1>3. \A l \in L : \E i \in DOMAIN s : s[i] = l
  BY <1>2 DEF Enumerates
<1>4. \A i, j \in DOMAIN s : i < j <=> s[i] < s[j]
  BY <1>1, <1>2
<1>5. L = {} <=> Len(s) = 0
  <2>1. Len(s) = 0 => L = {}
    BY <1>2, <1>3
  <2>2. Len(s) # 0 => s[1] \in L
    BY <1>2
  <2> QED BY <2>1, <2>2
<1> QED BY <1>1, <1>2, <1>3, <1>4, <1>5

\* n levels are lower than p: the n-th is the one right below it.
LEMMA BelowAt ==
  ASSUME NEW s, NEW L, Enumerates(s, L, Price), L \subseteq Prices,
         NEW p \in Nat, NEW n \in 0 .. Len(s), \A i \in DOMAIN s : i <= n <=> s[i] < p,
         NEW a, Below(L, p, a)
  PROVE  a = IF n = 0 THEN Nil ELSE s[n]
<1>1. /\ Len(s) \in Nat /\ DOMAIN s = 1 .. Len(s)
      /\ \A i \in DOMAIN s : s[i] \in L /\ s[i] \in Nat /\ s[i] # Nil
      /\ \A i, j \in DOMAIN s : i < j <=> s[i] < s[j]
      /\ \A l \in L : \E i \in DOMAIN s : s[i] = l
  BY ListFacts
<1>2. CASE n = 0
  <2> SUFFICES ASSUME a # Nil PROVE FALSE
    BY <1>2
  <2>1. a \in L /\ a < p
    BY DEF Below
  <2>2. PICK i \in DOMAIN s : s[i] = a
    BY <1>1, <2>1
  <2>3. i <= n
    BY <2>1, <2>2
  <2> QED BY <1>1, <1>2, <2>3
<1>3. CASE n # 0
  <2>1. n \in DOMAIN s /\ s[n] \in L /\ s[n] \in Nat /\ s[n] < p /\ ~ (p <= s[n])
    <3>1. n \in DOMAIN s /\ n <= n
      BY <1>1, <1>3
    <3>2. s[n] < p /\ s[n] \in Nat
      BY <1>1, <3>1
    <3> QED BY <1>1, <3>1, <3>2
  <2>2. a # Nil
    BY <2>1 DEF Below
  <2>3. a \in L /\ a < p /\ s[n] <= a
    BY <2>1, <2>2 DEF Below
  <2>4. PICK k \in DOMAIN s : s[k] = a
    BY <1>1, <2>3
  <2>5. k <= n
    BY <2>3, <2>4
  <2>6. ~ (k < n)
    BY <1>1, <2>1, <2>3, <2>4
  <2>7. k = n
    BY <1>1, <2>5, <2>6
  <2> QED BY <1>3, <2>4, <2>7
<1> QED BY <1>2, <1>3

\* n levels are not higher than p: the next is the one right above it.
LEMMA AboveAt ==
  ASSUME NEW s, NEW L, Enumerates(s, L, Price), L \subseteq Prices,
         NEW p \in Nat, NEW n \in 0 .. Len(s), \A i \in DOMAIN s : n < i <=> p < s[i],
         NEW b, Above(L, p, b)
  PROVE  b = IF n = Len(s) THEN Nil ELSE s[n + 1]
<1>1. /\ Len(s) \in Nat /\ DOMAIN s = 1 .. Len(s)
      /\ \A i \in DOMAIN s : s[i] \in L /\ s[i] \in Nat /\ s[i] # Nil
      /\ \A i, j \in DOMAIN s : i < j <=> s[i] < s[j]
      /\ \A l \in L : \E i \in DOMAIN s : s[i] = l
  BY ListFacts
<1>2. CASE n = Len(s)
  <2> SUFFICES ASSUME b # Nil PROVE FALSE
    BY <1>2
  <2>1. b \in L /\ p < b
    BY DEF Above
  <2>2. PICK i \in DOMAIN s : s[i] = b
    BY <1>1, <2>1
  <2>3. n < i
    BY <2>1, <2>2
  <2> QED BY <1>1, <1>2, <2>3
<1>3. CASE n # Len(s)
  <2>1. /\ n + 1 \in DOMAIN s /\ s[n + 1] \in L /\ s[n + 1] \in Nat
        /\ p < s[n + 1] /\ ~ (s[n + 1] <= p)
    <3>1. n + 1 \in DOMAIN s /\ n < n + 1
      <4>1. n \in Nat /\ n <= Len(s)
        BY <1>1
      <4>2. n < Len(s)
        <5>1. PICK m \in Nat : m = Len(s)
          BY <1>1
        <5>2. n < m
          BY <1>3, <4>1, <5>1
        <5> QED BY <5>1, <5>2
      <4>3. n + 1 \in 1 .. Len(s)
        BY <1>1, <4>1, <4>2
      <4> QED BY <1>1, <4>1, <4>3
    <3>2. p < s[n + 1] /\ s[n + 1] \in Nat
      BY <1>1, <3>1
    <3> QED BY <1>1, <3>1, <3>2
  <2>2. b # Nil
    BY <2>1 DEF Above
  <2>3. b \in L /\ p < b /\ b <= s[n + 1]
    BY <2>1, <2>2 DEF Above
  <2>4. PICK k \in DOMAIN s : s[k] = b
    BY <1>1, <2>3
  <2>5. n < k
    BY <2>3, <2>4
  <2>6. ~ (n + 1 < k)
    BY <1>1, <2>1, <2>3, <2>4
  <2>7. k = n + 1
    BY <1>1, <2>5, <2>6
  <2> QED BY <1>3, <2>4, <2>7
<1> QED BY <1>2, <1>3

LEMMA InvThreads == IInv => ThreadsExact
<1> SUFFICES ASSUME IInv PROVE ThreadsExact
  OBVIOUS
<1>1. PICK L, sub, bh, hd : Sound(L, sub, bh, hd)
  BY DEF IInv, Linked
<1>2. TreeOK(t, L, sub) /\ ThreadsOK(L, type, pred, succ, best)
  BY <1>1 DEF Sound
<1>3. PICK s : s = Ladder
  OBVIOUS
<1>4. Enumerates(s, L, Price) /\ L \subseteq Prices
  BY <1>2, <1>3, LadderIs
<1>5. /\ Len(s) \in Nat /\ DOMAIN s = 1 .. Len(s)
      /\ \A i \in DOMAIN s : s[i] \in L /\ s[i] \in Nat /\ s[i] # Nil
      /\ \A i, j \in DOMAIN s : i < j <=> s[i] < s[j]
      /\ \A l \in L : \E i \in DOMAIN s : s[i] = l
      /\ L = {} <=> Len(s) = 0
  BY <1>4, ListFacts
<1> DEFINE AtOr(i) == IF i \in DOMAIN s THEN s[i] ELSE Nil
<1>6. ASSUME NEW i \in DOMAIN s
      PROVE  pred[s[i]] = AtOr(i - 1) /\ succ[s[i]] = AtOr(i + 1)
  <2>1. Below(L, s[i], pred[s[i]]) /\ Above(L, s[i], succ[s[i]])
    BY <1>2, <1>5 DEF ThreadsOK
  <2>2. i - 1 \in 0 .. Len(s) /\ i \in 0 .. Len(s) /\ s[i] \in Nat
    BY <1>5
  <2>3. \A j \in DOMAIN s : j <= i - 1 <=> s[j] < s[i]
    <3> TAKE j \in DOMAIN s
    <3>1. j \in Nat /\ i \in Nat /\ (j < i <=> s[j] < s[i])
      BY <1>5
    <3> QED BY <3>1
  <2>4. \A j \in DOMAIN s : i < j <=> s[i] < s[j]
    BY <1>5
  <2>5. pred[s[i]] = IF i - 1 = 0 THEN Nil ELSE s[i - 1]
    BY <1>4, <2>1, <2>2, <2>3, BelowAt
  <2>6. succ[s[i]] = IF i = Len(s) THEN Nil ELSE s[i + 1]
    BY <1>4, <2>1, <2>2, <2>4, AboveAt
  <2>7. (i - 1 \in DOMAIN s <=> i - 1 # 0) /\ (i + 1 \in DOMAIN s <=> i # Len(s))
    BY <1>5
  <2> QED BY <2>5, <2>6, <2>7
<1>7. best = AtOr(IF Bid THEN Len(s) ELSE 1)
  <2>1. CASE L = {}
    <3>1. best = Nil /\ DOMAIN s = {}
      BY <1>2, <1>5, <2>1 DEF ThreadsOK
    <3> QED BY <3>1
  <2>2. CASE L # {}
    <3>1. /\ best \in L /\ type \in {"BID", "ASK"}
          /\ \A m \in L : IF type = "BID" THEN m <= best ELSE best <= m
      BY <1>2, <2>2 DEF ThreadsOK
    <3>2. PICK k \in DOMAIN s : s[k] = best
      BY <1>5, <3>1
    <3>3. 1 \in DOMAIN s /\ Len(s) \in DOMAIN s
      BY <1>5, <2>2
    <3>4. CASE Bid
      <4>1. s[Len(s)] <= s[k] /\ s[k] \in Nat /\ s[Len(s)] \in Nat
        BY <1>5, <3>1, <3>2, <3>3, <3>4 DEF Bid
      <4>2. ~ (k < Len(s))
        BY <1>5, <3>3, <4>1
      <4>3. k = Len(s)
        BY <1>5, <4>2
      <4> QED BY <3>2, <3>3, <3>4, <4>3
    <3>5. CASE ~ Bid
      <4>1. s[k] <= s[1] /\ s[k] \in Nat /\ s[1] \in Nat
        BY <1>5, <3>1, <3>2, <3>3, <3>5 DEF Bid
      <4>2. ~ (1 < k)
        BY <1>5, <3>3, <4>1
      <4>3. k = 1
        BY <1>5, <4>2
      <4> QED BY <3>2, <3>3, <3>5, <4>3
    <3> QED BY <3>4, <3>5
  <2> QED BY <2>1, <2>2
<1> QED BY <1>3, <1>6, <1>7 DEF ThreadsExact

\* At every moment, even while colours are being restored, the threads give the
\* levels in the order of the tree, and best is its end: matching and clear()
\* follow the threads of narb_tree.h and never the tree.
THEOREM ThreadsFollowTree == Spec => []ThreadsExact
  BY Invariant, InvThreads, PTL

-----------------------------------------------------------------------------
(* Where a price belongs.                                                  *)

\* The place of p among the levels of L is the one the list gives it.
LEMMA PlaceIs ==
  ASSUME NEW s, NEW L, Enumerates(s, L, Price), L \subseteq Prices,
         NEW p \in Prices, NEW g, IsPlace(L, p, g)
  PROVE  g = Place(s, p) /\ Place(s, p).existing = (IF p \in L THEN p ELSE Nil)
<1>1. /\ Len(s) \in Nat /\ DOMAIN s = 1 .. Len(s)
      /\ \A i \in DOMAIN s : s[i] \in L /\ s[i] \in Nat /\ s[i] # Nil
      /\ \A i, j \in DOMAIN s : i < j <=> s[i] < s[j]
      /\ \A l \in L : \E i \in DOMAIN s : s[i] = l
      /\ \A l \in L : l \in Nat /\ Price[l] = l /\ Price[l] \in Int
  BY ListFacts
<1>2. p \in Nat /\ p \in Int
  BY PriceFacts
<1>3. PICK k \in 0 .. Len(s) : \A i \in DOMAIN s : i <= k <=> s[i] < p
  <2>1. PICK k \in 0 .. Len(s) : \A i \in DOMAIN s : i <= k <=> Price[s[i]] < p
    BY <1>1, <1>2, EnumCut
  <2>2. \A i \in DOMAIN s : i <= k <=> s[i] < p
    BY <1>1, <2>1
  <2> QED BY <2>2
<1>4. Cardinality({i \in DOMAIN s : s[i] < p}) = k
  <2>1. {i \in DOMAIN s : s[i] < p} = 1 .. k
    BY <1>1, <1>3
  <2>2. 1 \in Int /\ k \in Int /\ k \in Nat
    BY <1>1, <1>3
  <2>3. Cardinality(1 .. k) = IF 1 > k THEN 0 ELSE k - 1 + 1
    BY <2>2, FS_Interval
  <2>4. Cardinality(1 .. k) = k
    BY <2>2, <2>3
  <2> QED BY <2>1, <2>4
<1>5. Place(s, p) = IF k < Len(s) /\ s[k + 1] = p THEN At(p)
                    ELSE Gap(IF k = 0 THEN Nil ELSE s[k],
                             IF k = Len(s) THEN Nil ELSE s[k + 1])
  BY <1>4 DEF Place
<1>6. CASE p \in L
  <2>1. PICK j \in DOMAIN s : s[j] = p
    BY <1>1, <1>6
  <2>2. ~ (j <= k)
    BY <1>2, <1>3, <2>1
  <2>3. ~ (k + 1 < j)
    <3> SUFFICES ASSUME k + 1 < j PROVE FALSE
      OBVIOUS
    <3>1. k + 1 \in DOMAIN s /\ ~ (k + 1 <= k)
      BY <1>1, <1>3
    <3>2. s[k + 1] < p
      BY <1>1, <2>1, <3>1
    <3> QED BY <1>3, <3>1, <3>2
  <2>4. j = k + 1 /\ k < Len(s)
    BY <1>1, <1>3, <2>2, <2>3
  <2>5. Place(s, p) = At(p)
    BY <1>5, <2>1, <2>4
  <2> QED BY <1>6, <2>5 DEF IsPlace, At
<1>7. CASE p \notin L
  <2>1. /\ g = Gap(g.pred, g.succ) /\ g.existing = Nil
        /\ Below(L, p, g.pred) /\ Above(L, p, g.succ)
    BY <1>7 DEF IsPlace
  <2>2. \A i \in DOMAIN s : k < i <=> p < s[i]
    <3> TAKE i \in DOMAIN s
    <3>1. i \in Nat /\ s[i] \in Nat /\ s[i] # p /\ (i <= k <=> s[i] < p) /\ k \in Nat
      BY <1>1, <1>3, <1>7
    <3> QED BY <1>2, <3>1
  <2>3. g.pred = IF k = 0 THEN Nil ELSE s[k]
    BY <1>2, <1>3, <2>1, BelowAt
  <2>4. g.succ = IF k = Len(s) THEN Nil ELSE s[k + 1]
    BY <1>2, <2>1, <2>2, AboveAt
  <2>5. ~ (k < Len(s) /\ s[k + 1] = p)
    <3>1. k < Len(s) => k + 1 \in DOMAIN s
      BY <1>1, <1>3
    <3> QED BY <1>1, <1>7, <3>1
  <2>6. Place(s, p) = Gap(g.pred, g.succ)
    BY <1>5, <2>3, <2>4, <2>5
  <2> QED BY <1>7, <2>1, <2>6
<1> QED BY <1>6, <1>7

LEMMA InvRoutes == IInv => RouteExact
<1> SUFFICES ASSUME IInv PROVE RouteExact
  OBVIOUS
<1>1. PICK L, sub, bh, hd : Sound(L, sub, bh, hd)
  BY DEF IInv, Linked
<1>2. TreeOK(t, L, sub) /\ ThreadsOK(L, type, pred, succ, best)
  BY <1>1 DEF Sound
<1>3. Enumerates(Ladder, L, Price) /\ Levels = L /\ L \subseteq Prices
  BY <1>2, LadderIs
<1>4. ASSUME NEW p \in Prices
      PROVE  /\ Route(p) = Place(Ladder, p) /\ FindNeighbors(p) = Place(Ladder, p)
             /\ FindNode(p) = Place(Ladder, p).existing
  <2>1. IsPlace(L, p, Route(p)) /\ IsPlace(L, p, FindNeighbors(p))
    BY <1>2, RouteFound, NeighborsFound
  <2>2. FindNode(p) = IF p \in L THEN p ELSE Nil
    BY <1>2, NodeFound
  <2>3. /\ Route(p) = Place(Ladder, p)
        /\ Place(Ladder, p).existing = (IF p \in L THEN p ELSE Nil)
    BY <1>3, <2>1, PlaceIs
  <2>4. FindNeighbors(p) = Place(Ladder, p)
    BY <1>3, <2>1, PlaceIs
  <2> QED BY <2>2, <2>3, <2>4
<1>5. ASSUME NEW p \in Prices \ Levels
      PROVE  \/ t.root = Nil
             \/ Route(p).pred # Nil /\ t.kid["right"][Route(p).pred] = Nil
             \/ Route(p).succ # Nil /\ t.kid["left"][Route(p).succ] = Nil
  <2>1. CASE L = {}
    BY <1>2, <2>1 DEF TreeOK
  <2>2. CASE L # {}
    <3>1. PICK a, b : a = Route(p).pred /\ b = Route(p).succ
      OBVIOUS
    <3>2. p \in Prices \ L /\ IsPlace(L, p, Route(p))
      BY <1>2, <1>3, RouteFound
    <3>3. a \in Maybe /\ b \in Maybe /\ Below(L, p, a) /\ Above(L, p, b)
      BY <3>1, <3>2 DEF IsPlace
    <3>4. ~ (a # Nil /\ t.kid["right"][a] = Nil) =>
            b # Nil /\ CanHang(t, L, sub, p, b, "left")
      BY <1>2, <2>2, <3>2, <3>3, PlaceFree
    <3> QED BY <3>1, <3>4 DEF CanHang
  <2> QED BY <2>1, <2>2
<1>6. SearchExact
  BY <1>4 DEF SearchExact
<1>7. PositionFree
  BY <1>5 DEF PositionFree
<1> QED BY <1>6, <1>7 DEF RouteExact

\* Between two calls every price is led to the level it has or to a free
\* position between its neighbours, whether insert takes the shortcut over the
\* top of the book or the search from the root, and find_node finds the level.
THEOREM EveryRouteExact == Spec => []RouteExact
  BY Invariant, InvRoutes, PTL

-----------------------------------------------------------------------------
(* The tree keeps the abstract list of prices.                             *)

LEMMA InitLadder == Init => AbstractLadder!Init
<1> SUFFICES ASSUME Init PROVE Ladder = <<>>
  BY DEF AbstractLadder!Init
<1>1. Linked({})
  BY InitSound
<1>2. PICK sub, bh, hd : Sound({}, sub, bh, hd)
  BY <1>1 DEF Linked
<1>3. TreeOK(t, {}, sub)
  BY <1>2 DEF Sound
<1>4. t.root = Nil
  BY <1>3 DEF TreeOK
<1> QED BY <1>3, <1>4, InOrderStep DEF Ladder

\* A level more or less in the set is one more or less in the list.
LEMMA LadderGains ==
  ASSUME NEW s, NEW L, Enumerates(s, L, Price), L \subseteq Prices,
         NEW p \in Prices \ L, NEW u, Enumerates(u, L \union {p}, Price)
  PROVE  u \in AbstractLadder!Additions[s]
<1>1. /\ \A y \in L \union {p} : Price[y] = y /\ Price[y] \in Int
      /\ \A y, z \in L \union {p} : Price[y] = Price[z] => y = z
  BY PriceRank
<1>2. PICK k \in 0 .. Len(s) : /\ \A i \in DOMAIN s : i <= k <=> Price[s[i]] < Price[p]
                               /\ u = InsertAt(s, k + 1, p)
  BY <1>1, EnumMore
<1>3. /\ DOMAIN s = 1 .. Len(s) /\ \A i \in DOMAIN s : s[i] \in L
      /\ \A l \in L : Price[l] = l
  BY ListFacts
<1>4. \A i \in DOMAIN s : i <= k <=> s[i] < p
  BY <1>1, <1>2, <1>3
<1>5. u \in AbstractLadder!With(s, p)
  <2>1. u = AbstractLadder!InsertAt(s, k + 1, p)
    BY <1>2 DEF InsertAt, AbstractLadder!InsertAt
  <2> QED BY <1>4, <2>1 DEF AbstractLadder!With
<1>6. p \in Prices \ AbstractLadder!Range(s)
  BY <1>3 DEF AbstractLadder!Range
<1>7. s \in Seq(Prices)
  BY DEF Enumerates
<1> QED BY <1>5, <1>6, <1>7 DEF AbstractLadder!Additions

LEMMA LadderLoses ==
  ASSUME NEW s, NEW L, Enumerates(s, L, Price), L \subseteq Prices,
         NEW z \in L, NEW u, Enumerates(u, L \ {z}, Price)
  PROVE  u \in AbstractLadder!Removals[s]
<1>1. /\ \A y \in L : Price[y] = y /\ Price[y] \in Int
      /\ \A y, q \in L : Price[y] = Price[q] => y = q
  BY PriceRank
<1>2. PICK i \in DOMAIN s : u = RemoveAt(s, i)
  BY <1>1, EnumLess
<1>3. u = AbstractLadder!RemoveAt(s, i)
  BY <1>2 DEF RemoveAt, AbstractLadder!RemoveAt
<1>4. s \in Seq(Prices)
  BY DEF Enumerates
<1> QED BY <1>3, <1>4 DEF AbstractLadder!Removals

LEMMA StepLadder == IInv /\ [Next]_vars => [AbstractLadder!Next]_Ladder
<1> SUFFICES ASSUME IInv, [Next]_vars
             PROVE  [AbstractLadder!Next]_Ladder
  OBVIOUS
<1>1. PICK L : Linked(L)
  BY DEF IInv
<1>2. PICK K : Linked(K)' /\ LevelsStep(L, K)
  BY <1>1, StepKeeps
<1>3. PICK s, u : s = Ladder /\ u = Ladder'
  OBVIOUS
<1>4. Enumerates(s, L, Price) /\ L \subseteq Prices
  BY <1>1, <1>3, LinkedLevels
<1>5. Enumerates(u, K, Price)
  BY <1>2, <1>3, LinkedLevelsNext
<1>6. CASE \E p \in Prices \ L : K = L \union {p}
  <2>1. u \in AbstractLadder!Additions[s]
    BY <1>4, <1>5, <1>6, LadderGains
  <2> QED BY <1>3, <2>1 DEF AbstractLadder!Next, AbstractLadder!Add
<1>7. CASE \E z \in L : K = L \ {z}
  <2>1. u \in AbstractLadder!Removals[s]
    BY <1>4, <1>5, <1>7, LadderLoses
  <2> QED BY <1>3, <2>1 DEF AbstractLadder!Next, AbstractLadder!Drop
<1>8. CASE K = L
  <2>1. /\ \A y \in L : Price[y] = y /\ Price[y] \in Int
        /\ \A y, z \in L : Price[y] = Price[z] => y = z
    BY <1>4, PriceRank
  <2>2. u = s
    BY <1>4, <1>5, <1>8, <2>1, EnumUnique
  <2> QED BY <1>3, <2>2
<1>9. CASE K = {}
  <2>1. Len(u) = 0 /\ u \in Seq(Prices)
    <3>1. Enumerates(u, {}, Price) /\ {} \subseteq Prices
      BY <1>5, <1>9
    <3>2. Len(u) = 0
      BY <3>1, ListFacts
    <3> QED BY <3>1, <3>2 DEF Enumerates
  <2>2. u = <<>>
    BY <2>1, EmptySeq
  <2> QED BY <1>3, <2>2 DEF AbstractLadder!Next, AbstractLadder!Clear
<1> QED BY <1>2, <1>6, <1>7, <1>8, <1>9 DEF LevelsStep

\* An insertion puts exactly its price into the ordered list of prices, in its
\* place, an erasure takes exactly its own out, clear() takes all, and no pass
\* that restores colours changes the list: the red-black tree of narb_tree.h
\* implements the abstract side of the book.
THEOREM TreeKeepsLadder == Spec => LadderRefined
<1>1. Init => AbstractLadder!Init
  BY InitLadder
<1>2. IInv /\ [Next]_vars => [AbstractLadder!Next]_Ladder
  BY StepLadder
<1> QED BY <1>1, <1>2, Invariant, PTL DEF Spec, LadderRefined, AbstractLadder!Spec

-----------------------------------------------------------------------------
(* The loops climb.                                                        *)

\* The levels that a level is under, itself among them.
Line(L, sub, l) == {m \in L : l \in sub[m]}

LEMMA LineFacts ==
  ASSUME NEW tr, NEW L, NEW sub, TreeOK(tr, L, sub), NEW l \in L
  PROVE  /\ Cardinality(Line(L, sub, l)) \in Nat \ {0}
         /\ l = tr.root => Cardinality(Line(L, sub, l)) = 1
         /\ l # tr.root => Cardinality(Line(L, sub, l))
                             = Cardinality(Line(L, sub, tr.parent[l])) + 1
<1>1. /\ IsFiniteSet(L) /\ L \subseteq Prices /\ \A m \in L : m \in sub[m] /\ sub[m] \subseteq L
  BY SubFacts DEF TreeOK
<1>2. \A k \in L : IsFiniteSet(Line(L, sub, k)) /\ Cardinality(Line(L, sub, k)) \in Nat
  <2> TAKE k \in L
  <2>1. Line(L, sub, k) \subseteq L
    BY DEF Line
  <2>2. IsFiniteSet(Line(L, sub, k))
    BY <1>1, <2>1, FS_Subset
  <2> QED BY <2>2, FS_CardinalityType
<1>3. CASE l = tr.root
  <2>1. Line(L, sub, l) = {l}
    <3>1. /\ sub[tr.root] = L
          /\ \A m \in sub[l] : l \in sub[m] => m = l
      BY SubFacts
    <3> QED BY <1>1, <1>3, <3>1 DEF Line
  <2>2. Cardinality({l}) = 1
    BY FS_Singleton
  <2> QED BY <1>3, <2>1, <2>2
<1>4. CASE l # tr.root
  <2>1. PICK q : q = tr.parent[l] /\ q \in L /\ \E d \in Sides : tr.kid[d][q] = l
    BY <1>4, ParentFacts
  <2>2. l \in sub[q] /\ q \notin sub[l]
    <3>1. PICK d \in Sides : tr.kid[d][q] = l
      BY <2>1
    <3>2. l # Nil
      BY <1>1, PriceFacts
    <3>3. /\ q \notin Under(sub, tr.kid[d][q])
          /\ sub[q] = {q} \union Under(sub, tr.kid[d][q])
                          \union Under(sub, tr.kid[Other(d)][q])
      BY <2>1, KidFacts
    <3> QED BY <1>1, <3>1, <3>2, <3>3 DEF Under
  <2>3. Line(L, sub, l) = Line(L, sub, q) \union {l}
    <3>1. \A m \in L : q \in sub[m] => l \in sub[m]
      BY <2>1, <2>2, SubFacts
    <3>2. \A m \in L : l \in sub[m] => m = l \/ q \in sub[m]
      BY <2>1, UpFacts
    <3> QED BY <1>1, <3>1, <3>2 DEF Line
  <2>4. l \notin Line(L, sub, q)
    BY <2>2 DEF Line
  <2>5. Cardinality(Line(L, sub, q) \union {l}) = Cardinality(Line(L, sub, q)) + 1
    BY <1>2, <2>1, <2>4, FS_AddElement
  <2> QED BY <1>2, <1>4, <2>1, <2>3, <2>5
<1> QED BY <1>2, <1>3, <1>4

\* The depth of a level is that of its parent and one more.
LEMMA DepthIs ==
  ASSUME NEW L, NEW sub, TreeOK(t, L, sub)
  PROVE  \A l \in L : Depth[l] \in Nat /\ (l # t.root => Depth[l] = 1 + Depth[t.parent[l]])
<1> DEFINE Is(h) == h = [l \in Maybe |->
                           IF l = Nil \/ l = t.root THEN 0 ELSE 1 + h[t.parent[l]]]
           f == [l \in Maybe |-> IF l = Nil THEN 0
                                 ELSE IF l \in L THEN Cardinality(Line(L, sub, l)) - 1
                                 ELSE 1]
<1>1. /\ L \subseteq Prices /\ Nil \notin Prices /\ Nil \in Maybe
      /\ \A l \in Prices : l \in Maybe /\ t.parent[l] \in Maybe
      /\ \A l \in Prices \ L : t.parent[l] = Nil /\ l # t.root
      /\ t.root \in L \union {Nil}
  BY TreeFields, PriceFacts DEF TreeOK, Maybe
<1>2. \A l \in L : /\ Cardinality(Line(L, sub, l)) \in Nat \ {0}
                   /\ l = t.root => Cardinality(Line(L, sub, l)) = 1
                   /\ l # t.root => /\ t.parent[l] \in L
                                    /\ Cardinality(Line(L, sub, l))
                                         = Cardinality(Line(L, sub, t.parent[l])) + 1
  BY LineFacts, ParentFacts
<1>3. /\ f \in [Maybe -> Nat] /\ f[Nil] = 0
      /\ \A l \in L : f[l] = Cardinality(Line(L, sub, l)) - 1
      /\ \A l \in Prices \ L : f[l] = 1
  BY <1>1, <1>2 DEF Maybe
<1> HIDE DEF f
<1>4. \A l \in L : /\ l = t.root => f[l] = 0
                   /\ l # t.root => t.parent[l] \in L /\ f[l] = 1 + f[t.parent[l]]
  BY <1>2, <1>3
<1>5. Is(f)
  <2>1. \A l \in Maybe : f[l] = IF l = Nil \/ l = t.root THEN 0 ELSE 1 + f[t.parent[l]]
    BY <1>1, <1>3, <1>4 DEF Maybe
  <2> QED BY <1>3, <2>1
<1>6. Depth = CHOOSE h : Is(h)
  BY DEF Depth
<1>7. Is(Depth)
  <2> HIDE DEF Is
  <2> QED BY <1>5, <1>6
<1>8. \A l \in L : Depth[l] = IF l = t.root THEN 0 ELSE 1 + Depth[t.parent[l]]
  BY <1>1, <1>7
<1> HIDE DEF Is
<1> DEFINE Off == {n \in Nat : \E l \in L : f[l] = n /\ Depth[l] # f[l]}
<1>9. \A l \in L : Depth[l] = f[l]
  <2> SUFFICES ASSUME NEW l \in L, Depth[l] # f[l] PROVE FALSE
    OBVIOUS
  <2>1. f[l] \in Off
    BY <1>1, <1>3
  <2>2. PICK n \in Off : \A m \in Off : n <= m
    <3>1. Off \in SUBSET Nat /\ Off # {}
      BY <2>1
    <3> HIDE DEF Off
    <3> QED BY <3>1, Least
  <2>3. PICK k \in L : f[k] = n /\ Depth[k] # f[k] /\ n \in Nat
    BY <2>2
  <2>4. k # t.root
    BY <1>4, <1>8, <2>3
  <2>5. t.parent[k] \in L /\ f[k] = 1 + f[t.parent[k]] /\ f[t.parent[k]] \in Nat
    BY <1>1, <1>3, <1>4, <2>4
  <2>6. Depth[t.parent[k]] # f[t.parent[k]]
    BY <1>8, <2>3, <2>4, <2>5
  <2>7. f[t.parent[k]] \in Off
    BY <2>5, <2>6
  <2>8. n <= f[t.parent[k]]
    BY <2>2, <2>7
  <2> QED BY <2>3, <2>5, <2>8
<1> QED BY <1>1, <1>3, <1>8, <1>9

\* Paint moves no level.
LEMMA DepthKept ==
  ASSUME t'.root = t.root, t'.parent = t.parent
  PROVE  Depth' = Depth
BY DEF Depth

LEMMA StepClimbs ==
  IInv /\ [Next]_vars => [pc # "idle" /\ pc' = pc => Height' < Height]_vars
<1> SUFFICES ASSUME IInv, Next, pc # "idle", pc' = pc
             PROVE  Height' < Height
  OBVIOUS
<1>1. PICK L, sub, bh, hd : Sound(L, sub, bh, hd)
  BY DEF IInv, Linked
<1>2. Shape(t, L, sub, bh, hd, pc, x, xp) /\ TreeOK(t, L, sub) /\ Linked(L) /\ Nil \notin L
  BY <1>1, SoundIs, PriceFacts DEF Linked
<1>3. \A l \in L : Depth[l] \in Nat /\ (l # t.root => Depth[l] = 1 + Depth[t.parent[l]])
  BY <1>2, DepthIs
<1>4. InsertRebalance \/ DeleteFixup
  BY DEF Next, Insert, InsertDone, EraseLevel, DeleteDone, Clear
<1>5. CASE InsertRebalance
  <2>1. pc = "inserting" /\ RedRed /\ InsertPass
    BY <1>2, <1>5, InsertRebalanceKeeps DEF InsertRebalance
  <2>2. PICK p, g : p = t.parent[x] /\ g = t.parent[p]
    OBVIOUS
  <2>3. xp = Nil
    BY <1>2, <2>1 DEF Shape, ColorsOK
  <2>4. x \in L /\ p \in L /\ g \in L /\ x # t.root /\ p # t.root
    <3>1. Shape(t, L, sub, bh, hd, "inserting", x, Nil)
      BY <1>2, <2>1, <2>3
    <3>2. x # t.root /\ t.color[t.parent[x]] = "red"
      BY <2>1 DEF RedRed
    <3>3. RedRedAt(t, L, x, p, g, SideOf(t, p), Other(SideOf(t, p)))
      BY <2>2, <3>1, <3>2, RedPair
    <3> QED BY <3>2, <3>3 DEF RedRedAt
  <2>5. /\ Depth[g] \in Nat /\ Depth[x] = 2 + Depth[g] /\ Height = 1 + Depth[x]
    BY <1>3, <2>1, <2>2, <2>4 DEF Height
  <2>6. CASE ~ RedRed'
    <3>1. Height' = 0
      BY <1>5, <2>1, <2>6 DEF Height, InsertRebalance
    <3> QED BY <2>5, <3>1
  <2>7. CASE RedRed'
    <3>1. Depth' = Depth /\ x' = g
      BY <2>1, <2>2, <2>7, DepthKept DEF InsertPass
    <3>2. Height' = 1 + Depth[g]
      BY <1>5, <2>1, <2>7, <3>1 DEF Height, InsertRebalance
    <3> QED BY <2>5, <3>2
  <2> QED BY <2>6, <2>7
<1>6. CASE DeleteFixup
  <2>1. pc = "erasing" /\ Fixing /\ ErasePass
    BY <1>2, <1>6, DeleteFixupKeeps DEF DeleteFixup
  <2>2. xp \in L /\ xp # Nil /\ (x # Nil => x \in L /\ x # t.root /\ t.parent[x] = xp)
    <3>1. x # t.root
      BY <2>1 DEF Fixing
    <3>2. xp \in L /\ hd \in Sides /\ t.kid[hd][xp] = x
      BY <1>2, <2>1, <3>1 DEF Shape, ColorsOK
    <3>3. t.kid[hd][xp] # Nil => t.kid[hd][xp] \in L /\ t.parent[t.kid[hd][xp]] = xp
      BY <1>2, <3>2, KidFacts
    <3> QED BY <1>2, <3>1, <3>2, <3>3
  <2>3. Depth[xp] \in Nat /\ Height = 2 + Depth[xp]
    BY <1>3, <2>1, <2>2 DEF Height
  <2>4. CASE ~ Fixing'
    <3>1. Height' = 0
      BY <1>6, <2>1, <2>4 DEF Height, DeleteFixup
    <3> QED BY <2>3, <3>1
  <2>5. CASE Fixing'
    <3>1. Depth' = Depth /\ x' = xp
      BY <2>1, <2>5, DepthKept DEF ErasePass
    <3>2. Height' = 1 + Depth[xp]
      BY <1>6, <2>1, <2>2, <2>5, <3>1 DEF Height, DeleteFixup
    <3> QED BY <2>3, <3>2
  <2> QED BY <2>4, <2>5
<1> QED BY <1>4, <1>5, <1>6

\* Both loops that restore colours end: a pass that is not the last brings its
\* level nearer to the root, and a pass that rotates is the last.
THEOREM LoopsClimb == Spec => Climbs
<1>1. IInv /\ [Next]_vars => [pc # "idle" /\ pc' = pc => Height' < Height]_vars
  BY StepClimbs
<1> QED BY <1>1, Invariant, PTL DEF Spec, Climbs
=============================================================================
