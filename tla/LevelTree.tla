----------------------------- MODULE LevelTree -----------------------------
(***************************************************************************)
(* The tree side of narb_tree.h: a red-black tree of the price levels of   *)
(* one side of the book, with the levels also threaded in price order and  *)
(* a pointer to the best of them.  insert finds the place of a new level   *)
(* from the best level and its neighbour when it can and from the root     *)
(* otherwise; erase_level unthreads a level and deletes it from the tree.  *)
(* The loops that restore the colours are unrolled, one step per pass; a   *)
(* pass that would follow a null pointer is not enabled.                   *)
(*                                                                         *)
(* A level is named by its price.  The orders in a level are those of      *)
(* OrderChain: here an order at a price that has a level changes nothing,  *)
(* and any level may at any time lose its last order.  The fields of an    *)
(* erased level are cleared at once, and not when make_level takes its     *)
(* descriptor from the pool again: nothing reads them in between.          *)
(***************************************************************************)
EXTENDS Integers, Sequences, FiniteSets

CONSTANT Prices

ASSUME TreeAssumption == Prices \subseteq Nat \ {0}

VARIABLES
  type,         \* the template's parameter: "BID", a higher price is better, or "ASK"
  t,            \* the tree: its root, each level's children, parent and colour
  pred, succ,   \* the neighbours in price order
  best,
  pc,           \* "idle", or the colours being restored: "inserting", "erasing"
  x, xp         \* the loop's level, and its parent when erasing

vars == <<type, t, pred, succ, best, pc, x, xp>>

Nil == 0
Sides == {"left", "right"}
Colors == {"red", "black"}
Maybe == Prices \union {Nil}

Unthreaded == [l \in Prices |-> Nil]
EmptyTree == [root |-> Nil, kid |-> [d \in Sides |-> Unthreaded],
              parent |-> Unthreaded, color |-> [l \in Prices |-> "black"]]

Init ==
  /\ type \in {"BID", "ASK"}
  /\ t = EmptyTree
  /\ pred = Unthreaded /\ succ = Unthreaded
  /\ best = Nil
  /\ pc = "idle"
  /\ x = Nil /\ xp = Nil

-----------------------------------------------------------------------------
(* Operations on a tree                                                    *)

Other(d) == IF d = "left" THEN "right" ELSE "left"
SideOf(tr, l) == IF tr.kid["left"][tr.parent[l]] = l THEN "left" ELSE "right"
ColorOf(tr, l) == IF l = Nil THEN "black" ELSE tr.color[l]
Painted(tr, l, c) == IF l = Nil THEN tr ELSE [tr EXCEPT !.color[l] = c]

Attached(tr, p, d, l) ==
  LET hung == [tr EXCEPT !.kid[d][p] = l]
  IN  IF l = Nil THEN hung ELSE [hung EXCEPT !.parent[l] = p]

MutTransplant(tr, u, v) ==
  LET p == tr.parent[u]
  IN  IF p = Nil THEN [tr EXCEPT !.root = v]
      ELSE [tr EXCEPT !.kid[SideOf(tr, u)][p] = v]
\* v, which may be absent, takes the place of u under u's parent.
Transplant(tr, u, v) ==
  LET p == tr.parent[u]
      hung == IF p = Nil THEN [tr EXCEPT !.root = v]
              ELSE [tr EXCEPT !.kid[SideOf(tr, u)][p] = v]
  IN  IF v = Nil THEN hung ELSE [hung EXCEPT !.parent[v] = p]

\* l descends to side d; its child on the other side takes its place.
MutRotate(tr, l, d) ==
  LET pivot == tr.kid[Other(d)][l]
  IN  Attached(Attached(Transplant(tr, l, pivot), l, Other(d), Nil), pivot, d, l)
Rotate(tr, l, d) ==
  LET pivot == tr.kid[Other(d)][l]
      inner == tr.kid[d][pivot]
  IN  Attached(Attached(Transplant(tr, l, pivot), l, Other(d), inner), pivot, d, l)

Minimum[l \in Prices] ==
  IF t.kid["left"][l] = Nil THEN l ELSE Minimum[t.kid["left"][l]]

InOrder[l \in Maybe] ==
  IF l = Nil THEN <<>>
  ELSE InOrder[t.kid["left"][l]] \o <<l>> \o InOrder[t.kid["right"][l]]

Ladder == InOrder[t.root]
Levels == {Ladder[i] : i \in DOMAIN Ladder}

-----------------------------------------------------------------------------
(* Searching                                                               *)

Bid == type = "BID"
Better(p, q) == IF Bid THEN p > q ELSE p < q
Worse(l) == IF Bid THEN pred[l] ELSE succ[l]

At(l) == [existing |-> l, pred |-> Nil, succ |-> Nil]
Gap(a, b) == [existing |-> Nil, pred |-> a, succ |-> b]

\* Where a search for p turns at level l.
Toward(p, l) == IF p < l THEN "left" ELSE "right"

FindNode(p) ==
  LET find[l \in Maybe] ==
        IF l = Nil \/ l = p THEN l ELSE find[t.kid[Toward(p, l)][l]]
  IN  find[t.root]

FindNeighbors(p) ==
  LET find[l \in Maybe] ==
        CASE l = Nil -> Gap(Nil, Nil)
          [] l = p -> At(l)
          [] l # Nil /\ p < l /\ t.kid["left"][l] = Nil -> Gap(pred[l], l)
          [] l # Nil /\ p > l /\ t.kid["right"][l] = Nil -> Gap(l, succ[l])
          [] OTHER -> find[t.kid[Toward(p, l)][l]]
  IN  find[t.root]

\* Where insert puts an order at p: the top of the book is tried first.
MutRoute(p) ==
  CASE best # Nil /\ p # best /\ ~Better(p, best)
       /\ Worse(best) # Nil /\ p # Worse(best) ->
         IF Bid THEN Gap(Worse(best), best) ELSE Gap(best, Worse(best))
    [] OTHER -> FindNeighbors(p)
Route(p) ==
  CASE best = Nil -> FindNeighbors(p)
    [] best # Nil /\ p = best -> At(best)
    [] best # Nil /\ Better(p, best) -> IF Bid THEN Gap(best, Nil) ELSE Gap(Nil, best)
    [] best # Nil /\ Better(best, p) ->
         LET next == Worse(best)
         IN  CASE next = Nil -> IF Bid THEN Gap(Nil, best) ELSE Gap(best, Nil)
               [] next # Nil /\ p = next -> At(next)
               [] next # Nil /\ Better(p, next) ->
                    IF Bid THEN Gap(next, best) ELSE Gap(best, next)
               [] OTHER -> FindNeighbors(p)

-----------------------------------------------------------------------------
(* Inserting a level                                                       *)

\* Under its predecessor if that has no right child, else under its successor.
Rooted(l, gap) ==
  LET fresh == Painted(t, l, "red")
  IN  CASE t.root = Nil -> [fresh EXCEPT !.root = l]
        [] t.root # Nil /\ gap.pred # Nil /\ t.kid["right"][gap.pred] = Nil ->
             Attached(fresh, gap.pred, "right", l)
        [] OTHER -> Attached(fresh, gap.succ, "left", l)

Insert(p) ==
  LET gap == Route(p)
  IN  /\ pc = "idle"
      /\ gap.existing = Nil
      /\ t' = Rooted(p, gap)
      /\ pred' = [l \in Prices |-> IF l = p THEN gap.pred
                                   ELSE IF l = gap.succ THEN p ELSE pred[l]]
      /\ succ' = [l \in Prices |-> IF l = p THEN gap.succ
                                   ELSE IF l = gap.pred THEN p ELSE succ[l]]
      /\ best' = IF t.root = Nil \/ (IF Bid THEN gap.succ ELSE gap.pred) = Nil
                 THEN p ELSE best
      /\ pc' = "inserting" /\ x' = p
      /\ UNCHANGED <<type, xp>>

RedRed == x # t.root /\ t.color[t.parent[x]] = "red"

\* The parent and the uncle of a red level with a red parent are painted
\* black, or the parent is rotated over the grandparent.
Lift(y, p, g, d) ==
  IF ColorOf(t, y) = "red"
  THEN /\ x' = g
       /\ t' = Painted(Painted(Painted(t, p, "black"), y, "black"), g, "red")
  ELSE LET outer == x = t.kid[d][p]
           line == IF outer THEN t ELSE Rotate(t, p, d)
           top == line.kid[d][g]
       IN  /\ x' = IF outer THEN x ELSE p
           /\ t' = Rotate(Painted(Painted(line, top, "black"), g, "red"), g, Other(d))

InsertRebalance ==
  /\ pc = "inserting" /\ RedRed
  /\ LET p == t.parent[x]
         g == t.parent[p]
         d == SideOf(t, p)
     IN  /\ g # Nil
         /\ Lift(t.kid[Other(d)][g], p, g, d)
  /\ UNCHANGED <<type, pred, succ, best, pc, xp>>

InsertDone ==
  /\ pc = "inserting" /\ ~RedRed
  /\ t' = Painted(t, t.root, "black")
  /\ pc' = "idle" /\ x' = Nil
  /\ UNCHANGED <<type, pred, succ, best, xp>>

-----------------------------------------------------------------------------
(* Erasing a level                                                         *)

\* The tree without z, the colour it lost, and the level, perhaps absent,
\* that carries the loss, with its parent.
Deleted(z) ==
  LET left == t.kid["left"][z]
      right == t.kid["right"][z]
      y == Minimum[right]
      lifted == IF t.parent[y] = z THEN t
                ELSE Attached(Transplant(t, y, t.kid["right"][y]), y, "right", right)
  IN  IF left = Nil \/ right = Nil
      THEN LET only == IF left = Nil THEN right ELSE left
           IN  [tree |-> Transplant(t, z, only), lost |-> t.color[z],
                at |-> only, under |-> t.parent[z]]
      ELSE [tree |-> Painted(Attached(Transplant(lifted, z, y), y, "left", left),
                             y, t.color[z]),
            lost |-> t.color[y], at |-> t.kid["right"][y],
            under |-> IF t.parent[y] = z THEN y ELSE t.parent[y]]

\* What is left of a tree once z is out of it.
Recycled(tr, z) ==
  [tr EXCEPT !.kid["left"][z] = Nil, !.kid["right"][z] = Nil,
             !.parent[z] = Nil, !.color[z] = "black"]

MutWithout(thread, z, neighbour) ==
  [l \in Prices |-> IF l = z THEN Nil ELSE thread[l]]
\* A thread in which the neighbour on one side of z skips it.
Without(thread, z, neighbour) ==
  [l \in Prices |-> IF l = z THEN Nil ELSE IF l = neighbour THEN thread[z] ELSE thread[l]]

MutEraseLevel(z) ==
  LET cut == Deleted(z)
  IN  /\ pc = "idle"
      /\ z \in Levels
      /\ best' = IF z = best THEN Worse(z) ELSE best
      /\ succ' = Without(succ, z, pred[z])
      /\ pred' = Without(pred, z, succ[z])
      /\ t' = Recycled(cut.tree, z)
      /\ UNCHANGED <<type, pc, x, xp>>
EraseLevel(z) ==
  LET cut == Deleted(z)
  IN  /\ pc = "idle"
      /\ z \in Levels
      /\ best' = IF z = best THEN Worse(z) ELSE best
      /\ succ' = Without(succ, z, pred[z])
      /\ pred' = Without(pred, z, succ[z])
      /\ t' = Recycled(cut.tree, z)
      /\ IF cut.lost = "black"
         THEN pc' = "erasing" /\ x' = cut.at /\ xp' = cut.under
         ELSE UNCHANGED <<pc, x, xp>>
      /\ UNCHANGED type

Fixing == x # t.root /\ ColorOf(t, x) = "black"

MutPassedUp(tr, w) ==
  /\ t' = Painted(tr, w, "red")
  /\ x' = x /\ xp' = xp
\* x and its sibling w in the tree tr: the sibling is painted red and the
\* loss passed up, or rotations make it good.
PassedUp(tr, w) ==
  /\ t' = Painted(tr, w, "red")
  /\ x' = xp /\ xp' = tr.parent[xp]

MadeGood(tr, d) ==
  LET o == Other(d)
      v == tr.kid[o][xp]
      far == IF ColorOf(tr, tr.kid[o][v]) = "red" THEN tr
             ELSE Rotate(Painted(Painted(tr, tr.kid[d][v], "black"), v, "red"), v, o)
      w == far.kid[o][xp]
      even == Painted(Painted(far, w, far.color[xp]), xp, "black")
  IN  /\ t' = Rotate(Painted(even, even.kid[o][w], "black"), xp, d)
      /\ x' = t'.root /\ xp' = Nil

\* A red sibling is first rotated away.
BlackSibling(d) ==
  LET w == t.kid[Other(d)][xp]
  IN  IF ColorOf(t, w) = "black" THEN t
      ELSE Rotate(Painted(Painted(t, w, "black"), xp, "red"), xp, d)

DeleteFixup ==
  /\ pc = "erasing" /\ Fixing
  /\ LET d == IF t.kid["left"][xp] = x THEN "left" ELSE "right"
         tr == BlackSibling(d)
         w == tr.kid[Other(d)][xp]
     IN  /\ w # Nil
         /\ IF \A e \in Sides : ColorOf(tr, tr.kid[e][w]) = "black"
            THEN PassedUp(tr, w)
            ELSE MadeGood(tr, d)
  /\ UNCHANGED <<type, pred, succ, best, pc>>

DeleteDone ==
  /\ pc = "erasing" /\ ~Fixing
  /\ t' = Painted(t, x, "black")
  /\ pc' = "idle" /\ x' = Nil /\ xp' = Nil
  /\ UNCHANGED <<type, pred, succ, best>>

-----------------------------------------------------------------------------

Clear ==
  /\ pc = "idle"
  /\ t' = EmptyTree
  /\ pred' = Unthreaded /\ succ' = Unthreaded
  /\ best' = Nil
  /\ UNCHANGED <<type, pc, x, xp>>

Next ==
  \/ \E p \in Prices : Insert(p)
  \/ InsertRebalance \/ InsertDone
  \/ \E z \in Prices : EraseLevel(z)
  \/ DeleteFixup \/ DeleteDone
  \/ Clear

\* One thread owns the tree and runs insert and erase to their end.
Spec == Init /\ [][Next]_vars

-----------------------------------------------------------------------------

TypeOK ==
  /\ type \in {"BID", "ASK"}
  /\ t \in [root : Maybe, kid : [Sides -> [Prices -> Maybe]],
            parent : [Prices -> Maybe], color : [Prices -> Colors]]
  /\ pred \in [Prices -> Maybe] /\ succ \in [Prices -> Maybe]
  /\ best \in Maybe
  /\ pc \in {"idle", "inserting", "erasing"}
  /\ x \in Maybe /\ xp \in Maybe
  /\ \A l \in Levels :
       IF t.parent[l] = Nil THEN l = t.root ELSE l \in {t.kid[d][t.parent[l]] : d \in Sides}

\* rb_check: the black height below l, or -1.
BlackHeight[l \in Maybe] ==
  IF l = Nil THEN 1
  ELSE LET heights == [d \in Sides |-> BlackHeight[t.kid[d][l]]]
       IN  IF \/ t.color[l] = "red" /\ \E d \in Sides : ColorOf(t, t.kid[d][l]) = "red"
              \/ heights["left"] # heights["right"]
              \/ heights["left"] = -1
           THEN -1
           ELSE heights["left"] + (IF t.color[l] = "black" THEN 1 ELSE 0)

\* Between two calls the tree is a red-black tree: the root is black, no red
\* level has a red child, and all paths down meet as many black levels.  The
\* deletion starts its fix-up from a child that may be absent.
RedBlack ==
  pc = "idle" => ColorOf(t, t.root) = "black" /\ BlackHeight[t.root] # -1

\* The neighbours of p in a list of prices in order, as insert's result.
Place(list, p) ==
  LET n == Cardinality({i \in DOMAIN list : list[i] < p})
  IN  IF n < Len(list) /\ list[n + 1] = p THEN At(p)
      ELSE Gap(IF n = 0 THEN Nil ELSE list[n],
               IF n = Len(list) THEN Nil ELSE list[n + 1])

\* Wherever an order's price lies, the shortcuts of insert over the best level
\* and its neighbour lead to the level of that price, or to the gap between
\* its two neighbours, and so does the search from the root.
SearchExact ==
  pc = "idle" =>
    \A p \in Prices :
      LET place == Place(Ladder, p)
      IN  /\ Route(p) = place
          /\ FindNeighbors(p) = place
          /\ FindNode(p) = place.existing

\* A new level is always given a free position: its predecessor has no right
\* child, or it has a successor, without a left one.  The shortcuts rely on
\* it without having descended the tree.
PositionFree ==
  pc = "idle" =>
    \A p \in Prices \ Levels :
      LET gap == Route(p)
      IN  \/ t.root = Nil
          \/ gap.pred # Nil /\ t.kid["right"][gap.pred] = Nil
          \/ gap.succ # Nil /\ t.kid["left"][gap.succ] = Nil

\* The threads give the levels in the tree's order in both directions and the
\* best is its last (bids) or first (asks), even while colours are being
\* restored: matching and clear() walk the threads and not the tree.
ThreadsExact ==
  LET list == Ladder
      At0(i) == IF i \in DOMAIN list THEN list[i] ELSE Nil
  IN  /\ \A i \in DOMAIN list : pred[list[i]] = At0(i - 1) /\ succ[list[i]] = At0(i + 1)
      /\ best = At0(IF Bid THEN Len(list) ELSE 1)

\* An order goes to the level of its price, or to a free position between the
\* neighbours of its price, whichever way insert takes.
RouteExact == SearchExact /\ PositionFree

\* An inserted level lands in its place and an erased one is all that goes:
\* the tree read in order is the abstract list of prices.
AbstractLadder == INSTANCE PriceLadder WITH ladder <- Ladder
LadderRefined == AbstractLadder!Spec

\* Both loops that restore colours end: each pass but the last has brought
\* their level nearer to the root.
Depth[l \in Maybe] ==
  IF l = Nil \/ l = t.root THEN 0 ELSE 1 + Depth[t.parent[l]]
Height == IF pc = "inserting" THEN (IF RedRed THEN 1 + Depth[x] ELSE 0)
          ELSE IF Fixing THEN (IF x = Nil THEN 2 + Depth[xp] ELSE 1 + Depth[x]) ELSE 0
Climbs == [][pc # "idle" /\ pc' = pc => Height' < Height]_vars
=============================================================================
