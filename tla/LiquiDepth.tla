----------------------------- MODULE LiquiDepth -----------------------------
(***************************************************************************)
(* Depth<SIZE> of depth.h and DepthLevel of depth_level.h: the aggregate   *)
(* view of the market that liquibook keeps up to date while it matches.    *)
(* A depth is a value here, and every member function maps a depth to a    *)
(* depth; LiquiBook.tla holds the depth and calls them.                    *)
(*                                                                         *)
(* The change ids are compared in one way only, with the id at the last    *)
(* publication: a level carries that comparison (fresh), and the depth     *)
(* carries its own (changed).                                              *)
(***************************************************************************)
EXTENDS Integers, FiniteSets, SequencesExt

CONSTANT Size    \* SIZE: the visible levels of a side

ASSUME SizeAssumption == Size \in Nat \ {0}

Sides == {"BID", "ASK"}
InvalidPrice == 0    \* INVALID_LEVEL_PRICE

Level(p) == [price |-> p, count |-> 0, qty |-> 0, fresh |-> TRUE]
Blank == [Level(InvalidPrice) EXCEPT !.fresh = FALSE]

\* lost: an update has left the levels, by an exception or through the pointer
\* one past the side that find_level returns for an absent price; from then on
\* the contents are not described.
EmptyDepth ==
  [visible |-> [s \in Sides |-> [i \in 1..Size |-> Blank]],
   excess  |-> [s \in Sides |-> {}],
   ignored |-> [s \in Sides |-> 0],
   changed |-> FALSE,
   lost    |-> FALSE]

Better(s, p, q) == IF s = "BID" THEN p > q ELSE p < q

BestOf(s, levels) ==
  CHOOSE l \in levels : \A m \in levels : m = l \/ Better(s, l.price, m.price)

PositionOf(d, s, p) == SelectInSeq(d.visible[s], LAMBDA l : l.price = p)
PlaceFor(d, s, p) ==
  SelectInSeq(d.visible[s],
              LAMBDA l : l.price \in {p, InvalidPrice} \/ Better(s, p, l.price))
ExcessAt(d, s, p) == {l \in d.excess[s] : l.price = p}

Lose(d) == [d EXCEPT !.lost = TRUE]

----------------------------------------------------------------------------
(* The visible levels and the excess *)

Touched(l) == [l EXCEPT !.fresh = @ \/ l.price # InvalidPrice]

\* Without saving the last level in the excess.
MutInsertLevelBefore(d, s, i, p) ==
  LET old == d.visible[s]
  IN  [d EXCEPT !.visible[s] = [j \in 1..Size |->
                                 CASE j < i -> old[j]
                                   [] j = i -> Level(p)
                                   [] j > i -> Touched(old[j - 1])],
                !.changed = TRUE]

InsertLevelBefore(d, s, i, p) ==
  LET old == d.visible[s]
      spilt == IF old[Size].price = InvalidPrice THEN {} ELSE {old[Size]}
  IN  [d EXCEPT !.visible[s] = [j \in 1..Size |->
                                 CASE j < i -> old[j]
                                   [] j = i -> Level(p)
                                   [] j > i -> Touched(old[j - 1])],
                !.excess[s] = @ \union spilt,
                !.changed = TRUE]

RestoreLast(d, s) ==
  IF d.excess[s] = {} THEN [d EXCEPT !.visible[s][Size] = Level(InvalidPrice)]
  ELSE LET best == BestOf(s, d.excess[s])
       IN  [d EXCEPT !.visible[s][Size] = [best EXCEPT !.fresh = TRUE],
                     !.excess[s] = @ \ {best}]

\* Without last_change(last_change_) on the levels that move up.
MutEraseLevel(d, s, i) ==
  LET old == d.visible[s]
      shifted == [d EXCEPT !.visible[s] = [j \in 1..Size |->
                    IF j \in i..(Size - 1) THEN old[j + 1] ELSE old[j]],
                  !.changed = TRUE]
  IN  IF i = Size \/ old[Size].price # InvalidPrice
      THEN RestoreLast(shifted, s) ELSE shifted

EraseLevel(d, s, i) ==
  LET old == d.visible[s]
      shifted == [d EXCEPT !.visible[s] = [j \in 1..Size |->
                    IF j \in i..(Size - 1) /\ (j = i \/ old[j].price # InvalidPrice)
                    THEN [old[j + 1] EXCEPT !.fresh = TRUE]
                    ELSE old[j]],
                  !.changed = TRUE]
  IN  IF i = Size \/ old[Size].price # InvalidPrice
      THEN RestoreLast(shifted, s) ELSE shifted

----------------------------------------------------------------------------
(* The operations *)

Enlarged(l, qty) == [l EXCEPT !.count = @ + 1, !.qty = @ + qty]

DepthAdd(d, s, p, qty) ==
  LET i == PlaceFor(d, s, p)
      at == ExcessAt(d, s, p)
      l == IF at = {} THEN [Level(p) EXCEPT !.fresh = FALSE] ELSE CHOOSE x \in at : TRUE
      found == IF d.visible[s][i].price = p THEN d
               ELSE IF d.visible[s][i].price = InvalidPrice
               THEN [d EXCEPT !.visible[s][i] = Level(p)]
               ELSE InsertLevelBefore(d, s, i, p)
  IN  IF i = 0 THEN [d EXCEPT !.excess[s] = (@ \ at) \union {Enlarged(l, qty)}]
      ELSE LET more == [Enlarged(found.visible[s][i], qty) EXCEPT !.fresh = TRUE]
           IN  [found EXCEPT !.visible[s][i] = more, !.changed = TRUE]

DepthClose(d, s, p, qty) ==
  LET i == PositionOf(d, s, p)
      at == ExcessAt(d, s, p)
      l == IF i # 0 THEN d.visible[s][i] ELSE CHOOSE x \in at : TRUE
      left == [l EXCEPT !.count = @ - 1, !.qty = @ - qty, !.fresh = TRUE]
  IN  IF (i = 0 /\ at = {}) \/ l.count = 0 \/ (l.count > 1 /\ l.qty < qty) THEN Lose(d)
      ELSE IF l.count = 1
      THEN IF i # 0 THEN EraseLevel(d, s, i) ELSE [d EXCEPT !.excess[s] = @ \ at]
      ELSE IF i # 0 THEN [d EXCEPT !.visible[s][i] = left, !.changed = TRUE]
      ELSE [d EXCEPT !.excess[s] = (@ \ at) \union {left}, !.changed = TRUE]

DepthChange(d, s, p, delta) ==
  LET i == PositionOf(d, s, p)
      at == ExcessAt(d, s, p)
      l == IF i # 0 THEN d.visible[s][i] ELSE CHOOSE x \in at : TRUE
      left == [l EXCEPT !.qty = @ + delta, !.fresh = TRUE]
  IN  IF delta = 0 THEN d
      ELSE IF (i = 0 /\ at = {}) \/ left.qty < 0 THEN Lose(d)
      ELSE IF i # 0 THEN [d EXCEPT !.visible[s][i] = left, !.changed = TRUE]
      ELSE [d EXCEPT !.excess[s] = (@ \ at) \union {left}, !.changed = TRUE]

DepthReplace(d, s, p, newPrice, qty, newQty) ==
  IF p = newPrice THEN DepthChange(d, s, p, newQty - qty)
  ELSE DepthClose(DepthAdd(d, s, newPrice, newQty), s, p, qty)

DepthIgnore(d, s, qty) ==
  IF d.ignored[s] # 0 THEN Lose(d) ELSE [d EXCEPT !.ignored[s] = qty]

DepthFill(d, s, p, qty, filled) ==
  IF d.ignored[s] # 0
  THEN IF qty > d.ignored[s] THEN Lose(d) ELSE [d EXCEPT !.ignored[s] = @ - qty]
  ELSE IF filled THEN DepthClose(d, s, p, qty)
  ELSE DepthChange(d, s, p, -qty)

\* What the listeners are told of a book update.
Told(d) ==
  IF ~d.changed THEN {}
  ELSE {"depth"} \union (IF \E s \in Sides : d.visible[s][1].fresh THEN {"bbo"} ELSE {})

Published(d) ==
  [d EXCEPT !.visible = [s \in Sides |-> [i \in 1..Size |->
                           [d.visible[s][i] EXCEPT !.fresh = FALSE]]],
            !.excess = [s \in Sides |-> {[l EXCEPT !.fresh = FALSE] : l \in d.excess[s]}],
            !.changed = FALSE]
=============================================================================
