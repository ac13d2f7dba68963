--------------------------- MODULE MCMatchingBook ---------------------------
(* Small instances of MatchingBook for TLC. *)
EXTENDS MatchingBookInv, TLC

Limit(b, p, q, aon, ioc) ==
  [buy |-> b, price |-> p, stop |-> 0, qty |-> q, filled |-> 0,
   aon |-> aon, ioc |-> ioc]
Stop(b, p, s, q) ==
  [buy |-> b, price |-> p, stop |-> s, qty |-> q, filled |-> 0,
   aon |-> FALSE, ioc |-> FALSE]

\* Limit orders of every condition but IOC, which never rests.
AonOrders ==
  {Limit(b, p, q, aon, FALSE) :
     b \in BOOLEAN, p \in {1, 2}, q \in {1, 2}, aon \in BOOLEAN}

\* Orders that wait, move the market, and are resized and repriced: stops that
\* fire as market and as limit orders, limit, market and IOC orders, and an
\* all-or-none; a zero-quantity order is rejected.
LifeOrders ==
  {Stop(b, p, s, 1) : b \in BOOLEAN, p \in {0, 2}, s \in {1, 2}}
  \cup {Limit(b, p, 1, FALSE, FALSE) : b \in BOOLEAN, p \in {1, 2}}
  \cup {Limit(TRUE, 0, 2, FALSE, FALSE),
        Limit(TRUE, 2, 2, FALSE, FALSE), Limit(FALSE, 2, 2, FALSE, FALSE),
        Limit(FALSE, 1, 2, FALSE, TRUE),
        Limit(TRUE, 1, 2, TRUE, FALSE), Limit(TRUE, 1, 0, FALSE, FALSE)}
Reductions == {-1}

\* Both sides, stops and an all-or-none on few ids, without symmetry: for
\* liveness.  In words of two bits an increase by 2 wraps 2 around to nothing
\* and 3 to an open order.
MixedOrders ==
  {Stop(TRUE, 0, 2, 1), Stop(FALSE, 0, 1, 1),
   Limit(TRUE, 1, 2, FALSE, FALSE), Limit(FALSE, 1, 2, FALSE, FALSE),
   Limit(TRUE, 2, 2, TRUE, FALSE)}

\* What an overrun does to the aggregates of a level stays in them, in ever
\* more ways, but no action's guard and no other variable reads them: states
\* that differ in them only have the same behaviours otherwise.
WithoutLevels == <<order, tree, ahead, marketPrice, loop, reply>>

IdSymmetry == Permutations(Ids)
=============================================================================
