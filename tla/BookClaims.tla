----------------------------- MODULE BookClaims -----------------------------
(***************************************************************************)
(* Statements the repository makes about the book that the code does not   *)
(* keep: each is the property of a run that ends in a counterexample.      *)
(***************************************************************************)
EXTENDS MatchingBook

\* "A reduction that meets/exceeds the open qty collapses the order"
\* (ut_cancel_replace.cpp:74): an order replaced by a negative delta of at
\* least its open quantity is gone, also when its price changes.
ReductionCollapses ==
  [][\A x \in Ids, d \in Deltas, p \in Prices \cup {0} :
       /\ d < 0 /\ -d >= Open(x)
       /\ ReplaceInPlace(x, d, p) \/ ReplaceReprice(x, d, p)
       => order'[x] = Blank]_vars

\* "aggregate open qty resting at this level" (price_level_descriptor.h:33): the
\* quantity of a level is what its orders have open, as words, also after "a
\* pure size increase grows the level" (ut_cancel_replace.cpp:41).
AggregateIsOpenQty ==
  \A t \in Trees, k \in Prices :
    level[t][k].qty =
      Total([x \in Ids |-> Open(x)])[AtLevel(t, k)] % WordSize
=============================================================================
