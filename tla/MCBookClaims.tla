---------------------------- MODULE MCBookClaims ----------------------------
(* Small instances of MatchingBook for the statements of BookClaims. *)
EXTENDS BookClaims

WrapOrders ==
  {[buy |-> TRUE, price |-> p, stop |-> 0, qty |-> 1, filled |-> 0,
    aon |-> FALSE, ioc |-> FALSE] : p \in {1, 2}}
WrapDeltas == {-2}

OverrunOrders ==
  {[buy |-> b, price |-> 1, stop |-> 0, qty |-> q, filled |-> 0,
    aon |-> FALSE, ioc |-> FALSE] : b \in BOOLEAN, q \in {1, 2}}
=============================================================================
