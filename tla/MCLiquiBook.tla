---------------------------- MODULE MCLiquiBook ----------------------------
(* LiquiBook on small instances: what an order can be, and how it can be   *)
(* replaced.                                                               *)
EXTENDS LiquiBook

Limit(s, p, q) ==
  [side |-> s, price |-> p, qty |-> q, stop |-> 0, aon |-> FALSE, ioc |-> FALSE]
Limits(prices, qtys) == {Limit(s, p, q) : s \in Sides, p \in prices, q \in qtys}

MixedOrders ==
  {Limit("BID", 2, 1), Limit("ASK", 2, 2),
   [Limit("ASK", 1, 2) EXCEPT !.aon = TRUE],
   [Limit("BID", 1, 1) EXCEPT !.aon = TRUE],
   [Limit("BID", 2, 2) EXCEPT !.ioc = TRUE],
   [Limit("ASK", 0, 2) EXCEPT !.stop = 1]}

MixedReplacements == {[delta |-> -1, price |-> 3]}

\* No stop orders and no replacement: limit orders at one price, and
\* immediate-or-cancel bids.
IocOrders == {Limit("BID", 2, 1), Limit("ASK", 2, 1),
              [Limit("BID", 2, 2) EXCEPT !.ioc = TRUE]}
=============================================================================
