------------------------------ MODULE Exchange ------------------------------
(***************************************************************************)
(* What a book owes the owners of its orders, whatever its data structures *)
(* and its matching order: an order enters, waits for its trigger if it is *)
(* a stop, trades in quantities it still has at prices it accepts, can be  *)
(* changed, and leaves.  Nothing else happens to it, in one step of        *)
(* anybody else's call least of all.                                       *)
(***************************************************************************)
EXTENDS Integers

CONSTANTS
  Ids,        \* order ids
  Prices,     \* limit and stop prices (0: market order, no stop)
  Word,       \* quantities
  NewOrders,  \* the orders that may enter
  MarketPrices \* the reference prices that may be quoted

VARIABLES
  order,        \* the order behind each id
  status,       \* "out", "parked" (a stop not yet triggered) or "live"
  marketPrice   \* the reference price stops look at

vars == <<order, status, marketPrice>>

Blank == [buy |-> FALSE, price |-> 0, stop |-> 0, qty |-> 0, filled |-> 0,
          aon |-> FALSE, ioc |-> FALSE]

Accepts(o, p) == \/ o.price = 0
                 \/ IF o.buy THEN p <= o.price ELSE p >= o.price
Reached(o) == IF o.buy THEN o.stop <= marketPrice ELSE o.stop >= marketPrice

Init ==
  /\ order = [x \in Ids |-> Blank]
  /\ status = [x \in Ids |-> "out"]
  /\ marketPrice = 0

Enter(x, o) ==
  /\ status[x] = "out"
  /\ o.qty > 0
  /\ order' = [order EXCEPT ![x] = o]
  /\ status' = [status EXCEPT
                  ![x] = IF o.stop = 0 \/ Reached(o) THEN "live" ELSE "parked"]
  /\ UNCHANGED marketPrice

\* A parked stop goes live only when the market has reached its trigger.
Trigger(x) ==
  /\ status[x] = "parked"
  /\ Reached(order[x])
  /\ status' = [status EXCEPT ![x] = "live"]
  /\ UNCHANGED <<order, marketPrice>>

\* A trade: a live buyer and a live seller, a quantity both still have, the
\* limit price of one of them, acceptable to both.  A filled order may leave.
Trade(b, s, q, p) ==
  LET after == [order EXCEPT ![b].filled = @ + q, ![s].filled = @ + q]
  IN /\ status[b] = "live" /\ order[b].buy
     /\ status[s] = "live" /\ ~order[s].buy
     /\ p = order[b].price \/ p = order[s].price
     /\ Accepts(order[b], p) /\ Accepts(order[s], p)
     /\ after[b].filled <= order[b].qty /\ after[s].filled <= order[s].qty
     /\ \E gone \in SUBSET {x \in {b, s} : after[x].filled = order[x].qty} :
          /\ order' = [x \in Ids |-> IF x \in gone THEN Blank ELSE after[x]]
          /\ status' = [x \in Ids |-> IF x \in gone THEN "out" ELSE status[x]]
     /\ marketPrice' = p

\* The owner changes quantity or price of a live order; its fills stay.
Change(x, q, p) ==
  /\ status[x] = "live"
  /\ q > order[x].filled
  /\ order' = [order EXCEPT ![x].qty = q, ![x].price = p]
  /\ UNCHANGED <<status, marketPrice>>

\* The owner asks for more than a word holds, and has nothing left to trade.
Overrun(x, q) ==
  /\ status[x] = "live"
  /\ q <= order[x].filled
  /\ order' = [order EXCEPT ![x].qty = q]
  /\ UNCHANGED <<status, marketPrice>>

\* An order without anything left leaves when a call meets it: a trade of
\* nothing, at its price.
Expire(x) ==
  /\ status[x] = "live"
  /\ order[x].qty <= order[x].filled
  /\ order' = [order EXCEPT ![x] = Blank]
  /\ status' = [status EXCEPT ![x] = "out"]
  /\ marketPrice' = order[x].price

Leave(x) ==
  /\ status[x] # "out"
  /\ order' = [order EXCEPT ![x] = Blank]
  /\ status' = [status EXCEPT ![x] = "out"]
  /\ UNCHANGED marketPrice

Quote(px) ==
  /\ marketPrice' = px
  /\ UNCHANGED <<order, status>>

Next ==
  \/ \E x \in Ids, o \in NewOrders : Enter(x, o)
  \/ \E x \in Ids : Trigger(x)
  \/ \E b \in Ids, s \in Ids, q \in Word \ {0}, p \in Prices :
       Trade(b, s, q, p)
  \/ \E x \in Ids, q \in Word, p \in Prices : Change(x, q, p)
  \/ \E x \in Ids, q \in Word : Overrun(x, q)
  \/ \E x \in Ids : Expire(x)
  \/ \E x \in Ids : Leave(x)
  \/ \E px \in MarketPrices : Quote(px)

Spec == Init /\ [][Next]_vars
=============================================================================
