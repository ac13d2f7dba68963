---------------------------- MODULE MatchingBook ----------------------------
(***************************************************************************)
(* The matching core of babobook (matching_book.h) over four order trees:  *)
(* the resting bids and asks, and the parked buy and sell stops.  A public *)
(* call (add, cancel, replace, set_market_price) is a command accepted     *)
(* when the book is idle; the loops it runs are unrolled into steps, one   *)
(* per iteration.  A step holds a whole execute_trade: that a filled maker *)
(* is still in its tree while on_fill is called is not shown here.         *)
(*                                                                         *)
(* A tree is represented by what narb_tree promises of it: the orders it   *)
(* holds, best key first and, inside one price level, in order of arrival  *)
(* (ahead), with the level aggregates the book maintains incrementally.    *)
(***************************************************************************)
EXTENDS Integers, FiniteSets, Sequences

CONSTANTS
  Ids,          \* order ids; an id may be used again once its order is gone
  None,         \* no order: the end of an iteration, or no order in flight
  Prices,       \* the limit and stop prices in use (0 means market / no stop)
  WordSize,     \* 2^32 in the code: quantities are std::uint32_t
  NewOrders,    \* the orders callers submit
  Deltas,       \* the size deltas callers pass to replace
  MarketPrices  \* the reference prices callers pass to set_market_price

Word == 0 .. WordSize - 1

Order == [buy : BOOLEAN, price : Prices \cup {0}, stop : Prices \cup {0},
          qty : Word, filled : Word, aon : BOOLEAN, ioc : BOOLEAN]

ASSUME ConstantsAssumption ==
  /\ None \notin Ids
  /\ Prices \subseteq Nat \ {0}
  /\ WordSize \in Nat \ {0}
  /\ NewOrders \subseteq {o \in Order : o.filled = 0}
  /\ Deltas \subseteq Int
  /\ MarketPrices \subseteq Nat

\* Ids are std::uint32_t.
ASSUME IdsAssumption == IsFiniteSet(Ids)

Trees == {"bids", "asks", "stopBids", "stopAsks"}
Replies == {"none", "accept", "reject", "cancel", "cancel_reject",
            "replace", "replace_reject"}
Steps == {"idle", "submit", "match", "plan", "commit", "rest",
          "scanBids", "scanAsks"}

VARIABLES
  order,        \* the order behind each id (Blank when there is none)
  tree,         \* the tree holding it, or "out"
  ahead,        \* the orders of its level that arrived before it
  level,        \* per tree and key: aggregate open quantity and order count
  marketPrice,  \* last trade price or externally set reference price
  pc,           \* where the call in progress is
  cur,          \* the order being submitted
  it,           \* the iterator of the matching loop: the maker to visit next
  plan,         \* the makers an all-or-none order will take, with quantities
  planned,      \* their total
  fired,        \* stops taken out of their tree, waiting to be submitted
  reply         \* the last accept/reject/cancel/replace callback

book == <<order, tree, ahead, level, marketPrice>>
loop == <<pc, cur, it, plan, planned, fired>>
vars == <<book, loop, reply>>

Blank == [buy |-> FALSE, price |-> 0, stop |-> 0, qty |-> 0, filled |-> 0,
          aon |-> FALSE, ioc |-> FALSE]

-----------------------------------------------------------------------------
(* Orders (simple_order.h).                                                *)

OpenQty(o) == IF o.filled >= o.qty THEN 0 ELSE o.qty - o.filled
Open(x) == OpenQty(order[x])

\* An order with q more filled.
Filled(o, q) == [o EXCEPT !.filled = @ + q]

\* order_qty_ is unsigned: a reduction below zero wraps around, and so does an
\* increase past the largest word.
Modified(o, delta, newPrice) ==
  [o EXCEPT !.qty = (@ + delta) % WordSize,
            !.price = IF newPrice = 0 THEN @ ELSE newPrice]

-----------------------------------------------------------------------------
(* Trees: narb_tree<BID> sweeps the highest key first, narb_tree<ASK> the  *)
(* lowest; the parked stops use the opposite direction of their side.      *)

InTree(t) == {x \in Ids : tree[x] = t}
KeyIn(t, o) == IF t \in {"bids", "asks"} THEN o.price ELSE o.stop
Key(x) == KeyIn(tree[x], order[x])
Better(t, k, l) == IF t \in {"bids", "stopAsks"} THEN k > l ELSE k < l

\* x is swept before y (both in one tree).
Before(x, y) == \/ Better(tree[x], Key(x), Key(y))
                \/ Key(x) = Key(y) /\ x \in ahead[y]

\* The first order of S in sweep order; the end iterator when S is empty.
First(S) ==
  IF S = {} THEN {None} ELSE {x \in S : \A y \in S \ {x} : Before(x, y)}
After(x) == {y \in InTree(tree[x]) : Before(x, y)}

BookTree(o) == IF o.buy THEN "bids" ELSE "asks"
StopTree(o) == IF o.buy THEN "stopBids" ELSE "stopAsks"
Opposite == IF order[cur].buy THEN "asks" ELSE "bids"

MutLevelPlus(t, k, q, n) ==
  [level EXCEPT ![t][k].qty = @ + q, ![t][k].count = @ + n]
LevelPlus(t, k, q, n) ==
  [level EXCEPT ![t][k].qty = (@ + q) % WordSize, ![t][k].count = @ + n]

\* insert: the order joins its level behind everyone already there.
Insert(t, x, o) ==
  LET k == KeyIn(t, o) IN
  /\ order' = [order EXCEPT ![x] = o]
  /\ tree' = [tree EXCEPT ![x] = t]
  /\ ahead' = [ahead EXCEPT ![x] = {y \in InTree(t) : Key(y) = k}]
  /\ level' = LevelPlus(t, k, OpenQty(o), 1)

MutErase(x) ==
  /\ tree' = [tree EXCEPT ![x] = "out"]
  /\ ahead' = [y \in Ids |-> IF y = x THEN {} ELSE ahead[y] \ {x}]
  /\ level' = LevelPlus(tree[x], Key(x), -order[x].qty, -1)

\* erase: the order leaves its level, which loses its open quantity.
Erase(x) ==
  /\ tree' = [tree EXCEPT ![x] = "out"]
  /\ ahead' = [y \in Ids |-> IF y = x THEN {} ELSE ahead[y] \ {x}]
  /\ level' = LevelPlus(tree[x], Key(x), -Open(x), -1)

-----------------------------------------------------------------------------
(* Matching.                                                               *)

MutCrossesStrictly(p, o) == \/ o.price = 0
                            \/ IF o.buy THEN p < o.price ELSE p > o.price
MutCrossesAny(p, o) == TRUE
CrossesAt(p, o) == \/ o.price = 0
                   \/ IF o.buy THEN p <= o.price ELSE p >= o.price
Crosses(m) == CrossesAt(order[m].price, order[cur])
MutSmaller(a, b) == a
Smaller(a, b) == IF a <= b THEN a ELSE b

\* execute_trade at the maker's price, and the erase of a filled maker.
Trade(m, q) ==
  LET done == order[m].filled + q >= order[m].qty
  IN /\ order' = [order EXCEPT
                    ![cur] = Filled(@, q),
                    ![m] = IF done THEN Blank ELSE Filled(@, q)]
     /\ marketPrice' = order[m].price
     /\ level' = LevelPlus(tree[m], Key(m), -q, IF done THEN -1 ELSE 0)
     /\ IF done
        THEN /\ tree' = [tree EXCEPT ![m] = "out"]
             /\ ahead' = [y \in Ids |->
                            IF y = m THEN {} ELSE ahead[y] \ {m}]
        ELSE UNCHANGED <<tree, ahead>>

\* The loop conditions of the two sweeps: there is a maker, something is still
\* wanted, and the maker is within reach.
Matching == it # None /\ Open(cur) > 0 /\ Crosses(it)
MutPlanning == it # None /\ Crosses(it)
Planning == it # None /\ planned < Open(cur) /\ Crosses(it)
MutTooLargeAny(m) == Open(m) > Open(cur)
MutTooLargeNone(m) == FALSE
TooLarge(m) == order[m].aon /\ Open(m) > Open(cur)

\* match_against: the sweep starts at the best order of the other side.
Submit ==
  /\ pc = "submit"
  /\ pc' = IF order[cur].aon THEN "plan" ELSE "match"
  /\ it' \in First(InTree(Opposite))
  /\ UNCHANGED <<book, cur, plan, planned, fired, reply>>

\* match_regular_incoming: leave the loop at the first order out of reach.
MatchEnd ==
  /\ pc = "match"
  /\ ~Matching
  /\ pc' = "rest"
  /\ it' = None
  /\ UNCHANGED <<book, cur, plan, planned, fired, reply>>

MutMatchSkip ==
  /\ pc = "match"
  /\ Matching
  /\ TooLarge(it)
  /\ UNCHANGED vars

\* A resting all-or-none order that is too large is passed over.
MatchSkip ==
  /\ pc = "match"
  /\ Matching
  /\ TooLarge(it)
  /\ it' \in First(After(it))
  /\ UNCHANGED <<book, pc, cur, plan, planned, fired, reply>>

\* The iterator moves on before the maker is traded with, hence erased.
MatchTrade ==
  /\ pc = "match"
  /\ Matching
  /\ ~TooLarge(it)
  /\ Trade(it, Smaller(Open(cur), Open(it)))
  /\ it' \in First(After(it))
  /\ UNCHANGED <<pc, cur, plan, planned, fired, reply>>

\* match_aon_incoming: what an order still lacks goes to the next maker,
\* an all-or-none maker only if it fits whole.
PlanVisit ==
  LET left == Open(cur) - planned
      fits == ~order[it].aon \/ Open(it) <= left
      take == Smaller(Open(it), left)
  IN /\ pc = "plan"
     /\ Planning
     /\ plan' = IF fits THEN Append(plan, [id |-> it, qty |-> take]) ELSE plan
     /\ planned' = IF fits THEN planned + take ELSE planned
     /\ it' \in First(After(it))
     /\ UNCHANGED <<book, pc, cur, fired, reply>>

\* An infeasible plan is dropped: an all-or-none order trades fully or not.
PlanEnd ==
  /\ pc = "plan"
  /\ ~Planning
  /\ IF planned < Open(cur)
     THEN pc' = "rest" /\ plan' = <<>>
     ELSE pc' = "commit" /\ UNCHANGED plan
  /\ planned' = 0
  /\ it' = None
  /\ UNCHANGED <<book, cur, fired, reply>>

\* A planned maker that is no longer there is skipped (find_order).
Commit ==
  /\ pc = "commit"
  /\ plan # <<>>
  /\ IF tree[Head(plan).id] = Opposite
     THEN Trade(Head(plan).id, Head(plan).qty)
     ELSE UNCHANGED book
  /\ plan' = Tail(plan)
  /\ UNCHANGED <<pc, cur, it, planned, fired, reply>>

CommitEnd ==
  /\ pc = "commit"
  /\ plan = <<>>
  /\ pc' = "rest"
  /\ UNCHANGED <<book, cur, it, plan, planned, fired, reply>>

MutContinueTwice ==
  IF fired # <<>>
  THEN /\ pc' = "submit" /\ cur' = Head(fired) /\ UNCHANGED fired
  ELSE /\ pc' = "scanBids" /\ cur' = None /\ UNCHANGED fired
MutContinueOnce ==
  IF fired # <<>>
  THEN /\ pc' = "submit" /\ cur' = Head(fired) /\ fired' = Tail(fired)
  ELSE /\ pc' = "idle" /\ cur' = None /\ UNCHANGED fired

\* Where submit returns to: the next fired stop, or a new look at the stops.
Continue ==
  IF fired # <<>>
  THEN /\ pc' = "submit" /\ cur' = Head(fired) /\ fired' = Tail(fired)
  ELSE /\ pc' = "scanBids" /\ cur' = None /\ UNCHANGED fired

\* The tail of submit: a limit order that is not IOC rests with what is left.
MutRests(o) == o.price # 0 /\ ~o.ioc
Rests(o) == o.price # 0 /\ ~o.ioc /\ OpenQty(o) > 0

Rest ==
  /\ pc = "rest"
  /\ Rests(order[cur])
  /\ Insert(BookTree(order[cur]), cur, order[cur])
  /\ Continue
  /\ UNCHANGED <<marketPrice, it, plan, planned, reply>>

\* A filled, market or IOC order is dropped; its residual is not reported.
Discard ==
  /\ pc = "rest"
  /\ ~Rests(order[cur])
  /\ order' = [order EXCEPT ![cur] = Blank]
  /\ Continue
  /\ UNCHANGED <<tree, ahead, level, marketPrice, it, plan, planned, reply>>

-----------------------------------------------------------------------------
(* process_triggered.                                                      *)

Triggered(o) ==
  IF o.buy THEN o.stop <= marketPrice ELSE o.stop >= marketPrice

Fires(x) == x # None /\ Triggered(order[x])

FireBid(x) ==
  /\ pc = "scanBids"
  /\ x \in First(InTree("stopBids"))
  /\ Fires(x)
  /\ Erase(x)
  /\ fired' = Append(fired, x)
  /\ UNCHANGED <<order, marketPrice, pc, cur, it, plan, planned, reply>>

BidsScanned ==
  /\ pc = "scanBids"
  /\ \E x \in First(InTree("stopBids")) : ~Fires(x)
  /\ pc' = "scanAsks"
  /\ UNCHANGED <<book, cur, it, plan, planned, fired, reply>>

FireAsk(x) ==
  /\ pc = "scanAsks"
  /\ x \in First(InTree("stopAsks"))
  /\ Fires(x)
  /\ Erase(x)
  /\ fired' = Append(fired, x)
  /\ UNCHANGED <<order, marketPrice, pc, cur, it, plan, planned, reply>>

\* The stops have been collected: submit them, or the call is over.
AsksScanned ==
  /\ pc = "scanAsks"
  /\ \E x \in First(InTree("stopAsks")) : ~Fires(x)
  /\ IF fired = <<>>
     THEN pc' = "idle" /\ UNCHANGED <<cur, fired>>
     ELSE pc' = "submit" /\ cur' = Head(fired) /\ fired' = Tail(fired)
  /\ UNCHANGED <<book, it, plan, planned, reply>>

-----------------------------------------------------------------------------
(* The public calls.                                                       *)

Fresh(x) == tree[x] = "out"

AddReject(o) ==
  /\ pc = "idle"
  /\ o.qty = 0
  /\ reply' = "reject"
  /\ UNCHANGED <<book, loop>>

Stopped(o) ==
  /\ o.stop # 0
  /\ IF o.buy THEN marketPrice < o.stop ELSE marketPrice > o.stop

AddPark(x, o) ==
  /\ pc = "idle"
  /\ Fresh(x)
  /\ o.qty > 0
  /\ Stopped(o)
  /\ Insert(StopTree(o), x, o)
  /\ reply' = "accept"
  /\ UNCHANGED <<marketPrice, loop>>

AddSubmit(x, o) ==
  /\ pc = "idle"
  /\ Fresh(x)
  /\ o.qty > 0
  /\ ~Stopped(o)
  /\ order' = [order EXCEPT ![x] = o]
  /\ pc' = "submit"
  /\ cur' = x
  /\ reply' = "accept"
  /\ UNCHANGED <<tree, ahead, level, marketPrice, it, plan, planned, fired>>

Cancel(x) ==
  /\ pc = "idle"
  /\ tree[x] \in Trees
  /\ Erase(x)
  /\ order' = [order EXCEPT ![x] = Blank]
  /\ reply' = "cancel"
  /\ UNCHANGED <<marketPrice, loop>>

CancelReject(x) ==
  /\ pc = "idle"
  /\ tree[x] = "out"
  /\ reply' = "cancel_reject"
  /\ UNCHANGED <<book, loop>>

\* A parked stop is not found by replace.
ReplaceReject(x) ==
  /\ pc = "idle"
  /\ tree[x] \notin {"bids", "asks"}
  /\ reply' = "replace_reject"
  /\ UNCHANGED <<book, loop>>

Reprice(x, newPrice) == newPrice # 0 /\ newPrice # order[x].price

MutCollapses(x, delta) == delta < 0 /\ -delta > Open(x)
Collapses(x, delta) == delta < 0 /\ -delta >= Open(x)

\* A reduction of at least the open quantity removes the order.
ReplaceCollapse(x, delta, newPrice) ==
  /\ pc = "idle"
  /\ tree[x] \in {"bids", "asks"}
  /\ ~Reprice(x, newPrice)
  /\ Collapses(x, delta)
  /\ Erase(x)
  /\ order' = [order EXCEPT ![x] = Blank]
  /\ reply' = "replace"
  /\ UNCHANGED <<marketPrice, loop>>

MutReplaceInPlace(x, delta, newPrice) ==
  LET level0 == {y \in InTree(tree[x]) : Key(y) = Key(x)} \ {x} IN
  /\ pc = "idle"
  /\ tree[x] \in {"bids", "asks"}
  /\ ~Reprice(x, newPrice)
  /\ ~Collapses(x, delta)
  /\ order' = [order EXCEPT ![x] = Modified(@, delta, 0)]
  /\ level' = LevelPlus(tree[x], Key(x), delta, 0)
  /\ ahead' = [y \in Ids |-> IF y = x THEN level0 ELSE ahead[y] \ {x}]
  /\ reply' = "replace"
  /\ UNCHANGED <<tree, marketPrice, loop>>

\* An increase that wraps around to no more than what is filled.
Overruns(x, delta) == delta > 0 /\ OpenQty(Modified(order[x], delta, 0)) = 0

\* A pure size change keeps the order's place in its level.  Nothing checks
\* that an increase leaves anything to trade.
ReplaceInPlace(x, delta, newPrice) ==
  /\ pc = "idle"
  /\ tree[x] \in {"bids", "asks"}
  /\ ~Reprice(x, newPrice)
  /\ ~Collapses(x, delta)
  /\ order' = [order EXCEPT ![x] = Modified(@, delta, 0)]
  /\ level' = LevelPlus(tree[x], Key(x), delta, 0)
  /\ reply' = "replace"
  /\ UNCHANGED <<tree, ahead, marketPrice, loop>>

\* A new price loses priority: the order is erased and submitted again.
ReplaceReprice(x, delta, newPrice) ==
  LET o == Modified(order[x], delta, newPrice) IN
  /\ pc = "idle"
  /\ tree[x] \in {"bids", "asks"}
  /\ Reprice(x, newPrice)
  /\ Erase(x)
  /\ IF OpenQty(o) = 0
     THEN order' = [order EXCEPT ![x] = Blank] /\ UNCHANGED <<pc, cur>>
     ELSE /\ order' = [order EXCEPT ![x] = o]
          /\ pc' = "submit"
          /\ cur' = x
  /\ reply' = "replace"
  /\ UNCHANGED <<marketPrice, it, plan, planned, fired>>

SetMarketPrice(px) ==
  /\ pc = "idle"
  /\ marketPrice' = px
  /\ pc' = "scanBids"
  /\ UNCHANGED <<order, tree, ahead, level, cur, it, plan, planned, fired,
                 reply>>

-----------------------------------------------------------------------------
Init ==
  /\ order = [x \in Ids |-> Blank]
  /\ tree = [x \in Ids |-> "out"]
  /\ ahead = [x \in Ids |-> {}]
  /\ level = [t \in Trees |-> [k \in Prices |-> [qty |-> 0, count |-> 0]]]
  /\ marketPrice = 0
  /\ pc = "idle"
  /\ cur = None
  /\ it = None
  /\ plan = <<>>
  /\ planned = 0
  /\ fired = <<>>
  /\ reply = "none"

Call ==
  \/ \E o \in NewOrders : AddReject(o)
  \/ \E x \in Ids, o \in NewOrders : AddPark(x, o)
  \/ \E x \in Ids, o \in NewOrders : AddSubmit(x, o)
  \/ \E x \in Ids : Cancel(x)
  \/ \E x \in Ids : CancelReject(x)
  \/ \E x \in Ids : ReplaceReject(x)
  \/ \E x \in Ids, d \in Deltas, p \in Prices \cup {0} :
       ReplaceCollapse(x, d, p)
  \/ \E x \in Ids, d \in Deltas, p \in Prices \cup {0} :
       ReplaceInPlace(x, d, p)
  \/ \E x \in Ids, d \in Deltas, p \in Prices \cup {0} :
       ReplaceReprice(x, d, p)
  \/ \E px \in MarketPrices : SetMarketPrice(px)

Step ==
  \/ Submit
  \/ MatchEnd
  \/ MatchSkip
  \/ MatchTrade
  \/ PlanVisit
  \/ PlanEnd
  \/ Commit
  \/ CommitEnd
  \/ Rest
  \/ Discard
  \/ \E x \in Ids : FireBid(x)
  \/ BidsScanned
  \/ \E x \in Ids : FireAsk(x)
  \/ AsksScanned

Next == Call \/ Step

Spec == Init /\ [][Next]_vars

\* The calls are synchronous loops on one thread: a call in progress keeps
\* running.  Nothing makes a caller call.
FairSpec == Spec /\ WF_vars(Step)

-----------------------------------------------------------------------------
(* Properties.                                                             *)

Resting == InTree("bids") \cup InTree("asks")
Parked == InTree("stopBids") \cup InTree("stopAsks")
Pending == {fired[i] : i \in DOMAIN fired}
InFlight == Pending \cup ({cur} \ {None})

\* Every variable has its type.
TypeOK ==
  /\ order \in [Ids -> Order]
  /\ tree \in [Ids -> Trees \cup {"out"}]
  /\ ahead \in [Ids -> SUBSET Ids]
  /\ level \in [Trees -> [Prices -> [qty : Word, count : Int]]]
  /\ marketPrice \in Nat
  /\ pc \in Steps
  /\ cur \in Ids \cup {None}
  /\ it \in Ids \cup {None}
  /\ plan \in Seq([id : Ids, qty : Nat])
  /\ planned \in Nat
  /\ fired \in Seq(Ids)
  /\ reply \in Replies

\* A resting order is a limit order that may rest, a parked one a stop, and
\* each has something left to trade: partial fills, planned fills, reductions
\* and reprices leave no filled order behind in the trees.  A caller can, with
\* an overrun: this holds without one (NoOverrun).
ResidentsOpen ==
  /\ \A x \in Resting \cup Parked : order[x].filled < order[x].qty
  /\ \A x \in Resting : order[x].price # 0 /\ ~order[x].ioc
  /\ \A x \in Parked : order[x].stop # 0

\* The orders that a tree holds with nothing to trade.
Starved == {x \in Resting \cup Parked : order[x].filled >= order[x].qty}

\* Each order is in one place: a tree, the list of fired stops (once), or in
\* flight.  Firing, resting, cancelling and repricing move it between them;
\* an order in two places would trade twice.
OnePlace ==
  /\ \A x \in InFlight : tree[x] = "out"
  /\ \A i, j \in DOMAIN fired : fired[i] = fired[j] => i = j
  /\ cur \notin Pending

\* Whatever moves an order between trees, fired list and flight, or shrinks it,
\* leaves it in one place, and in a tree only while it is open and belongs there.
WellPlaced == OnePlace /\ ResidentsOpen

\* The book is never crossed by two regular orders: whatever the mix of
\* all-or-none orders passed over, plans dropped, orders repriced and stops
\* fired, a bid and an ask that overlap include an all-or-none order.
Uncrossed ==
  \A b \in InTree("bids"), a \in InTree("asks") :
    order[b].price >= order[a].price => order[b].aon \/ order[a].aon

\* Between calls no parked stop has its trigger price reached by the market:
\* each move of the market, by trades of any order or by set_market_price, is
\* followed by a look at the stops, repeated until nothing fires.
StopsUntriggered ==
  pc = "idle" => \A x \in Parked : ~Triggered(order[x])

AtLevel(t, k) == {x \in InTree(t) : Key(x) = k}

\* The sum of w over any set of its arguments.
Total(w) ==
  LET Sum[S \in SUBSET DOMAIN w] ==
        IF S = {} THEN 0
        ELSE LET x == CHOOSE x \in S : TRUE IN w[x] + Sum[S \ {x}]
  IN  Sum

\* The aggregates a level carries incrementally (insert, erase, trade and the
\* size change in place each adjust them) are the sums over its orders; depth
\* snapshots and queries are read from them.  This
\* holds without an overrun (NoOverrun).
LevelAggregates ==
  LET open == Total([x \in Ids |-> Open(x)])
  IN \A t \in Trees, k \in Prices :
       LET S == AtLevel(t, k)
       IN level[t][k] = [qty |-> open[S] % WordSize, count |-> Cardinality(S)]

\* An all-or-none order never waits with a partial fill: it is filled whole
\* or not at all, as a maker and as an incoming order whose plan is committed
\* trade by trade.
AllOrNone ==
  /\ \A x \in Resting \cup Parked : order[x].aon => order[x].filled = 0
  /\ pc = "rest" /\ order[cur].aon => order[cur].filled = 0 \/ Open(cur) = 0

\* The makers of a plan stay in the book until they are traded with, at
\* quantities they still have: the commit loop never skips one.  It trades
\* nothing only with a maker that has nothing.
PlanHolds ==
  \A i \in DOMAIN plan :
    /\ tree[plan[i].id] = Opposite
    /\ plan[i].qty \in 0 .. Open(plan[i].id)
    /\ plan[i].qty = 0 => plan[i].id \in Starved
    /\ \A j \in DOMAIN plan : plan[i].id = plan[j].id => i = j

-----------------------------------------------------------------------------
\* The maker a step trades with.
TradedWith(m) == pc \in {"match", "commit"} /\ m \in Resting
                   /\ order'[m] # order[m]

\* Price-time priority: when a maker trades, everyone swept before it on its
\* side is gone or is an all-or-none order larger than what is still wanted.
PriceTimePriority ==
  [][\A m \in Resting : TradedWith(m) =>
       \A c \in InTree(tree[m]) :
         Before(c, m) => order[c].aon /\ Open(c) > Open(cur)]_vars

\* No order trades through its limit: trades happen at the maker's price,
\* which becomes the market price, and that price is within the taker's limit
\* also when the taker committed to it while planning.
TradesWithinLimits ==
  [][\A m \in Resting : TradedWith(m) =>
       /\ Crosses(m)
       /\ tree[m] = Opposite
       /\ marketPrice' = order[m].price
       /\ order'[cur].filled <= order[cur].qty]_vars

\* Every trade is fair to the makers it passes and to both sides' limits.
FairTrades == PriceTimePriority /\ TradesWithinLimits

\* No step but an overrunning replace leaves an order in a tree with nothing to
\* trade: the fills of a sweep and of a plan erase the makers they complete,
\* a reduction to nothing removes the order, and an order that rests is open.
OnlyOverrunsStarve ==
  [][\A x \in Starved' \ Starved :
       \E d \in Deltas, p \in Prices \cup {0} :
         ReplaceInPlace(x, d, p) /\ Overruns(x, d)]_vars

\* No caller replaces an order by an increase in place that leaves nothing of
\* it.  No code checks this.  The adapter of the benchmark never replaces.
NoOverrun ==
  [][\A x \in Ids, d \in Deltas, p \in Prices \cup {0} :
       ReplaceInPlace(x, d, p) => ~Overruns(x, d)]_vars

\* The aggregates of a level change by what its orders have open and by how
\* many they are, step by step and whatever was wrong before.  Only an overrun,
\* and the increase of an order that was overrun, make them differ more.
AggregatesFollow ==
  [][LET open == Total([x \in Ids |-> Open(x)]) IN
     \A t \in Trees, k \in Prices :
       LET S == AtLevel(t, k) IN
       \/ /\ level'[t][k].qty =
               (level[t][k].qty + open'[S'] - open[S]) % WordSize
          /\ level'[t][k].count - level[t][k].count =
               Cardinality(S') - Cardinality(S)
       \/ \E x \in S, d \in Deltas, p \in Prices \cup {0} :
            /\ ReplaceInPlace(x, d, p)
            /\ x \in Starved \/ Overruns(x, d)]_vars

\* What an overrunning replace does to the order and its level is all that goes
\* wrong in the book: no later sweep, plan, cancel or replace adds to it.
OverrunsConfined == OnlyOverrunsStarve /\ AggregatesFollow

\* Time priority survives: an order that stays in its tree never falls behind
\* an order of the tree it was ahead of, whatever is traded, cancelled,
\* inserted or resized around it.
PriorityKept ==
  [][\A x, y \in Ids :
       /\ tree[x] \in Trees /\ tree[y] = tree[x] /\ Before(x, y)
       /\ tree'[x] = tree[x] /\ tree'[y] = tree[y]
       => Before(x, y)']_vars

\* Nothing happens to an order that its owner did not ask for or that the
\* promise of a trade does not cover: every step of the loops
\* is one trade, one trigger, one change or one departure.
Status == [x \in Ids |->
             IF tree[x] \in {"stopBids", "stopAsks"} THEN "parked"
             ELSE IF tree[x] # "out" \/ x \in InFlight THEN "live" ELSE "out"]
Promise == INSTANCE Exchange WITH status <- Status
ImplementsExchange == Promise!Spec

\* Each call returns: the matching loop, the commit of a plan and the cascade
\* of stops that trigger stops all end.
CallReturns == (pc # "idle") ~> (pc = "idle")
=============================================================================
