------------------------------ MODULE LiquiBook ------------------------------
(***************************************************************************)
(* OrderBook of order_book.h, DepthOrderBook of depth_order_book.h and     *)
(* SimpleOrderBook of simple_order_book.h: the liquibook engine that the   *)
(* benchmark compares with babobook.  A call of add, cancel or replace     *)
(* matches first, on the book's own trackers, and queues callbacks; the    *)
(* callbacks then run in order and only they touch the order objects and   *)
(* the depth.  A call is one step: nothing runs between its parts.         *)
(*                                                                         *)
(* What an order was created with is chosen by add; ids are used once.     *)
(***************************************************************************)
EXTENDS LiquiDepth

CONSTANTS
  Ids,            \* order_id_, a 32-bit count of the orders created
  Orders,         \* what an order can be: side, price, qty, stop, aon, ioc
  Replacements,   \* the arguments of replace: delta, price
  MaxQty          \* a bound on what a replacement makes of a quantity

MarketPrice == 0    \* MARKET_ORDER_PRICE, PRICE_UNCHANGED

\* An all-or-none order has a limit price.  One without can meet orders without
\* a price before any trade has given one: create_trade then returns 0 after
\* other trades of the same attempt were made, and the loop of match_aon_order
\* goes on with quantities and iterators that are no longer valid.
ASSUME OrdersAssumption ==
  /\ IsFiniteSet(Ids) /\ Ids \subseteq Nat \ {0}
  /\ MaxQty \in Nat
  /\ Orders \subseteq [side : Sides, price : Nat, qty : Nat, stop : Nat,
                       aon : BOOLEAN, ioc : BOOLEAN]
  /\ \A o \in Orders : o.aon => o.price # MarketPrice
  /\ Replacements \subseteq [delta : Int, price : Nat]

VARIABLES
  order,      \* the order objects: what add was given, and filled and state
  book,       \* trackers on the market: side -> sequence of [id, price, open]
  stops,      \* trackers off the market, priced by their stop price
  market,     \* marketPrice_
  depth,
  told,       \* the listeners the last call notified
  undisturbed \* history: no callback has yet misinformed the depth

vars == <<order, book, stops, market, depth, told, undisturbed>>

\* The loops of the code over a sequence.
Fold(op(_, _), first, seq) ==
  LET after[i \in 0..Len(seq)] == IF i = 0 THEN first ELSE op(after[i - 1], seq[i])
  IN  after[Len(seq)]

Opposite(s) == IF s = "BID" THEN "ASK" ELSE "BID"
OpenQty(o) == IF o.filled < o.qty THEN o.qty - o.filled ELSE 0

\* ComparablePrice: the order of a side's map, and whether a key can trade
\* with a price of the other side.
Before(s, p, q) ==
  IF p = MarketPrice \/ q = MarketPrice THEN p = MarketPrice /\ q # MarketPrice
  ELSE Better(s, p, q)
Matches(s, p, q) ==
  \/ p = q
  \/ s = "BID" /\ (q < p \/ p = MarketPrice)
  \/ s = "ASK" /\ (p < q \/ q = MarketPrice)

\* multimap::emplace: behind the trackers of the same key.
Inserted(s, trackers, t) ==
  InsertAt(trackers, 1 + Cardinality({i \in DOMAIN trackers :
                                        ~Before(s, t.price, trackers[i].price)}), t)

PlaceOf(trackers, id) == CHOOSE i \in DOMAIN trackers : trackers[i].id = id
TrackerOf(trackers, id) == trackers[PlaceOf(trackers, id)]
Without(trackers, id) == RemoveAt(trackers, PlaceOf(trackers, id))
\* A filled tracker left in the map.
MutHolding(trackers, t) ==
  [i \in DOMAIN trackers |-> IF trackers[i].id = t.id THEN t ELSE trackers[i]]
Holding(trackers, t) ==
  IF t.open = 0 THEN Without(trackers, t.id)
  ELSE [i \in DOMAIN trackers |-> IF trackers[i].id = t.id THEN t ELSE trackers[i]]

Callback(type, id) ==
  [type |-> type, order |-> id, matched |-> id, qty |-> 0, price |-> 0,
   delta |-> 0, orderFilled |-> FALSE, matchedFilled |-> FALSE]
CallbackQty(type, id, qty) == [Callback(type, id) EXCEPT !.qty = qty]
FillCallback(in, t, qty, p) ==
  [Callback("fill", in.id) EXCEPT !.matched = t.id, !.qty = qty, !.price = p,
     !.orderFilled = (in.open = qty), !.matchedFilled = (t.open = qty)]
ReplaceCallback(id, qty, delta, p) ==
  [Callback("replace", id) EXCEPT !.qty = qty, !.delta = delta, !.price = p]

----------------------------------------------------------------------------
(* Matching.  m is a call under way: the book, stops and market price it   *)
(* has changed, the callbacks it has queued, the order objects, which it   *)
(* only reads, the pending (triggered) stop orders, and the tracker being  *)
(* matched, with the trackers set aside for it (held) or because of their  *)
(* all-or-none condition (deferred).                                       *)

\* The stops of a side that fire are the first ones.
Fired(s, trackers, p) ==
  Cardinality({i \in DOMAIN trackers : \A j \in 1..i : ~Before(s, p, trackers[j].price)})

CheckStops(m, s, p) ==
  LET n == Fired(s, m.stops[s], p)
  IN  [m EXCEPT !.stops[s] = SubSeq(@, n + 1, Len(@)),
                !.pending = @ \o SubSeq(m.stops[s], 1, n)]

\* m after a change of the market price from old to p.
Repriced(m, old, p) ==
  IF p = old /\ old # MarketPrice THEN m
  ELSE CheckStops(m, IF p > old \/ old = MarketPrice THEN "BID" ELSE "ASK", p)
SetMarketPrice(m, p) == Repriced([m EXCEPT !.market = p], m.market, p)

CrossPrice(m, t) ==
  CASE m.order[t.id].price # MarketPrice    -> m.order[t.id].price
    [] m.order[t.id].price = MarketPrice /\ m.order[m.in.id].price # MarketPrice
                                            -> m.order[m.in.id].price
    [] OTHER                                -> m.market

Traded(m, s, t, qty, p) ==
  IF p = MarketPrice \/ qty = 0 THEN m
  ELSE SetMarketPrice(
         [m EXCEPT !.in.open = @ - qty,
                   !.book[s] = Holding(@, [t EXCEPT !.open = @ - qty]),
                   !.queue = Append(@, FillCallback(m.in, t, qty, p))], p)

\* A trade of the inbound tracker with the tracker of side s; the tracker
\* leaves the book when it is filled.
CreateTrade(m, s, id, maxQty) ==
  LET t == TrackerOf(m.book[s], id)
  IN  Traded(m, s, t, Min({maxQty, m.in.open, t.open}), CrossPrice(m, t))

\* Without the all-or-none condition of the resting order.
MutMatchRegular(m, s, t) == CreateTrade(m, s, t.id, t.open)

\* match_regular_order, at one tracker.
MatchRegular(m, s, t) ==
  IF m.order[t.id].aon /\ t.open > m.in.open
  THEN [m EXCEPT !.deferred = Append(@, t.id)]
  ELSE CreateTrade(m, s, t.id, t.open)

HeldQty(m, s) ==
  Fold(LAMBDA sum, id : sum + TrackerOf(m.book[s], id).open, 0, m.held)

\* What each held tracker would trade, and their sum.
Propose(m, s, maxQty, proposed, id) ==
  LET open == TrackerOf(m.book[s], id).open
      left == maxQty - proposed.found
      qty == IF open <= left THEN open ELSE IF m.order[id].aon THEN 0 ELSE left
  IN  [fills |-> Append(proposed.fills, [id |-> id, qty |-> qty]),
       found |-> proposed.found + qty]
ProposedFills(m, s, maxQty) ==
  Fold(LAMBDA proposed, id : Propose(m, s, maxQty, proposed, id),
       [fills |-> <<>>, found |-> 0], m.held)

TradeHeld(m, s, proposed, minQty) ==
  IF proposed.found < minQty THEN m
  ELSE Fold(LAMBDA n, f : CreateTrade(n, s, f.id, f.qty), m, proposed.fills)

TryDeferred(m, s, maxQty, minQty) ==
  TradeHeld(m, s, ProposedFills(m, s, maxQty), minQty)

\* The tracker itself trades once the held ones have, if that completes the
\* inbound order, which needed need before them.
Complete(m, s, t, need, short, aon) ==
  LET traded == need - m.in.open
  IN  IF IF aon THEN traded = short ELSE need <= t.open + traded
      THEN CreateTrade(m, s, t.id, t.open)
      ELSE m

\* match_aon_order, at one tracker: it, with the held ones, has to complete
\* the inbound order.
MatchAon(m, s, t) ==
  LET need == m.in.open
      aon == m.order[t.id].aon
      short == IF need > t.open THEN need - t.open ELSE 0
  IN  IF aon /\ t.open > need THEN [m EXCEPT !.deferred = Append(@, t.id)]
      ELSE IF need > t.open + HeldQty(m, s) THEN [m EXCEPT !.held = Append(@, t.id)]
      ELSE Complete(TryDeferred(m, s, IF aon THEN short ELSE need, short),
                    s, t, need, short, aon)

Visit(m, s, p, t) ==
  IF ~m.matching \/ m.in.open = 0 THEN m
  ELSE IF ~Matches(s, t.price, p) THEN [m EXCEPT !.matching = FALSE]
  ELSE IF m.order[m.in.id].aon THEN MatchAon(m, s, t)
  ELSE MatchRegular(m, s, t)

MatchOrder(m, s, p) ==
  Fold(LAMBDA n, t : Visit(n, s, p, t),
       [m EXCEPT !.held = <<>>, !.deferred = <<>>, !.matching = TRUE], m.book[s])

Settled(m, s) == [m EXCEPT !.book[s] = Holding(@, m.in)]

\* check_deferred_aons: the all-or-none trackers of side s that the inbound
\* order could not satisfy, against its own side, where it now rests.
Retry(m, s, id) ==
  LET t == TrackerOf(m.book[s], id)
  IN  Settled(MatchOrder([m EXCEPT !.in = t], Opposite(s), t.price), s)
CheckDeferred(m, s) == Fold(LAMBDA n, id : Retry(n, s, id), m, m.deferred)

\* add_order: what is left of the inbound order rests, unless it is
\* immediate-or-cancel; rest is what its own tracker holds afterwards.
Placed(m, t, p) ==
  LET o == m.order[t.id]
      left == m.in.open
      placed == [m EXCEPT !.rest = left,
                          !.book[o.side] =
                            Inserted(o.side, @, [id |-> t.id, price |-> p, open |-> left])]
  IN  IF left = 0 \/ o.ioc THEN [m EXCEPT !.rest = left]
      ELSE CheckDeferred(placed, Opposite(o.side))
AddOrder(m, t, p) ==
  Placed(MatchOrder([m EXCEPT !.in = t], Opposite(m.order[t.id].side), p), t, p)

Submit(m, t) == AddOrder(m, t, m.order[t.id].price)

SubmitRound(m) == Fold(Submit, [m EXCEPT !.pending = <<>>], m.pending)

\* A stop order is triggered once, so as many rounds as stop orders are enough.
SubmitPending(m) ==
  LET most == Len(m.stops["BID"]) + Len(m.stops["ASK"]) + Len(m.pending)
  IN  Fold(LAMBDA n, i : SubmitRound(n), m, [i \in 1..most |-> i])

Queued(m, cb) == [m EXCEPT !.queue = Append(@, cb)]

----------------------------------------------------------------------------
(* Callbacks.  c is the state they change. *)

OnAccept(c, cb, o) ==
  LET d == IF cb.qty = o.qty THEN DepthIgnore(c.depth, o.side, cb.qty)
           ELSE DepthAdd(c.depth, o.side, o.price, o.qty)
  IN  [c EXCEPT !.depth = IF o.price = MarketPrice THEN @ ELSE d,
                !.order[cb.order].state = IF @ = "new" THEN "accepted" ELSE @]

Fill(o, qty) ==
  LET f == [o EXCEPT !.filled = @ + qty]
  IN  [f EXCEPT !.state = IF OpenQty(f) = 0 THEN "complete" ELSE @]

OnFill(c, cb, o) ==
  LET x == c.order[cb.matched]
      d == IF x.price = MarketPrice THEN c.depth
           ELSE DepthFill(c.depth, x.side, x.price, cb.qty, cb.matchedFilled)
  IN  [c EXCEPT !.depth = IF o.price = MarketPrice THEN d
                          ELSE DepthFill(d, o.side, o.price, cb.qty, cb.orderFilled),
                !.order[cb.matched] = Fill(@, cb.qty),
                !.order[cb.order] = Fill(@, cb.qty)]

\* Without cb.order->cancel().
MutOnCancel(c, cb, o) ==
  [c EXCEPT !.depth = IF o.price = MarketPrice THEN @
                      ELSE DepthClose(@, o.side, o.price, cb.qty)]

OnCancel(c, cb, o) ==
  [c EXCEPT !.depth = IF o.price = MarketPrice THEN @
                      ELSE DepthClose(@, o.side, o.price, cb.qty),
            !.order[cb.order].state = IF @ = "complete" THEN @ ELSE "cancelled"]

Revised(o, cb) == [o EXCEPT !.qty = @ + cb.delta, !.price = cb.price]

\* The open quantity of the callback is not used: the depth is given the
\* order's whole quantity.
OnReplace(c, cb, o) ==
  [c EXCEPT !.depth = DepthReplace(@, o.side, o.price, cb.price, o.qty, o.qty + cb.delta),
            !.order[cb.order] = IF @.state # "accepted" THEN @ ELSE Revised(@, cb)]

OnBookUpdate(c) ==
  [c EXCEPT !.told = @ \union Told(c.depth),
            !.depth = IF c.depth.changed THEN Published(@) ELSE @]

\* The callbacks that give the depth a quantity that is not the order's open
\* quantity on the market: the accept of an order parked as a stop, the cancel
\* with quantity 0 of an immediate-or-cancel rest at a level with other orders,
\* a new price for an order that has traded, and any replacement of a market
\* order, which has no level.
Misinforms(m, c, cb, o) ==
  LET at == {i \in 1..Size : c.depth.visible[o.side][i].price = o.price}
      level == {c.depth.visible[o.side][i] : i \in at}
                 \union ExcessAt(c.depth, o.side, o.price)
  IN  \/ cb.type = "accept" /\ o.price # MarketPrice /\ m.parked
      \/ cb.type = "cancel" /\ o.ioc /\ \E l \in level : l.count > 1
      \/ cb.type = "replace" /\ o.price = MarketPrice
      \/ cb.type = "replace" /\ o.price # cb.price /\ o.filled > 0

\* callback_now and perform_callback; after a lost depth nothing is described.
Handle(m, c, cb) ==
  LET o == c.order[cb.order]
      n == [c EXCEPT !.undisturbed = @ /\ ~Misinforms(m, c, cb, o)]
  IN  IF c.depth.lost THEN c
      ELSE CASE cb.type = "accept"  -> OnAccept(n, cb, o)
             [] cb.type = "fill"    -> OnFill(n, cb, o)
             [] cb.type = "cancel"  -> OnCancel(n, cb, o)
             [] cb.type = "replace" -> OnReplace(n, cb, o)
             [] cb.type = "update"  -> OnBookUpdate(n)
             [] OTHER -> n
Perform(m) ==
  Fold(LAMBDA c, cb : Handle(m, c, cb),
       [order |-> m.order, depth |-> depth, told |-> {}, undisturbed |-> undisturbed],
       m.queue)

----------------------------------------------------------------------------
(* The calls, of the application that owns the book *)

NoTracker == [id |-> 0, price |-> 0, open |-> 0]
Started(orders) ==
  [order |-> orders, book |-> book, stops |-> stops, market |-> market,
   queue |-> <<>>, pending |-> <<>>, in |-> NoTracker, held |-> <<>>,
   deferred |-> <<>>, matching |-> FALSE, rest |-> 0, parked |-> FALSE]

Finish(m) ==
  /\ book' = m.book
  /\ stops' = m.stops
  /\ market' = m.market
  /\ \E c \in {Perform(m)} :
       /\ order' = c.order
       /\ depth' = c.depth
       /\ told' = c.told
       /\ undisturbed' = c.undisturbed

\* add's accept callback is queued first and told the filled quantity later.
Accepted(m, o) == [m EXCEPT !.queue[1].qty = o.qty - m.rest]

Parked(m, t, o) ==
  [m EXCEPT !.parked = TRUE,
            !.stops[o.side] = Inserted(o.side, @, [t EXCEPT !.price = o.stop])]

\* What is left of an immediate-or-cancel order is cancelled, with quantity 0.
Entered(m, o, id) ==
  IF o.ioc /\ m.rest > 0 THEN Queued(Accepted(m, o), CallbackQty("cancel", id, 0))
  ELSE Accepted(m, o)

Added(m, id) ==
  LET o == m.order[id]
      t == [id |-> id, price |-> o.price, open |-> o.qty]
      first == Queued(m, Callback("accept", id))
      put == IF o.stop # 0 /\ Before(o.side, o.stop, m.market) THEN Parked(first, t, o)
             ELSE Entered(Submit(first, t), o, id)
  IN  IF o.qty = 0 THEN Queued(m, Callback("reject", id))
      ELSE Queued(SubmitPending(put), Callback("update", id))

Born(o) ==
  [side |-> o.side, price |-> o.price, qty |-> o.qty, stop |-> o.stop, aon |-> o.aon,
   ioc |-> o.ioc, filled |-> 0, state |-> "new"]

Unborn == {id \in Ids : order[id].state = "unused"}

Add(id) ==
  /\ ~depth.lost
  /\ id \in Unborn /\ \A other \in Unborn : id <= other
  /\ \E o \in Orders :
       \E orders \in {[order EXCEPT ![id] = Born(o)]} :
         \E m \in {Added(Started(orders), id)} : Finish(m)

\* find_on_market: by the price the order object has.
OnMarket(m, id) ==
  \E i \in DOMAIN m.book[m.order[id].side] :
    LET t == m.book[m.order[id].side][i]
    IN  t.id = id /\ t.price = m.order[id].price

Cancelled(m, id) ==
  LET s == m.order[id].side
      open == TrackerOf(m.book[s], id).open
  IN  IF ~OnMarket(m, id) THEN Queued(m, Callback("cancelReject", id))
      ELSE Queued(Queued([m EXCEPT !.book[s] = Without(@, id)],
                         CallbackQty("cancel", id, open)),
                  Callback("update", id))

Cancel(id) ==
  /\ ~depth.lost
  /\ id \notin Unborn
  /\ \E m \in {Cancelled(Started(order), id)} : Finish(m)

\* A tracker on the market is open, so a reduction always has something to take.
Replaced(m, id, r) ==
  LET o == m.order[id]
      p == IF r.price = MarketPrice THEN o.price ELSE r.price
      t == TrackerOf(m.book[o.side], id)
      delta == IF r.delta < 0 /\ t.open < -r.delta THEN -t.open ELSE r.delta
      taken == Queued([m EXCEPT !.book[o.side] = Without(@, id)],
                      ReplaceCallback(id, t.open, delta, p))
      put == IF t.open + delta = 0 THEN Queued(taken, CallbackQty("cancel", id, 0))
             ELSE AddOrder(taken, [t EXCEPT !.open = @ + delta], p)
  IN  IF ~OnMarket(m, id) THEN Queued(m, Callback("replaceReject", id))
      ELSE Queued(SubmitPending(put), Callback("update", id))

Replace(id) ==
  /\ ~depth.lost
  /\ id \notin Unborn
  /\ \E r \in {r \in Replacements : order[id].qty + r.delta <= MaxQty} :
       \E m \in {Replaced(Started(order), id, r)} : Finish(m)

Unused == [side |-> "BID", price |-> 0, qty |-> 0, stop |-> 0, aon |-> FALSE,
           ioc |-> FALSE, filled |-> 0, state |-> "unused"]

Init ==
  /\ order = [id \in Ids |-> Unused]
  /\ book = [s \in Sides |-> <<>>]
  /\ stops = [s \in Sides |-> <<>>]
  /\ market = MarketPrice
  /\ depth = EmptyDepth
  /\ told = {}
  /\ undisturbed = TRUE

Next == \E id \in Ids : Add(id) \/ Cancel(id) \/ Replace(id)

Spec == Init /\ [][Next]_vars

----------------------------------------------------------------------------
(* Properties *)

States == {"unused", "new", "accepted", "complete", "cancelled"}

\* Every variable has its type; a tracker never holds more than its order.
TypeOK ==
  /\ \A id \in Ids : /\ order[id].state \in States
                     /\ order[id].filled \in Nat /\ order[id].filled <= order[id].qty
  /\ \A s \in Sides : \A t \in Range(book[s]) \union Range(stops[s]) :
       t.id \in Ids /\ order[t.id].side = s /\ t.open \in 1..order[t.id].qty
  /\ market \in Nat
  /\ told \subseteq {"depth", "bbo"}
  /\ undisturbed \in BOOLEAN

\* The levels of a side by what its trackers hold.
OnLevel(s, p) == {i \in DOMAIN book[s] : book[s][i].price = p}
OpenOn(s, p) ==
  Fold(LAMBDA sum, t : IF t.price = p THEN sum + t.open ELSE sum, 0, book[s])
Aggregate(s) ==
  {[price |-> p, count |-> Cardinality(OnLevel(s, p)), qty |-> OpenOn(s, p)]
     : p \in {t.price : t \in Range(book[s])} \ {MarketPrice}}

Shown(l) == [price |-> l.price, count |-> l.count, qty |-> l.qty]
ShownVisible(s) == [i \in 1..Size |-> Shown(depth.visible[s][i])]
ShownExcess(s) == {Shown(l) : l \in depth.excess[s]}

\* "A single level of the limit order book aggregated by price": visible levels
\* and excess are the levels of the book's trackers, with their number and open
\* quantity; the visible ones are the best, from the best one on, and only what
\* does not fit is excess.
DepthIsBook ==
  \A s \in Sides :
    LET visible == ShownVisible(s)
        used == {i \in 1..Size : visible[i] # Shown(Blank)}
    IN  /\ {visible[i] : i \in used} \union ShownExcess(s) = Aggregate(s)
        /\ \A i \in 1..Size, j \in used :
             i < j => i \in used /\ Better(s, visible[i].price, visible[j].price)
        /\ \A l \in ShownExcess(s), i \in 1..Size :
             i \in used /\ Better(s, visible[i].price, l.price)

\* The depth is built from callbacks alone, after the matching, with ignored
\* fills, levels spilt to the excess and restored from it: it is the book's, up
\* to the first callback that misinforms it, and until then nothing is lost.
DepthExact == undisturbed => ~depth.lost /\ DepthIsBook

Ready(id) == order[id].state = "accepted" /\ ~(order[id].ioc /\ order[id].stop # 0)
Holders(id) == {t \in Range(book[order[id].side]) : t.id = id}
Waiting(id) == {t \in Range(stops[order[id].side]) : t.id = id}

\* The book's trackers and the order objects, which callbacks update later, say
\* the same between calls: price, open quantity and state; and an accepted order
\* is on the market or waits as a stop, in one place.  (An immediate-or-cancel
\* order triggered as a stop keeps the state accepted when its rest is dropped.)
InStep ==
  ~depth.lost =>
    \A id \in Ids :
      /\ \A t \in Holders(id) : /\ t.price = order[id].price
                                /\ t.open = OpenQty(order[id])
                                /\ order[id].state = "accepted"
      /\ Ready(id) => Cardinality(Holders(id) \union Waiting(id)) = 1

\* An all-or-none order trades whole or not at all, whether it comes in, rests,
\* is held for a larger one, or is deferred until enough comes in.
AonWhole ==
  ~depth.lost =>
    \A id \in Ids : order[id].aon => order[id].filled \in {0, order[id].qty}

\* Who is told: a call that changes a visible level notifies the depth listener,
\* and one that changes the best bid or ask the listener of the best prices; a
\* level that moves up or down counts as changed.
NotifiesChange ==
  [][~depth'.lost =>
       \A s \in Sides :
         /\ (ShownVisible(s))' # ShownVisible(s) => "depth" \in told'
         /\ (Shown(depth.visible[s][1]))' # Shown(depth.visible[s][1]) => "bbo" \in told']_vars
=============================================================================
