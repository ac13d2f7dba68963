------------------------------- MODULE Engines -------------------------------
(***************************************************************************)
(* The two engines the benchmark compares, behind their adapters, fed with *)
(* the same messages: babobook (babobook_adapter.cpp over MatchingBook) in *)
(* the steps of its matching loop, liquibook (liquibook_adapter.cpp over   *)
(* LiquiBook) one library call per step.  The sequence number of a report  *)
(* is that of the message it answers, so the reports of one message are    *)
(* kept, and compared as correctness.cpp writes them down.                 *)
(*                                                                         *)
(* The messages are those of the generator: an order is new once, and has  *)
(* a price and a quantity; a cancel or modify can come at any time, again, *)
(* and for an order not seen yet.                                          *)
(***************************************************************************)
EXTENDS MatchingBook, SequencesExt

CONSTANTS
  Size,       \* the visible levels of liquibook's depth
  LoIds,      \* the SimpleOrders liquibook can be given: a bound
  News,       \* the orders the workload brings
  Reorders    \* what a modify asks for: a price and a quantity

\* An order as the adapters make it.
Plain(buy, price, qty, ioc) ==
  [buy |-> buy, price |-> price, stop |-> 0, qty |-> qty, filled |-> 0,
   aon |-> FALSE, ioc |-> ioc]

ASSUME EnginesAssumption ==
  /\ News \subseteq NewOrders
  /\ \A o \in News : o.stop = 0 /\ ~o.aon /\ o.filled = 0 /\ o.qty # 0
  /\ \A r \in Reorders, b \in BOOLEAN :
       r.qty # 0 /\ Plain(b, r.price, r.qty, FALSE) \in NewOrders

VARIABLES
  lo, lbook, lstops, lmarket, ldepth, ltold, lexact,   \* liquibook
  loOf,       \* g_orders: the order's SimpleOrder, 0 when never seen
  extOf,      \* g_lb2ext: the other way round
  message,    \* the message being handled
  phase,      \* "idle", "reinsert" (a modify has cancelled) or "adding"
  found,      \* the engines in which a modify found its order
  babo, liqui \* the reports of the message

liquiVars == <<lo, lbook, lstops, lmarket, ldepth, ltold, lexact>>
adapterVars == <<loOf, extOf, message, phase, found, babo, liqui>>
engineVars == <<vars, liquiVars, adapterVars>>

Lib == INSTANCE LiquiBook WITH
  Ids <- LoIds, Orders <- {}, Replacements <- {}, MaxQty <- 0,
  order <- lo, book <- lbook, stops <- lstops, market <- lmarket,
  depth <- ldepth, told <- ltold, undisturbed <- lexact

NoId == 0
NoMessage == [kind |-> "none", id |-> NoId, buy |-> FALSE, price |-> 0, qty |-> 0,
              ioc |-> FALSE]

----------------------------------------------------------------------------
(* Reports *)

Kinds == <<"OrderAck", "Trade", "CancelAck", "ModifyAck", "CancelReject", "ModifyReject">>

Report(type, id, buy, price, qty) ==
  [type |-> type, id |-> id, buy |-> buy, price |-> price, qty |-> qty, maker |-> id]
Reject(type, id) == Report(type, id, TRUE, 0, 0)

\* The books hand over the cost of a fill, a 32-bit product; the adapters
\* divide the quantity back out.
MutFillReport(taker, maker, price, qty) ==
  [Report("Trade", taker, TRUE, (price * qty) % WordSize, qty) EXCEPT !.maker = maker]
FillReport(taker, maker, price, qty) ==
  [Report("Trade", taker, TRUE, ((price * qty) % WordSize) \div qty, qty)
     EXCEPT !.maker = maker]

QtyOf(type, reports) ==
  FoldLeft(LAMBDA sum, r : sum + r.qty, 0, SelectSeq(reports, LAMBDA r : r.type = type))
FilledBy(reports) == QtyOf("Trade", reports)    \* g_filled

\* The residual of an immediate-or-cancel order.
Residual(m, reports) ==
  IF m.ioc /\ FilledBy(reports) < m.qty
  THEN <<Report("CancelAck", m.id, m.buy, m.price, m.qty - FilledBy(reports))>>
  ELSE <<>>

\* What the adapters emit around the call of add.
OrderAck(m) == Report("OrderAck", m.id, m.buy, m.price, m.qty)
ModifyAck(m) == Report("ModifyAck", m.id, m.buy, m.price, m.qty)
Opening(m) == IF m.kind = "new" THEN <<OrderAck(m)>> ELSE <<>>
Closing(m, reports) == IF m.kind = "new" THEN Residual(m, reports) ELSE <<ModifyAck(m)>>

\* build_canonical_text: sorted by type, otherwise in the order they came, and
\* without the quantity of a cancel.
Line(r) == IF r.type = "CancelAck" THEN [r EXCEPT !.qty = 0] ELSE r
Canonical(reports) ==
  FoldLeft(LAMBDA text, type :
             text \o SelectSeq([i \in DOMAIN reports |-> Line(reports[i])],
                               LAMBDA r : r.type = type),
           <<>>, Kinds)

----------------------------------------------------------------------------
(* The liquibook adapter *)

OrderOf(m) ==
  [side |-> IF m.buy THEN "BID" ELSE "ASK", price |-> m.price, qty |-> m.qty,
   stop |-> 0, aon |-> FALSE, ioc |-> m.ioc, filled |-> 0, state |-> "new"]

LiquiFills(m) ==
  LET fills == SelectSeq(m.queue, LAMBDA cb : cb.type = "fill")
  IN  [i \in DOMAIN fills |->
         FillReport(extOf'[fills[i].order], extOf'[fills[i].matched],
                    fills[i].price, fills[i].qty)]

MutLoResting(id) == loOf[id] # NoId /\ lo[loOf[id]].state = "accepted"
                      /\ lo[loOf[id]].filled = 0
LoResting(id) == loOf[id] # NoId /\ lo[loOf[id]].state = "accepted"
                   /\ Lib!OpenQty(lo[loOf[id]]) > 0

\* make_order, map_lb_id and add: the order gets the next liquibook id.
LiquiAdd(m) ==
  \E x \in Lib!Unborn :
    /\ \A y \in Lib!Unborn : x <= y
    /\ loOf' = [loOf EXCEPT ![m.id] = x]
    /\ extOf' = [extOf EXCEPT ![x] = m.id]
    /\ \E c \in {Lib!Added(Lib!Started([lo EXCEPT ![x] = OrderOf(m)]), x)} :
         /\ Lib!Finish(c)
         /\ \E rs \in {Opening(m) \o LiquiFills(c)} : liqui' = rs \o Closing(m, rs)

LiquiCancel(id) ==
  \E c \in {Lib!Cancelled(Lib!Started(lo), loOf[id])} : Lib!Finish(c)

----------------------------------------------------------------------------
(* The babobook adapter *)

BaboResting(id) == tree[id] \in {"bids", "asks"}

BookOrder(m) == Plain(m.buy, m.price, m.qty, m.ioc)

----------------------------------------------------------------------------
(* Messages: engine_on_new_order, engine_on_cancel, engine_on_modify *)

OnNew(id, o) ==
  LET m == [kind |-> "new", id |-> id, buy |-> o.buy, price |-> o.price,
            qty |-> o.qty, ioc |-> o.ioc]
  IN  /\ phase = "idle"
      /\ loOf[id] = NoId
      /\ AddSubmit(id, BookOrder(m))
      /\ babo' = Opening(m)
      /\ LiquiAdd(m)
      /\ message' = m
      /\ phase' = "adding"
      /\ UNCHANGED found

OnCancel(id) ==
  /\ phase = "idle"
  /\ IF BaboResting(id)
     THEN /\ Cancel(id)
          /\ babo' = <<Report("CancelAck", id, tree[id] = "bids", order[id].price, 0)>>
     ELSE /\ UNCHANGED vars
          /\ babo' = <<Reject("CancelReject", id)>>
  /\ IF LoResting(id)
     THEN /\ LiquiCancel(id)
          /\ liqui' = <<Report("CancelAck", id, lo[loOf[id]].side = "BID",
                               lo[loOf[id]].price, 0)>>
     ELSE /\ UNCHANGED liquiVars
          /\ liqui' = <<Reject("CancelReject", id)>>
  /\ message' = [NoMessage EXCEPT !.kind = "cancel", !.id = id]
  /\ UNCHANGED <<loOf, extOf, phase, found>>

\* A modify cancels the resting order and adds another under its id.  The side
\* of the message is that of the order.
OnModify(id, o) ==
  /\ phase = "idle"
  /\ IF BaboResting(id)
     THEN Cancel(id) /\ babo' = <<>>
     ELSE UNCHANGED vars /\ babo' = <<Reject("ModifyReject", id)>>
  /\ IF LoResting(id)
     THEN Lib!Unborn # {} /\ LiquiCancel(id) /\ liqui' = <<>>
     ELSE UNCHANGED liquiVars /\ liqui' = <<Reject("ModifyReject", id)>>
  /\ message' = [kind |-> "modify", id |-> id,
                 buy |-> loOf[id] # NoId /\ lo[loOf[id]].side = "BID",
                 price |-> o.price, qty |-> o.qty, ioc |-> FALSE]
  /\ found' = [babo |-> BaboResting(id), liqui |-> LoResting(id)]
  /\ phase' = IF BaboResting(id) \/ LoResting(id) THEN "reinsert" ELSE "idle"
  /\ UNCHANGED <<loOf, extOf>>

Reinsert ==
  /\ phase = "reinsert"
  /\ IF found.babo THEN AddSubmit(message.id, BookOrder(message)) ELSE UNCHANGED vars
  /\ IF found.liqui THEN LiquiAdd(message)
     ELSE UNCHANGED <<liquiVars, loOf, extOf, liqui>>
  /\ phase' = "adding"
  /\ UNCHANGED <<message, found, babo>>

\* babobook's on_fill, and the other steps of its loop.
Fill ==
  /\ MatchTrade
  /\ babo' = Append(babo, FillReport(cur, it, order[it].price,
                                     Smaller(Open(cur), Open(it))))
  /\ UNCHANGED <<liquiVars, loOf, extOf, message, phase, found, liqui>>

Continues ==
  /\ Submit \/ MatchEnd \/ Rest \/ Discard \/ BidsScanned \/ AsksScanned
  /\ UNCHANGED <<liquiVars, adapterVars>>

\* babobook's call has returned.
Answer ==
  /\ phase = "adding"
  /\ pc = "idle"
  /\ babo' = IF message.kind = "new" \/ found.babo
              THEN babo \o Closing(message, babo) ELSE babo
  /\ phase' = "idle"
  /\ UNCHANGED <<vars, liquiVars, loOf, extOf, message, found, liqui>>

EnginesInit ==
  /\ Init
  /\ Lib!Init
  /\ loOf = [id \in Ids |-> NoId]
  /\ extOf = [x \in LoIds |-> None]
  /\ message = NoMessage
  /\ phase = "idle"
  /\ found = [babo |-> FALSE, liqui |-> FALSE]
  /\ babo = <<>>
  /\ liqui = <<>>

EnginesNext ==
  \/ \E id \in Ids, o \in News : OnNew(id, o)
  \/ \E id \in Ids : OnCancel(id)
  \/ \E id \in Ids, o \in Reorders : OnModify(id, o)
  \/ Reinsert
  \/ Fill
  \/ Continues
  \/ Answer

EnginesSpec == EnginesInit /\ [][EnginesNext]_engineVars

----------------------------------------------------------------------------
(* Properties *)

\* The quantity of a new or modified order is accounted for by the reports:
\* what it traded, the residual that was cancelled, and what rests.
FillsAddUp ==
  phase = "idle" /\ message.kind \in {"new", "modify"} /\ Head(babo).type # "ModifyReject" =>
    message.qty = QtyOf("Trade", babo) + QtyOf("CancelAck", babo) + Open(message.id)

\* The engines answer every message with the same canonical reports: the same
\* acks and rejects and the same trades, in the same order, at the same prices,
\* although one matches tracker by tracker over a multimap and answers through
\* callbacks, and the other sweeps a tree.  No callback of liquibook throws, and
\* the quantities of the reports add up.  The published hash of a workload
\* stands on this.
EnginesAgree ==
  /\ phase = "idle" => Canonical(babo) = Canonical(liqui) /\ ~ldepth.lost
  /\ FillsAddUp

\* engine_query_best_bid, best_ask and depth_at of the two adapters.
BaboBest(t) ==
  {p \in Prices : /\ level[t][p].count > 0
                  /\ \A q \in Prices : level[t][q].count > 0 => ~Better(t, q, p)}
LiquiBest(s) == IF lbook[s] = <<>> THEN {} ELSE {Head(lbook[s]).price}

BaboDepthAt(t, p) ==
  FoldFunctionOnSet(+, 0, [x \in Ids |-> Open(x)], {x \in InTree(t) : order[x].price = p})
LiquiDepthAt(s, p) ==
  FoldLeft(LAMBDA sum, t : sum + t.open, 0, SelectSeq(lbook[s], LAMBDA t : t.price = p))

\* Between messages an audit's queries have one answer: best prices and the
\* open quantity at every price, computed from level records and trees in one
\* engine and from trackers in the other.
QueriesAgree ==
  phase = "idle" =>
    \A st \in {<<"BID", "bids">>, <<"ASK", "asks">>} :
      /\ LiquiBest(st[1]) = BaboBest(st[2])
      /\ \A p \in Prices : LiquiDepthAt(st[1], p) = BaboDepthAt(st[2], p)

\* A trade is reported at the limit price of its maker, and exactly as long as
\* price times quantity fits in 32 bits: past that the division gives a lower
\* price, in both engines alike, and the comparison cannot show it.
PricesExact ==
  [][Len(babo') = Len(babo) + 1 /\ Last(babo').type = "Trade" =>
       LET r == Last(babo')
           limit == order[r.maker].price
       IN  r.price = limit <=> limit * r.qty < WordSize]_engineVars
=============================================================================
