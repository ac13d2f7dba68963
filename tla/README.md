# A verification model of the babo matching engine

TLA+ modules, TLC configurations and TLAPS proofs for the order book in
`src/libs/babobook`, the liquibook order book it is compared with
(`src/libs/liquibook`), and the benchmark that drives both in `src/benchmark`.
Paths below are relative to `src/`; `MB` stands for
`libs/babobook/include/book/matching_book.h`, `OB` for
`libs/liquibook/include/book/order_book.h`.

## 1. The system

### Components, their state, their operations

| component | state | operations | interacts with |
|---|---|---|---|
| matching book (`MB`, `simple_order.h`) | four trees (`bids_`, `asks_`, `stopBids_`, `stopAsks_`), `marketPrice_`, the order being submitted, the plan of an all-or-none order, the list of fired stops | `add`, `cancel`, `replace`, `set_market_price`; inside them `submit`, `match_regular_incoming`, `match_aon_incoming`, `process_triggered` | calls its trees; reports every accept, reject, trade, cancel and replace through synchronous listener callbacks (`order_listener.h`) |
| `narb_tree` | a red-black tree of price levels, a global chain of nodes holding the orders in priority order, an id index, best/worst pointers | `insert`, `erase`, iteration, level queries, quantity adjustments | allocates nodes and level descriptors from the memory pool |
| `pin_node` | slots for orders (64 unless `BABO_PIN_CAPACITY` says otherwise), an in-node order of the occupied ones, a free list | `alloc`, `free_slot`, `link_front`, `link_back`, `splice_after`, `erase` | owned by `narb_tree` |
| memory pool | chunks and a free list per type, shared by the process | `create`, `destroy`, `destroyAll` | used by every tree |
| depth snapshot | none | `depth()` copies the best levels on demand | reads the level aggregates; only tests and the example call it |
| liquibook order book (`OB`, `depth_order_book.h`, `simple_order*.h`) | trackers on the market and waiting stops, each in a multimap by price; `marketPrice_`; pending (triggered) stops; the queue of callbacks | `add`, `cancel`, `replace`; inside them `submit_order`, `match_order`, `match_regular_order`, `match_aon_order`, `try_create_deferred_trades`, `check_deferred_aons`, `check_stop_orders`, `submit_pending_orders` | matches first and queues callbacks; `callback_now` then applies them to the order objects, the depth and the listeners |
| liquibook depth (`depth.h`, `depth_level.h`) | a fixed number of visible levels per side, an excess map, two counters of fills to ignore, change ids | `add_order`, `fill_order`, `close_order`, `change_qty_order`, `replace_order`, `ignore_fill_qty` | is told of every order event by `DepthOrderBook` and never looks at the book |
| liquibook adapter (`benchmark/adapters/liquibook_adapter.cpp`) | the book, the maps between external and liquibook ids | the same entry points as babobook's | turns listener callbacks into reports |
| babobook adapter (`benchmark/adapters/babobook_adapter.cpp`) | the book, sequence counters, the report buffer | `on_new_order`, `on_cancel`, `on_modify`, `on_batch`, queries | turns callbacks into reports pushed on the transport |
| report transport and drainer (`benchmark/src/transport.cpp`, `harness.cpp:164-208`) | a bounded single-producer queue, a stop flag, the drained reports | `push`, `drainer_main` | engine thread to drainer thread |
| harness (`harness.cpp`) | the message stream, probe positions, the watchdog | prebuild, batch or per-message dispatch, probes, flush, stop | drives the adapter |
| state audit, canonical hash (`audit.cpp`, `correctness.cpp`) | a reference book; the sorted reports | replay and compare; sort and hash | reads the drained reports |
| watchdog (`platform.hpp:112-138`) | deadline, done flag | arm, cancel, time out | guards the harness |
| workload generator (`workload/generator.cpp`) | none between calls | `generate`: draws orders with the times of their cancels and modifies, and sorts all of them, stably, by time | produces the stream, a pure function of its seed |

### What is hard here

The babobook is sequential, but every public call is a loop nest that calls back
into its owner, mutates the container it iterates over and can restart itself:
a trade moves the market price, which fires stops, which trade. The hard
questions are about states in the middle of a call, which unit tests of
call results hardly see. Liquibook has the opposite difficulty: three views of
one market (trackers, order objects, depth) are updated at different moments of
a call, the last two from callbacks that carry only a few numbers. The
benchmark has real concurrency: the engine thread, the drainer and the watchdog,
with a bounded queue and a shutdown protocol; and its result rests on two
unlike engines answering every message alike. The list of hazards, each at its
line, is in `PROJECT.json`.

### What makes each component correct

- matching book: no crossed regular orders, price-time priority, limits
  respected, all-or-none orders whole, triggered stops never parked, an order in
  one place only, aggregates that follow their orders, every call returns.
- `narb_tree` and `pin_node`: the chain lists exactly the orders of the index,
  in key and arrival order, whatever is moved to make room; the tree is
  balanced; slots are conserved.
- memory pool: a chunk has one owner; what is free and what is held are
  together what was used.
- liquibook: trackers, order objects and depth say the same between calls,
  all-or-none orders are whole, listeners hear of every visible change.
- transport: every report pushed is drained once and in order, and the shutdown
  ends.
- adapters and harness: the same canonical reports from both engines, priced at
  the maker's price, the same answers to an audit's queries, probes at the same
  message in both dispatch modes.

## 2. Plan

1. `Exchange`, `MatchingBook`, their runs. **Done.**
2. The inductive invariant of the book and the theorems from it; the
   refinement of `Exchange`. **Done.**
3. Report transport, drainer, shutdown and watchdog, refining a reliable
   ordered channel, with liveness; both delivery modes, the probes and the
   audit. **Done.**
4. `pin_node` and the chain of `narb_tree` (slots, level ends, make-room moves,
   id index) refining the priority list that `MatchingBook` assumes; the
   red-black tree with its threads, which finds the levels, refining a sorted
   list of prices; the memory pool under both. **Done.**
5. Liquibook's order book with the depth it maintains; both adapters over both
   books, fed with the same messages, and the canonical report order. **Done.**
6. Proofs below the book: the level aggregates; the chain, its invariant, its
   walks and the refinement of the priority list. **Done.**
7. The red-black tree: its invariant through every pass of its loops, its threads,
   searches and walk, the end of its loops and the refinement of the sorted
   list. **Done.**
8. Liquibook's book: its types, trackers in step with order objects, all-or-none
   orders whole, through everything one call can do. **Done.**
9. Liquibook's depth: that it is the book while no callback misinforms it, and that
   listeners hear of what changes. **Done.**
10. Left: a proof about the agreement of the two engines, which needs invariants that
   relate a point in a loop of one book to one in a fold of the other.

## 3. Modules

### Exchange

The promise of a book to the owners of its orders, without data structures or
matching order: `Enter`, `Trigger`, `Trade`, `Change`, `Leave`, `Quote`.
A trade takes a live buyer and a live seller, a quantity both still have and
the limit price of one of them, acceptable to both. `Overrun` and `Expire` are what
it says of an owner who asks for more than a word holds: the order has nothing left
to trade, and goes, at its price, when a call meets it.

### MatchingBook

The core, with one action per loop iteration: a trade, the callback it makes
and the erasure of a filled maker are one step. A call is accepted when the
book is idle; `pc` says where it is.

| code | here |
|---|---|
| `add` (MB:33) | `AddReject`, `AddPark`, `AddSubmit` |
| `cancel`, `cancel_side` (MB:51) | `Cancel`, `CancelReject` |
| `replace` (MB:70) | `ReplaceReject`, `ReplaceCollapse`, `ReplaceInPlace`, `ReplaceReprice` |
| `set_market_price` (MB:115) | `SetMarketPrice` |
| `submit`, `match_against` (MB:134, 175) | `Submit`, then `Rest` or `Discard` |
| `match_regular_incoming` (MB:182) | `MatchTrade`, `MatchSkip`, `MatchEnd` |
| `match_aon_incoming` (MB:202) | `PlanVisit`, `PlanEnd`, `Commit`, `CommitEnd` |
| `process_triggered` (MB:257) | `FireBid`, `BidsScanned`, `FireAsk`, `AsksScanned`, `Continue` |

A tree is modelled by what `narb_tree` gives its user: `tree[x]` says which
tree holds an order, `ahead[x]` who arrived before it in its level, `level`
the aggregates that are adjusted incrementally (in `Insert`, `Erase`, `Trade`
and `ReplaceInPlace`) modulo the width of `std::uint32_t`. Sweeps run with the
iterator `it` as in the code, which advances before the maker is erased.
Quantities are words: `Modified` wraps around below zero and past the largest
word as `SimpleOrder::modify` does, and nothing in `replace` looks at the result of
an increase. Ids come from the caller and may be used again
when their order is gone, which is what a caller that keeps live ids unique
does.

An increase in place that wraps around to no more than the fills is called an
overrun (`Overruns`). The order keeps its place in its tree with nothing to trade
(it is in `Starved`), while its level gains the increase. A sweep that reaches it
trades it for 0, which calls back, sets the market price to its price and erases it;
a plan takes it for 0. An increase together with a new price can wrap around too: the
order is then submitted with less than it had, or dropped. `simple_order.h:186` adds a
signed delta to the quantity as a signed number, where a sum past 2^31 is undefined in
C++; what the builds do is wrap around, and the model takes that. No
code and no test keeps a caller from an overrun, so it is an action
like any other here. `NoOverrun` is the assumption that no caller makes one,
and a theorem that needs it has it as a premise. The benchmark's adapter never replaces
an order, so behind it the assumption is a consequence (`AdapterKeepsLevels`).

Left out: `depth()` and `reserve()`, `filled_cost_` and the `state_` field of an
order, which decide nothing in the book, and the wording of callbacks. The
accumulated open quantity of one level is assumed to be visible only modulo
2^32, as it is in the code.

### MatchingBookInv

The inductive invariant `IInv`. `Uncrossed`, for instance, is not inductive: an
order that rests is uncrossed only because its sweep passed everyone. So `IInv`
says how far each loop has come: `MatchSweep` (everyone behind the iterator is
an all-or-none order that is too large), `SweepDone`, `Planned` (a plan is in
sweep order, its running totals are within what the order wants, each entry
is possible, takes less than its maker has only if it completes the order and
nothing only if its maker has nothing, and whoever was passed over did not fit at
that point), `ScannedBids` (no buy
stop triggered while the sell stops are scanned), `FlightOpen`, and about the
data `Arrival` (arrival is a strict total order inside each level), `Sides` and
`Residents` (who may wait where: it says of stops that they are open, and of resting
orders only that they have a price and are not IOC, because a caller may overrun one).
TLC checks nothing here that the proofs do not; `IInv` was model-checked on small
instances of the book before it was proved.

### MatchingBookProofs

The proofs. They assume only `ConstantsAssumption` of `MatchingBook`: prices
are positive, a word holds at least 0, quantities fit in a word, and the orders that
enter have nothing filled. Deltas are any integers.

- `Inductive` (`Spec => []IInv`), with one lemma per action; from it
  `TypeCorrect`, `InOnePlace`, `NeverCrossed`, `StopsWait`, `WholeOrNothing`.
- `StarvedByOverrun`: no step but an overrun leaves an order in a tree with nothing to
  trade. So without one (`NoOverrun`) every order there is open: `OnlyOpenResidents`, and with
  `InOnePlace` `StaysWellPlaced`.
- `PlansHold` and the action properties `PriorityRespected`, `LimitsRespected`,
  `PriorityNeverLost`.
- `BookImplementsExchange`, the refinement of `Exchange` with the status of an
  order computed from where it is. Trades map to trades, firing to triggering,
  dropping a residual to leaving; planning, resting, scanning and skipping map to
  nothing happening. A replace in place is a `Change` or an `Overrun`, and a trade with a
  maker that was overrun is an `Expire`.
- `AggregatesMove`: every step changes the quantity and the count of every level by
  exactly what its orders gain and lose (`Follows`), whatever an earlier overrun has done
  to them; the exceptions are an overrun and the increase of an order that was overrun.
  With `StarvedByOverrun` that is `OverrunConfined`: nothing but the overrun does harm.
  From it, under `NoOverrun`, `AggregatesExact`: the quantity and the count of every level
  are the sums over its orders, modulo the width of a word.
  The sum is the recursive function `Total(w)`; that there is such a function, and
  that a sum over a set with one element more is one term more, is shown from its
  defining equation by the least counterexample (section 5). A sum needs a finite
  set: `IdsAssumption`, which the 64-bit ids of the code give.

### ReportChannel

What the hand-off of reports promises: what was sent is received once, in order,
in portions of any size.

### BenchmarkRun

One measured run, from the arming of the watchdog to the end of the audit. Its
processes share memory, and every access to what they share is a step:

| thread | code | here |
|---|---|---|
| main | `harness.cpp:548-592` and `709-735`, `audit.cpp:167-180` | `Arm`, `Deliver`, `DeliverEnd`, `Probe`, `NoProbe`, `Cancel`, `JoinWatchdog`, `StopDrainer`, `JoinDrainer`, `Replay`, `ReplayEnd` |
| engine (called by main) | `engine_on_batch` and `push_report` in the adapter | `Handle`, `Push`, `Handled` |
| drainer | `drainer_main`, and `pop` in `RigtorpSPSCQueueWrapper.h` | `CheckRunning`, `Pop`, `Consume` |
| watchdog | `platform.hpp:112-138` | `TimeOut`, `Wake`, `Kill` |

The delivery mode (batches, if the engine exports `engine_on_batch`, or single
messages), the audit mode and the placing of the probes are chosen in `Init`,
where the code draws the probes at random. A book is abstracted to the number of
messages it has handled, which is what tells two books of a deterministic engine
apart; a report to its message and its place among the message's reports; an
engine pushes any number of reports for a message, up to `MaxReports`. While the
watchdog's callback runs it holds the mutex ("firing"), so that `Cancel` waits.
The run's watchdog and the audit's are armed one after the other and share
the variables here. The audit of a run whose baseline is missing is
skipped, as in the code (the choice in `JoinDrainer`).

Left out: loading and prebuilding before the watchdog is armed, `engine_flush`
and the transport's `flush` (the default one does nothing), timing, pinning, the
fatal-signal guards, and what is printed. An engine with a transport of its own
is taken to behave as the default transport does.

### BenchmarkRunProofs

`RunInductive`: `IInv` is inductive. Its parts: `WatchInv` (which positions of
the main thread allow the watchdog to fire), `DrainInv` (what was sent is what
was kept, the drainer's buffer and the queue, in that order; the drainer leaves
its first loop after the last push and its second with nothing left),
`DeliveryInv` (the probes passed are those below `start`, and the run of messages
being delivered ends where the mode says), `AuditInv` (the next snapshot is not
behind the replay). `AllCollected` alone is not inductive: that nothing is in
the queue when the drainer is done rests on the flag being lowered after the last
push and read before the last loop. The proofs assume only `RunAssumption`:
the lengths are natural numbers, and the queue and the buffer hold something.

### PinNode

`pin_node.h` as functions from node to node: the block of slots, the links of
the occupied ones and the free list threaded through the same `next` links. An
order is its id; a freed slot is blanked, since nothing reads it again.

### PriorityList

What one side of a book promises its matching loop: the resting orders, best
price first and in order of arrival inside a price. An insert goes behind
everyone at its price or better.

### OrderChain

The order side of `narb_tree.h`. `node`, `nextNode`, `prevNode` and `chainHead`
are the global chain, `index` is `_order_index`, `head` and `tail` are the ends of
every level, `levelOf` the `_level` pointer embedded in an order. A level is
represented by its price; where the code follows `succ` or `pred` to the next
better level the model chooses it among the levels. The quantities a level adds
up are in `MatchingBook`.

| action | code |
|---|---|
| `InsertFirst`, `InsertHead`, `InsertAfter` | `place_order` with `chain_first`, `chain_insert_head`, `chain_insert_after` when no order has to move |
| `MakeRoom`, `Walk`, `WalkEnd`, `Relocate`, `Place` | an insert that calls `make_room`: one step per node visited, one for a node added at the boundary, one per order moved, and the insert itself |
| `Erase` | `erase`, with the release of an emptied node |

The steps of one insert are not interrupted in the code either; they are apart
so that the invariants speak of the chain in the middle of a cascade.
`KeepsPriority` says that the walk over the chain implements `PriorityList`: the
steps of a cascade are stutters. `RoomToPlace` is the assertion of `alloc`, which a
release build drops. `SweepSafe` is what lets the matching loop keep a location
while it erases the order before it: an order outside a cascade stays where it is
(`PlacesKept`), and from there the walk meets everyone that is left (`SweepExact`).

All walks, over the slots of a node, over the nodes and over the orders, are
instances of `Along`: what is met from a first place on along some links, so many
steps at most. It counts its steps so that a cycle in the links shows as a walk
that is too long, and not as one that has no value.

### OrderChainInv, OrderChainProofs

The inductive invariant `IInv` and the proofs. `IInv` says that the state
represents a list of orders, through four functions that no variable holds: the
position `q[n]` of each slot in node `n` (the occupied slots first, then the free
list) with its inverse `r[n]`, the rank `cp` of each node in the chain, and the
rank `rk` of each order. Nodes, links, index and level ends are then what these
say: `NodeIs` gives all fields of a node from `q`, `r`, its size and its slots, and
`RanksOK` says that orders rank as their node does, and inside a node as their
slot. Ranks are compared and never counted, so that an erase leaves them alone.
`CascadeOK` says how far an insert that moves orders has come: the nodes of `path`
follow each other and are full up to the last, and the new order belongs right
behind its anchor, which does not move; `ChainSound` and `RoomToPlace` are not
inductive without it.

The proofs go from the node (`pin_node.h`: what `append`, `prepend`, `insert_after`
and `erase` do to `q` and `r`) to the links, the index and the levels, and then
through the actions (`Invariant`). `ChainTypes` and `RoomForEveryMove` follow, and
with what a walk meets, `WalkEnumerates`: every order once, by the ranks. From that
`SweepVisitsAll` and `ChainAgrees`, and with `PlacesStay` `SweepStaysSafe`. For the refinement, `ChainKeepsPriority`, each
action also says what it does to the ranks: `Stays`, the others keep theirs, or
`Arrives`, the new order ranks behind all those at its price or better; two lists of
the same orders by the same ranks are equal (`EnumUnique`).

The proofs assume `ChainAssumption` alone. Besides the kinds of the constants it says
that there are finitely many nodes, which a walk must count.

### LevelTree, PriceLadder

The level side of `narb_tree.h`: the red-black tree, the `pred`/`succ` threads and
the best level. A level is named by its price; an order at a price that has a
level changes nothing, and a level may lose its last order at any time.

| action | code |
|---|---|
| `Insert` | `insert`'s search over the best level and its neighbour (`Route`) or from the root (`FindNeighbors`), `make_level`, linking and threading |
| `InsertRebalance`, `InsertDone` | one pass of the loop of `insert_rebalance`, and its end |
| `EraseLevel` | `erase_level`: threads, best, transplanting |
| `DeleteFixup`, `DeleteDone` | one pass of the loop of `rb_delete_fixup`, and its end |
| `Clear` | `clear` |

The passes are steps of their own so that the run shows that the loops end
(`Climbs`: each pass but the last brings its level nearer to the root) and that
none follows a null pointer: such a pass is not enabled, and the run, which
checks deadlock, would stop. The fields of an erased level are cleared at once
and not when its descriptor is taken from the pool again; nothing reads them in
between. `LadderRefined` is the refinement of `PriceLadder`, an ascending list
that gains or loses one price at a time.

### LevelTreeInv, LevelTreeShape, LevelTreeProofs

The inductive invariant `IInv` of the tree and the proofs. `IInv` says that the
state represents a set `L` of levels, through two functions that no variable holds:
`sub[l]`, the levels at and below `l`, and `bh[l]`, the black levels on a way down
from it. `TreeOK` gives the shape: a level's subtree is itself and those of its
children, which lie on their sides of it, no level outside a subtree lies between
two inside it, and parents are the ways back. `HeightsOK` gives the black heights
with one exception, the side `hd` of the level `xp` that a deletion left a black level
short. `ColorsOK` says for each loop where a red level may have a red child: at
the level being lifted by an insertion, at the one that carries the loss of a
deletion, nowhere between calls. `RedBlack` alone is not inductive, since it says
nothing of the middle of a call, and the next pass follows pointers
(`parent->parent`, the sibling and its children) that are there only because of
`HeightsOK`. `ThreadsOK` speaks of `L` and the order of prices, not of the tree, so
rotations leave it alone. TLC checked `IInv` on trees of all shapes of a few levels
before the proof.

`LevelTreeShape` has what every operation does to the shape, whatever the
colours: a rotation over a level, a new leaf, a level with one child taken out, a
successor put in the place of another level; the searches; and the existence of
the recursive functions over a tree. `LevelTreeProofs` adds colours and heights
(the three cases of an insertion's pass and the four of a deletion's, with the
two sides at once), concludes `Invariant`, and from it that the walk in order lists
`L` in ascending order: `LevelTypes`, `StaysRedBlack`, `ThreadsFollowTree`,
`EveryRouteExact`. `TreeKeepsLadder` is the refinement: an insertion adds a price to the
list, an erase removes one, the passes stutter. `LoopsClimb` shows that the level being
restored gets nearer to the root with every pass but the last; that the loops
end follows, as depths are natural numbers. The proofs assume only
`TreeAssumption`, that prices are positive: null is 0 here.

### MemoryPool, MemoryPoolProofs

`AllocatorPool` with its blocks, high-water mark and free list, as the numbers of
its chunks: `Reserve`, `Recycle` and `Extend` (the two cases of `allocate`),
`Release`, `DestroyAll`. `nbElements`, the count of the objects held, doubles as
the number of the next chunk never used, which is right only while the free
list is empty: `Accounted` says why. The proofs take the conjunction of `TypeOK`,
`Accounted` and `InBlocks` as the inductive invariant, with the block arithmetic
as lemmas, for blocks of any size above one; `PoolSound`, that is `ChunksSound` for
every pool, and `PoolGivesFresh` follow.
`destroyAll` leaves the high-water mark where it was, and does nothing while only
chunk 0 has been used; the model does the same.

### LiquiDepth, LiquiBook

`LiquiDepth` has the member functions of `Depth` as functions from a depth to a
depth: visible levels, excess, ignored fills. Of the change ids only the
comparison with the id at the last publication is kept (`fresh`, `changed`),
because nothing else is done with them. A depth that has thrown, or has written
through the pointer past its side, is `lost`: what it contains then is not
described, and `LiquiBook` makes no further call.

`LiquiBook` is `OrderBook`, `DepthOrderBook` and `SimpleOrderBook`. A call of
`add`, `cancel` or `replace` is one step, because nothing can run inside it: the
matching is a function of the call's record `m` (`MatchOrder`, `TryDeferred`,
`CheckDeferred`, `SubmitPending`, ...), with the callbacks it queues in `m.queue`,
and `Perform` applies them afterwards in their order, as `callback_now` does.
The order of the two halves is the point of the module: the accept callback is
queued before the matching and told the filled quantity after it, a fill reaches
an order that the book has long removed, and the depth must ignore the fills of
an order that it never showed.

Four kinds of callback tell the depth a quantity that is not the order's open
quantity on the market (`Misinforms`): the accept of a limit order that is parked as
a stop, the cancel of an immediate-or-cancel rest (quantity 0, `OB:420`), a new
price for an order that has traded (`OB:1143-1146` passes the whole quantity),
and any replacement of a market order. `undisturbed` records that none has
happened, and `DepthExact` says that up to then the depth is exactly the book. So
the model says both where the depth is right and what breaks it; the second kind
contradicts the documentation and is a finding (section 6).

`CheckStops` follows `check_stop_orders` (`OB:571-585`), which compares prices in the
sense of matching and not of stops: when the price rises to p, a waiting buy stop
fires if its price is p or higher, so it can fire before the price has reached it,
and one that the price has jumped over keeps waiting. The tests only trigger a stop
at exactly its price. No workload of the benchmark has stops.

`OrdersAssumption` asks that an all-or-none order has a limit price. The library
accepts one without. Such an order can be matched with orders that have no price
either, before any trade has given the market one; `create_trade` then returns 0
(`OB:984-988`) after other trades of the same attempt were made, `match_aon_order`
takes that for an attempt that failed, and goes on with quantities and iterators that
are no longer valid. What happens then is not described, and no workload of the
benchmark sends such an order. `TradesWhole` shows that this is the only way to split
an all-or-none order; `AonWhole` says nothing after a lost depth, since the callbacks that
follow the exception are not described.

Left out: a market price set by the application, the return value of the calls,
and the branch of `replace` for a filled order, which cannot be reached because a
filled tracker has left the book.

### LiquiBookInv, LiquiBookSteps, LiquiBookProofs

The inductive invariant `IInv` of liquibook's book between two calls, and the proofs.
`InPlace`: no two trackers of a list have the same order, no order is both on the market
and a stop, and a tracker says what its order object says: side, price (on the
market; among the stops it is the stop price), open quantity, not filled, accepted,
no immediate-or-cancel order on the market. `Kept`: an accepted order has a tracker
somewhere, unless it is an immediate-or-cancel stop, whose rest is dropped silently.
`Whole`: all-or-none orders have a price and are filled whole or not at all. `Shape`: a
side of the depth has its levels best first, then places without one, and excess only
behind a full side. And while the book is undisturbed, `Mirror`: on each side there is a
level for exactly the prices of accepted orders, with their number and the sum of their
open quantities. TLC checked `IInv` on the instance of `liqui_book` before the proof.

`LiquiBookSteps` has the lemmas about the matching, `LiquiBookProofs` those about the depth
and the callbacks, and the theorems.

A call is one step, so most of the proof is about what is true inside it. While the
matching runs the order objects are stale: a fill is in the tracker and in the queue of
callbacks, not yet in the object. The proof therefore carries, beside the call's record
`m`, the objects `o` that the callbacks queued so far will make. `Reached(a, q, o)` says
so of the objects `a` and the queue `q` by a function that gives the objects before each
callback; a callback queued is one more step of it, and `Perform`, which folds over the
same queue, ends in `o` unless the depth is lost (`Performed`). Of `m` and `o`,
`Steady` says what `IInv` says between calls, with two exceptions that hold in the middle
of a call: the inbound order `x` is on no list yet and may be an all-or-none order
partly filled, and `W` are the stops that wait for their turn in `pending`.

The proof follows the nesting of the code, each level with the invariant of its own loop:

| loop or function | invariant, result |
|---|---|
| `create_trade` (`OB:969`) | `Trades`: both open quantities fall by the same amount, both objects follow, other trackers stay (`Traded`, `Created`) |
| `try_create_deferred_trades` (`OB:910`) | `Proposes`: what is proposed for the held trackers sums to at most the maximum, all-or-none ones are taken whole or not at all; then one trade after the other, for different trackers (`Held`) |
| `match_aon_order` (`OB:792`) | an attempt trades nothing or fills the inbound order to the last unit (`Filled`) |
| `match_order` and its loops (`OB:706`) | `Visited`: the trackers not yet visited are as they were, held and deferred ones are still on the list and all different |
| `check_deferred_aons` (`OB:677`) | `Checking`: the same for a resting all-or-none order that takes the part of the inbound one (`Retried`) |
| `add_order`, the rest of the order (`OB:636`) | `Entering`, `Enters`: the order has left the hand: rests, is dropped, or is filled |
| `submit_pending_orders` (`OB:587`) | `Round`, `Submitted`: each stop is taken from `W` once, and stops that fire meanwhile join it; as the number of those that are left falls (`Stock`), the rounds the model allows are enough |
| `add`, `cancel`, `replace` | `Opening` before, `Ends` after: nothing is in the hand or in `pending`, and `IInv` holds |

The depth hears of none of this until the callbacks run. `Mirror(d, o, z)` says that the
levels of `d` are those of the order objects `o` without the order `z`, and that `d`
ignores as much of `z` as it has open. While the callbacks run, the trackers are ahead
of both, by every callback still queued. So the depth is compared with the objects,
callback by callback (`MirrorStep`), and with the trackers only at the end of the call,
when objects and trackers agree (`ListingIs`). `z` is needed for one case: an inbound
order that is filled at once never has a level, its accept callback makes the depth
ignore its fills, and `Covers` is what the queue must satisfy for that to come out even:
the ignored fills are the first callbacks after the accept, all of that order, and
complete it (`Span`).

The lemmas about the member functions are one for each, and say how the listing of a
side changes (`Turns`), whether the level is visible, spilt or restored: `AddIs`,
`CloseIs`, `ChangeIs` and their parts for `InsertLevelBefore` and `EraseLevel`. Sums
over the orders of a level are sums over all ids up to the last one, with weight 0 for
the others (`SumOf`), so that one more order is one changed weight (`TotalShift`); the
number of ids is finite because `order_id_` is a 32-bit count (`simple_order.h:94`).
What a call changes of the visible levels is marked in them or in `changed` by the
functions that make the change (`Noted`), and nothing clears the marks before the update
callback, which is the last one.

`BookTypes`, `BookInStep`, `TradesWhole`, `DepthFollowsBook` and `ChangesNotified` follow,
from `OrdersAssumption` and `SizeAssumption` only, for any orders, ids, replacements and
number of visible levels.

### Engines

Both engines behind their adapters, handling the same message stream. Babobook's
side is `MatchingBook`, in the steps of its matching loop; liquibook's is an
instance of `LiquiBook`, a library call per step. `OnNew`, `OnCancel` and
`OnModify` are the entry points of both adapters, `Reinsert` the second half of a
modify (both adapters cancel and add again), `Fill` babobook's `on_fill`, and
`Answer` what is emitted after its call has returned. Reports carry what
`correctness.cpp` writes down: `Canonical` sorts them by type, otherwise in the
order they came, and drops the quantity of a cancel. The workload is what the
generator can send, in any order: an order is new once, a cancel or a modify can
come at any time, also again, and for an order not seen yet.

`EnginesAgree` is the claim the benchmark publishes: after every message both
engines have given the same canonical reports, and their quantities add up.
`QueriesAgree` compares the answers to an audit's queries. `PricesExact` is about
the price of a trade, which both adapters recover by dividing a 32-bit cost by
the quantity: it is the maker's limit if and only if the product fits in a word.
Because both adapters wrap alike, the hash cannot show a wrapped price.

The last section of `MatchingBookProofs` shows that the adapter drives the book only in
ways `MatchingBook` allows (`AdapterDrivesBook`: `EnginesSpec => Spec`), so that all theorems about
the book hold behind the adapter; the invariant is that the message about to be
reinserted is an order the book takes (`Sendable`). `ReportedPrices` proves
`PricesExact` for all words, prices and quantities from one lemma of
arithmetic, `CostGivesPrice`.

### MC modules, BookClaims

`MCMatchingBook`, `MCOrderChain`, `MCLiquiBook` and `MCEngines` give the
configurations their order sets and symmetries. `BookClaims` (with
`MCBookClaims`) states two things the repository says of the book that its code
does not do (section 6).

## 4. Runs

| run | instance | shows |
|---|---|---|
| `book_aon` | 4 ids, 2 prices, quantities 1-2, regular and all-or-none limit orders | skips, plans that commit, plans that are dropped: uncrossed, whole, plans hold, priority, limits |
| `book_life` | 4 ids, 18 kinds of orders: stops at two triggers, market, IOC and all-or-none; reductions with and without a new price, reference prices, words of two bits; no increases, so no overrun | cascades with several stops fired at once and level aggregates that wrap around: no triggered stop stays parked, one place per order, aggregates equal their orders, time priority kept |
| `book_mixed` | 3 ids, 5 kinds of orders; increases by 2 in words of two bits, so that 2 wraps around to nothing and 3 to an open order | with overruns: every call returns; only an overrun starves an order; the aggregates follow the orders; the book implements `Exchange` |
| `benchmark_run` | 3 messages, 2 probes at any places, up to 2 reports per message, a queue of 2, a buffer of 2 | reports collected once and in order, probes and audit aligned, no late kill; an engine spinning on a full queue gets room, and every run ends |
| `order_chain` | 6 orders at 2 prices, nodes of 2 slots, at most 4 of them, a hop limit of 1 | index, level ends, links, free slots and priority through every insert, erase and cascade; an erase leaves the other locations alone |
| `level_tree` | 10 prices, bids or asks | red-black, threaded, searched rightly; the colour loops end; the tree implements `PriceLadder` |
| `memory_pool` | 6 chunks in blocks of 2 | held and free chunks are those used, once each, inside the blocks |
| `liqui_book` | 4 orders of 6 kinds, one replacement (reduce and reprice), a depth of 2 levels | the depth is the book until misinformed, trackers agree with order objects, all-or-none orders whole, listeners told |
| `engines` | 3 orders of 7 kinds, 2 modifications, 4 liquibook ids, words of two bits | both engines answer alike, to messages and to queries; prices exact while the cost fits |
| `liqui_ioc` | 3 limit or immediate-or-cancel orders | the third disagreement of section 6 |
| `claim_reduction`, `claim_open_qty` | the smallest instances | the first two disagreements of section 6 |

Two prices on each side are enough for better, equal and worse; two sizes for
larger, equal and smaller than what is wanted; four orders for a taker, a maker
that is skipped, one traded with behind it and one that crosses what was
skipped, and for a stop that triggers a stop while a third is waiting. The
configurations keep the interesting kinds apart because their product does not
fit; `book_mixed` is the smallest that has them all but IOC, with a limit order of 2 on
each side that can be overrun before and after a fill, a stop on each side and an
all-or-none order whose plan meets an overrun maker. Ids are symmetric in the
safety runs; no symmetry is used where liveness is checked.

`book_mixed` has a view, `WithoutLevels`: what an overrun adds to a level stays there for
good, so each further overrun would make new states. No guard reads `level`, and no other
variable is computed from it, so two states that differ in `level` alone have the same
steps; and `AggregatesFollow`, the one part of its properties that reads `level`, is about the
differences a step makes, which those two states share.

Three messages and two probes give a probe on the first, an inner and the last
message, adjacent probes and a tail after the last one. With two reports per
message and two places, the queue is full before the workload ends, the drainer's
buffer fills up in the middle of a message, and reports are still queued when the
flag is lowered.

In `order_chain` the code's 64 slots and 16 hops are 2 and 1. Two slots are the
fewest that give a full node with an anchor inside it, which is where an order
in the middle of a node is displaced. One hop, four nodes and six orders are the fewest
with which the search for room passes a full node, gives up at a second one and
adds a node in front of a third. `Nodes` bounds a pool that grows in the code:
an insert that would need a fifth node is not taken. Bids only: for asks the
code swaps the two sides of `Better`, as the constant `Bids` does.

Ten prices are enough for every case of the tree: both sides of a deletion with
two, one and no child, a red sibling, a sibling with a red child on either
side, and a loss of black that is passed up to the root. Six chunks in blocks of
two give three blocks and, with all of them released, every order of the free
list. In `liqui_book` two visible levels and four ids give a side that spills
into the excess and is refilled from it, all-or-none orders that are held until others
complete the fill, or deferred until enough comes in, and a stop that is triggered by
the trade of others. All-or-none trades that involve several orders without any price
are not in the run: they need more orders than fit. In `engines` three orders
allow one that is modified into a trade with two others; `LoIds` bounds the
orders liquibook is given, as a modify creates one, and is larger by one than
the orders of the workload.

Deadlock is checked in every run but three. A benchmark run that is done or killed
stops, and `RunEnds` says that it stops nowhere else. In the two runs of `LiquiBook`
every id is used once and nothing follows a lost depth, so a behaviour may run out
of calls.

Fairness: in `MatchingBook`, `FairSpec` asks weak fairness of `Step`, the internal
steps of a call. The book runs on its caller's thread and never blocks, so a call
in progress keeps running. Nothing makes a caller call. In `BenchmarkRun`, `DrainSpec`
asks weak fairness of the drainer's own steps only, and under it `SpinEnds` holds:
a spinning engine gets room. `RunEnds` has the fairness of the other threads
as its premise (`OthersFair`: the main thread's own steps and the watchdog's,
threads the operating system schedules and a timer that expires); nothing is
asked of the engine, which may hang: then the watchdog ends the run. The other
modules have no liveness: they take a step when they are called.

## 5. Proved, checked, neither

Proved for all values of the constants, from the named assumptions of each module
and nothing else:

- the book: `Inductive`, and from it type correctness, every order in one place
  (`InOnePlace`), `NeverCrossed`, `StopsWait`, `WholeOrNothing`, `PlansHold`,
  `PriorityRespected`, `LimitsRespected` and both
  together (`TradesAreFair`), `PriorityNeverLost`, `StarvedByOverrun` and
  `BookImplementsExchange`, for any deltas, those that wrap around included; and
  `OnlyOpenResidents` and `StaysWellPlaced`, which have `NoOverrun` as their premise;
- the run: `RunInductive`, and from it `RunTypes`, `NothingLost`, `ProbesInPlace`,
  `AuditComparesEqualPrefixes` and both together (`AuditIsSound`),
  `NoKillAfterCancel`, and `RunImplementsChannel`;
- the levels of the book: `AggregatesMove`, with `StarvedByOverrun` `OverrunConfined`, and with
  the premise `NoOverrun` `AggregatesExact`;
- the chain: `Invariant`, and from it `ChainTypes`, `RoomForEveryMove`, `ChainAgrees`,
  `SweepVisitsAll`, `PlacesStay`, both together (`SweepStaysSafe`) and `ChainKeepsPriority`, for nodes of any size, any hop
  limit, bids and asks;
- the tree of levels: `Invariant`, and from it `LevelTypes`, `StaysRedBlack`,
  `ThreadsFollowTree`, `EveryRouteExact`, `TreeKeepsLadder` and `LoopsClimb`, for any set of
  prices, bids and asks;
- the pool: `PoolInvariant` with its three parts, and `PoolGivesFresh`;
- liquibook's book: `BookInductive`, and from it `BookTypes`, `BookInStep`,
  `TradesWhole`, `DepthFollowsBook` and `ChangesNotified`, for any orders in which an
  all-or-none order has a price;
- the adapter: `AdapterDrivesBook`, `AdapterTradesFair`, `AdapterKeepsLevels` (what
  `OnlyOpenResidents` and `AggregatesExact` say, without a premise) and `ReportedPrices`.

Some of these speak of recursive functions: the sum of a level, a walk, a search and the
height of a tree. The
library's induction theorems cannot be used for them, as the provers do not
instantiate a theorem that has an operator as its parameter. Instead the set of
numbers for which a claim fails is formed, and its least element leads to a
contradiction (`Least` and `LeastOf`, from the well-foundedness of the natural numbers). A recursive
function is one that satisfies its equation only if there is such a function at all, so
that is proved first (`TotalExists`, `AlongExists`, and for a tree from the size of
its subtrees).

Model-checked only:

- `EnginesAgree` and `QueriesAgree`: one engine trades in steps, the other in a fold of one
  step, so the invariant would have to relate a point in the middle of a loop of one book
  to one in the middle of a fold of the other;
- `CallReturns`, `SpinEnds` and `RunEnds`: liveness.

Not modelled:

- the workload generator: draws in floating point and a stable sort, a pure
  function of a seed. `Engines` takes the messages it can produce in any order,
  which is more than it does;
- `depth()` and `reserve()` of the babobook: a copy without state, which the
  benchmark does not call, and a capacity hint;
- the engine ABI and the adapter template: declarations and empty bodies;
- `engine_prebuild` of both adapters, beyond the empty state it leaves; `getSlot` and
  `advanceCount` of the pool, and `needs_bid_restoration` and
  `needs_ask_restoration` of the depth, which nothing calls;
- loading, timing, pinning and guards of the harness, SHA-256 and the digits of a
  report, operating-system calls, measurement drivers, scripts, tests, the
  example and the paper: input and output, formatting, or no behaviour of the
  system. Tests and documents are used as the source of claims.

## 6. Findings

- `claim_reduction`: a replace with a new price and a reduction larger than the
  order computes `order_qty_ + size_delta` in 32 bits (`simple_order.h:186`),
  and the order is submitted with the wrapped quantity. A comment in
  `test/babo_test/ut_cancel_replace.cpp:74` says a reduction that meets or
  exceeds the open quantity collapses the order.
- `claim_open_qty`: an increase in place that wraps around to no more than the fills
  (`MB:92-97`, `simple_order.h:186`) leaves an order with nothing open in its tree, and its
  level with the increase. `price_level_descriptor.h:33` calls that quantity the
  "aggregate open qty resting at this level", and a comment in
  `test/babo_test/ut_cancel_replace.cpp:41` says a size increase grows the level.
- `liqui_ioc`: the rest of an immediate-or-cancel order is cancelled with quantity 0
  (`OB:420`; the comment at `OB:419` asks whether it needs the actual open quantity).
  The accept callback had added that quantity to its level, and if other orders rest at the
  price it stays there. The depth is documented as the book "aggregated by price"
  (`depth_level.h:10`), and the argument of `close_order` as the open quantity
  (`depth.h:73`). The benchmark's adapter does not read the depth, so its reports
  are not affected.

One more is modelled as the code does it and has no run: before any price has been
observed `marketPrice_` is 0, and a sell stop is submitted at once (`MB:245-249`); the
paper says a stop stays parked until the observed market price reaches its trigger
(`paper.tex:136`).

## 7. What the properties do not cover

- A second `destroyAll` on the memory pool would destroy chunks nobody holds:
  `ChunksSound` counts chunks and does not say that only held ones are
  destroyed. Nothing calls it.
- `DepthExact` speaks of a depth that no callback has misinformed (`undisturbed`): the rest of
  an IOC order cancelled with quantity 0 (`liqui_ioc` shows it) and a reprice after a
  partial fill are just the two cases it excuses.
- An all-or-none order without a price is excluded by `OrdersAssumption`: with one, the
  loop of `match_aon_order` can use an iterator whose element is gone. No client here sends
  such an order.
- `LiquiBook` bounds the quantity a replacement asks for by `MaxQty`, and its aggregates
  do not wrap around; its theorems hold for every `MaxQty`. Quantities near 2^32 are studied
  in `MatchingBook` only.
