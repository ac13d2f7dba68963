----------------------------- MODULE OrderChain -----------------------------
(***************************************************************************)
(* The order side of narb_tree.h: one global chain of nodes that holds all *)
(* orders of a side in priority order, the id index, and the head and tail *)
(* of every price level.  A level is represented by its price, and the     *)
(* tree that finds the next better level by a choice among the levels.     *)
(*                                                                         *)
(* insert and erase run to their end uninterrupted; make_room, the loop in *)
(* insert that moves orders between nodes, is unrolled, one step per node  *)
(* visited and one per order moved.                                        *)
(***************************************************************************)
EXTENDS PinNode, SequencesExt

CONSTANTS
  Ids, Prices,
  Bids,      \* TRUE for a tree of bids: a higher price is better
  MaxHops,   \* kMaxCascadeHops
  Nodes      \* addresses the node pool can give: a bound, it grows as needed

ASSUME ChainAssumption ==
  /\ N \in Nat \ {0}
  /\ Prices \subseteq Nat
  /\ Bids \in BOOLEAN
  /\ MaxHops \in Nat
  /\ Nodes \subseteq Nat \ {0} /\ IsFiniteSet(Nodes)
  /\ NoOrder \notin Ids

VARIABLES
  node,       \* the nodes
  nextNode, prevNode,    \* their links
  live,       \* the nodes not in the pool
  chainHead,  \* _chain_head; _chain_tail is never read
  index,      \* _order_index
  levelOf,    \* the order's _level
  head, tail, \* the level's _head and _tail
  pc,         \* "idle", or where in make_room an insert is
  order,      \* the order being inserted: id, price, anchor, whether the
              \* anchor is the tail of its node
  path, hops  \* make_room's: the nodes visited, then those still to ripple

nodeVars == <<node, nextNode, prevNode, live, chainHead>>
levelVars == <<index, levelOf, head, tail>>
roomVars == <<order, path, hops>>
vars == <<nodeVars, levelVars, pc, roomVars>>

NoNode == 0
NoLoc == [node |-> NoNode, slot |-> 0]
Locs == [node : Nodes, slot : Slots] \union {NoLoc}
NoInsert == [id |-> NoOrder, price |-> 0, anchor |-> NoLoc, atTail |-> FALSE]

Better(p, q) == IF Bids THEN p > q ELSE p < q

Levels == {p \in Prices : head[p] # NoLoc}

\* The level's neighbour on the better side: level->succ for bids, level->pred
\* for asks.
MutBetterLevels(p) == {q \in Levels : Better(p, q)}
BetterLevels(p) == {q \in Levels : Better(q, p)}
NextBetter(p) == CHOOSE q \in BetterLevels(p) :
                   \A r \in BetterLevels(p) : r = q \/ Better(r, q)

\* A node is constructed afresh, whichever chunk the pool hands out.
Free == Nodes \ live
NodeLeft == Free # {}
Fresh == CHOOSE n \in Free : \A m \in Free : n <= m

GlobalNext(loc) ==
  LET nd == node[loc.node]
      s == nd.next[loc.slot]
      nn == nextNode[loc.node]
  IN  IF s # npos THEN [node |-> loc.node, slot |-> s]
      ELSE IF nn # NoNode THEN [node |-> nn, slot |-> node[nn].head]
      ELSE NoLoc

GlobalPrev(loc) ==
  LET nd == node[loc.node]
      s == nd.prev[loc.slot]
      pn == prevNode[loc.node]
  IN  IF s # npos THEN [node |-> loc.node, slot |-> s]
      ELSE IF pn # NoNode THEN [node |-> pn, slot |-> node[pn].tail]
      ELSE NoLoc

-----------------------------------------------------------------------------
(* insert.                                                                 *)

\* The end of place_order, for an order put in slot s of node n.
Placed(x, p, n, s) ==
  LET loc == [node |-> n, slot |-> s] IN
  /\ head' = [head EXCEPT ![p] = IF @ = NoLoc THEN loc ELSE @]
  /\ tail' = [tail EXCEPT ![p] = loc]
  /\ index' = [index EXCEPT ![x] = loc]
  /\ levelOf' = [levelOf EXCEPT ![x] = p]

MutPlacedInFresh(x, p, prev, next) ==
  LET m == Fresh IN
  /\ NodeLeft
  /\ node' = [node EXCEPT ![m] = NodeAppend(FreshNode, x)]
  /\ nextNode' = [n \in Nodes |-> IF n = m THEN next
                                  ELSE IF n = prev THEN m ELSE nextNode[n]]
  /\ prevNode' = [prevNode EXCEPT ![m] = prev]
  /\ live' = live \union {m}
  /\ chainHead' = IF prev = NoNode THEN m ELSE chainHead
  /\ Placed(x, p, m, FreshNode.free)

\* A fresh node between prev and next with the order in it.
PlacedInFresh(x, p, prev, next) ==
  LET m == Fresh IN
  /\ NodeLeft
  /\ node' = [node EXCEPT ![m] = NodeAppend(FreshNode, x)]
  /\ nextNode' = [n \in Nodes |-> IF n = m THEN next
                                  ELSE IF n = prev THEN m ELSE nextNode[n]]
  /\ prevNode' = [n \in Nodes |-> IF n = m THEN prev
                                  ELSE IF n = next THEN m ELSE prevNode[n]]
  /\ live' = live \union {m}
  /\ chainHead' = IF prev = NoNode THEN m ELSE chainHead
  /\ Placed(x, p, m, FreshNode.free)

\* prepend or insert_after into a node with room.
PlacedIn(x, p, n, nd) ==
  /\ node' = [node EXCEPT ![n] = nd]
  /\ Placed(x, p, n, node[n].free)
  /\ UNCHANGED <<nextNode, prevNode, live, chainHead>>

\* An order rests once: the callers insert a new order, or one just erased.
New(x) == pc = "idle" /\ index[x] = NoLoc

\* chain_first
InsertFirst(x, p) ==
  /\ New(x)
  /\ chainHead = NoNode
  /\ PlacedInFresh(x, p, NoNode, NoNode)
  /\ UNCHANGED <<pc, roomVars>>

\* chain_insert_head: a new best level.
InsertHead(x, p) ==
  /\ New(x)
  /\ chainHead # NoNode
  /\ p \notin Levels /\ BetterLevels(p) = {}
  /\ IF IsFull(node[chainHead])
     THEN PlacedInFresh(x, p, NoNode, chainHead)
     ELSE PlacedIn(x, p, chainHead, NodePrepend(node[chainHead], x))
  /\ UNCHANGED <<pc, roomVars>>

\* The order this one goes behind: the last of its level, or of the next
\* better one.
HasAnchor(p) == p \in Levels \/ BetterLevels(p) # {}
Anchor(p) == IF p \in Levels THEN tail[p] ELSE tail[NextBetter(p)]

AtNodeTail(loc) == loc.slot = node[loc.node].tail

\* chain_insert_after, when no order has to move.
InsertAfter(x, p) ==
  /\ New(x)
  /\ HasAnchor(p)
  /\ LET a == Anchor(p)
         nX == a.node
         next == nextNode[nX]
     IN  \/ /\ ~IsFull(node[nX])
            /\ PlacedIn(x, p, nX, NodeInsertAfter(node[nX], a.slot, x))
         \/ /\ IsFull(node[nX]) /\ AtNodeTail(a)
            /\ next = NoNode
            /\ PlacedInFresh(x, p, nX, NoNode)
         \/ /\ IsFull(node[nX]) /\ AtNodeTail(a)
            /\ next # NoNode /\ ~IsFull(node[next])
            /\ PlacedIn(x, p, next, NodePrepend(node[next], x))
  /\ UNCHANGED <<pc, roomVars>>

\* chain_insert_after, when make_room is called: for the anchor's node, or
\* for the one behind it.
MakeRoom(x, p) ==
  /\ New(x)
  /\ HasAnchor(p) /\ NodeLeft
  /\ LET a == Anchor(p)
         X == IF AtNodeTail(a) THEN nextNode[a.node] ELSE a.node
     IN  /\ IsFull(node[a.node])
         /\ X # NoNode /\ IsFull(node[X])
         /\ order' = [id |-> x, price |-> p, anchor |-> a,
                      atTail |-> AtNodeTail(a)]
         /\ path' = <<X>>
  /\ hops' = 0
  /\ pc' = "walk"
  /\ UNCHANGED <<nodeVars, levelVars>>

Far == path[Len(path)]

MutWalking == /\ IsFull(node[Far]) /\ hops <= MaxHops
              /\ nextNode[Far] # NoNode
Walking == /\ IsFull(node[Far]) /\ hops < MaxHops
           /\ nextNode[Far] # NoNode

\* Towards the tail, to a node with a free slot.
Walk ==
  /\ pc = "walk"
  /\ Walking
  /\ path' = Append(path, nextNode[Far])
  /\ hops' = hops + 1
  /\ UNCHANGED <<nodeVars, levelVars, pc, order>>

MutWalkEnd ==
  /\ pc = "walk"
  /\ ~Walking
  /\ IF IsFull(node[Far]) /\ nextNode[Far] = NoNode
     THEN LET m == Fresh IN
          /\ node' = [node EXCEPT ![m] = FreshNode]
          /\ nextNode' = [nextNode EXCEPT ![m] = NoNode, ![Far] = m]
          /\ prevNode' = [prevNode EXCEPT ![m] = Far]
          /\ live' = live \union {m}
          /\ path' = Append(path, m)
     ELSE UNCHANGED <<node, nextNode, prevNode, live, path>>
  /\ pc' = "ripple"
  /\ UNCHANGED <<chainHead, levelVars, order, hops>>

\* There was none within MaxHops: a fresh node at the boundary.
WalkEnd ==
  /\ pc = "walk"
  /\ ~Walking
  /\ IF IsFull(node[Far])
     THEN LET m == Fresh
              after == nextNode[Far]
          IN  /\ node' = [node EXCEPT ![m] = FreshNode]
              /\ nextNode' = [nextNode EXCEPT ![m] = after, ![Far] = m]
              /\ prevNode' = [n \in Nodes |->
                                IF n = m THEN Far
                                ELSE IF n = after THEN m ELSE prevNode[n]]
              /\ live' = live \union {m}
              /\ path' = Append(path, m)
     ELSE UNCHANGED <<node, nextNode, prevNode, live, path>>
  /\ pc' = "ripple"
  /\ UNCHANGED <<chainHead, levelVars, order, hops>>

MutMovedHead(x, old, new) ==
  /\ index' = [index EXCEPT ![x] = new]
  /\ UNCHANGED head
  /\ tail' = [tail EXCEPT ![levelOf[x]] = IF @ = old THEN new ELSE @]

\* What refers to the place of an order that moves.
Moved(x, old, new) ==
  /\ index' = [index EXCEPT ![x] = new]
  /\ head' = [head EXCEPT ![levelOf[x]] = IF @ = old THEN new ELSE @]
  /\ tail' = [tail EXCEPT ![levelOf[x]] = IF @ = old THEN new ELSE @]

\* relocate_tail_to_head, from the far end of the path inward.
Relocate ==
  /\ pc = "ripple"
  /\ Len(path) > 1
  /\ LET src == path[Len(path) - 1]
         dst == Far
         old == [node |-> src, slot |-> node[src].tail]
         new == [node |-> dst, slot |-> node[dst].free]
         x == node[src].slot[old.slot]
     IN  /\ node' = [node EXCEPT ![src] = NodeErase(@, old.slot),
                                 ![dst] = NodePrepend(@, x)]
         /\ Moved(x, old, new)
  /\ path' = SubSeq(path, 1, Len(path) - 1)
  /\ UNCHANGED <<nextNode, prevNode, live, chainHead, levelOf, pc, order, hops>>

\* Back in chain_insert_after: the order takes the slot.
Place ==
  /\ pc = "ripple"
  /\ Len(path) = 1
  /\ LET n == path[1]
         nd == IF order.atTail THEN NodePrepend(node[n], order.id)
               ELSE NodeInsertAfter(node[n], order.anchor.slot, order.id)
     IN  PlacedIn(order.id, order.price, n, nd)
  /\ pc' = "idle"
  /\ order' = NoInsert /\ path' = <<>> /\ hops' = 0

-----------------------------------------------------------------------------
(* erase.                                                                  *)

Erase(x) ==
  /\ pc = "idle"
  /\ index[x] # NoLoc
  /\ LET loc == index[x]
         n == loc.node
         L == levelOf[x]
         wasHead == head[L] = loc
         wasTail == tail[L] = loc
         erased == NodeErase(node[n], loc.slot)
         prev == prevNode[n]
         next == nextNode[n]
     IN  /\ index' = [index EXCEPT ![x] = NoLoc]
         /\ levelOf' = [levelOf EXCEPT ![x] = 0]
         /\ head' = [head EXCEPT ![L] = IF wasHead /\ wasTail THEN NoLoc
                                        ELSE IF wasHead THEN GlobalNext(loc)
                                        ELSE @]
         /\ tail' = [tail EXCEPT ![L] = IF wasHead /\ wasTail THEN NoLoc
                                        ELSE IF wasTail THEN GlobalPrev(loc)
                                        ELSE @]
         /\ IF IsEmpty(erased)
            THEN /\ node' = [node EXCEPT ![n] = FreshNode]
                 /\ live' = live \ {n}
                 /\ nextNode' = [m \in Nodes |-> IF m = n THEN NoNode
                                   ELSE IF m = prev THEN next ELSE nextNode[m]]
                 /\ prevNode' = [m \in Nodes |-> IF m = n THEN NoNode
                                   ELSE IF m = next THEN prev ELSE prevNode[m]]
                 /\ chainHead' = IF prev = NoNode THEN next ELSE chainHead
            ELSE /\ node' = [node EXCEPT ![n] = erased]
                 /\ UNCHANGED <<nextNode, prevNode, live, chainHead>>
  /\ UNCHANGED <<pc, roomVars>>

-----------------------------------------------------------------------------
Init ==
  /\ node = [n \in Nodes |-> FreshNode]
  /\ nextNode = [n \in Nodes |-> NoNode]
  /\ prevNode = [n \in Nodes |-> NoNode]
  /\ live = {} /\ chainHead = NoNode
  /\ index = [x \in Ids |-> NoLoc]
  /\ levelOf = [x \in Ids |-> 0]
  /\ head = [p \in Prices |-> NoLoc] /\ tail = [p \in Prices |-> NoLoc]
  /\ pc = "idle"
  /\ order = NoInsert /\ path = <<>> /\ hops = 0

Insert(x, p) ==
  InsertFirst(x, p) \/ InsertHead(x, p) \/ InsertAfter(x, p) \/ MakeRoom(x, p)

Cascade == Walk \/ WalkEnd \/ Relocate \/ Place

Next ==
  \/ \E x \in Ids : Erase(x) \/ \E p \in Prices : Insert(x, p)
  \/ Cascade

Spec == Init /\ [][Next]_vars

-----------------------------------------------------------------------------
(* Properties.                                                             *)

\* What visit says of the places reached from first along the links nxt, n of
\* them at most: left[k][p], if k more may be visited, from p on.
Along(visit, nxt, first, n) ==
  LET left[k \in 0 .. n] ==
        [p \in DOMAIN nxt \union Range(nxt) \union {first} |->
           IF k = 0 \/ p \notin DOMAIN nxt THEN <<>>
           ELSE visit[p] \o left[k - 1][nxt[p]]]
  IN  left[n][first]

Follow(nxt, first, n) == Along([p \in DOMAIN nxt |-> <<p>>], nxt, first, n)

\* One more than there can be, so that a cycle shows.
NodeOrder(nd) == Follow(nd.next, nd.head, N + 1)
NodeBack(nd) == Follow(nd.prev, nd.tail, N + 1)
FreeOrder(nd) == Follow(nd.next, nd.free, N + 1)
ChainOrder == Follow(nextNode, chainHead, Cardinality(Nodes) + 1)

\* A walk over the orders, node by node along the chain: what Entry says of the
\* place of each.
InNode(Entry(_), n) ==
  Along([s \in Slots |-> <<Entry([node |-> n, slot |-> s])>>],
        node[n].next, node[n].head, N + 1)
WalkOver(Entry(_)) ==
  Along([n \in Nodes |-> InNode(Entry, n)],
        nextNode, chainHead, Cardinality(Nodes) + 1)

Locations == WalkOver(LAMBDA loc : loc)

At(loc) == node[loc.node].slot[loc.slot]

NodeOK(nd) ==
  /\ nd.slot \in [Slots -> Ids \union {NoOrder}]
  /\ nd.next \in [Slots -> Slots \union {npos}]
  /\ nd.prev \in [Slots -> Slots \union {npos}]
  /\ {nd.head, nd.tail, nd.free} \subseteq Slots \union {npos}
  /\ nd.size \in 0 .. N

\* Every variable has its type; path never outgrows the array that holds it,
\* whose size is kMaxCascadeHops + 2.
TypeOK ==
  /\ \A n \in Nodes : NodeOK(node[n])
  /\ nextNode \in [Nodes -> Nodes \union {NoNode}]
  /\ prevNode \in [Nodes -> Nodes \union {NoNode}]
  /\ live \subseteq Nodes /\ chainHead \in Nodes \union {NoNode}
  /\ index \in [Ids -> Locs]
  /\ levelOf \in [Ids -> Prices \union {0}]
  /\ head \in [Prices -> Locs] /\ tail \in [Prices -> Locs]
  /\ pc \in {"idle", "walk", "ripple"}
  /\ order.id \in Ids \union {NoOrder} /\ order.anchor \in Locs
  /\ path \in Seq(Nodes) /\ Len(path) <= MaxHops + 2
  /\ hops \in 0 .. MaxHops

\* In every node the occupied slots are linked both ways and the others are in
\* the free list; the nodes outside the pool are those of the chain, linked
\* both ways; between calls none of them is empty.
SlotsConserved ==
  /\ \A n \in live :
       LET nd == node[n] IN
       /\ Len(NodeOrder(nd)) = nd.size /\ Len(FreeOrder(nd)) = N - nd.size
       /\ NodeBack(nd) = Reverse(NodeOrder(nd))
       /\ ToSet(NodeOrder(nd)) = {s \in Slots : nd.slot[s] # NoOrder}
       /\ ToSet(FreeOrder(nd)) = {s \in Slots : nd.slot[s] = NoOrder}
       /\ pc = "idle" => ~IsEmpty(nd)
  /\ ToSet(ChainOrder) = live /\ Len(ChainOrder) = Cardinality(live)
  /\ \A i \in DOMAIN ChainOrder :
       prevNode[ChainOrder[i]] = IF i = 1 THEN NoNode ELSE ChainOrder[i - 1]

\* The index leads to every order, wherever it has been moved, and to nothing
\* else: cancel and replace go through it.
IndexExact ==
  /\ \A x \in Ids : index[x] # NoLoc => At(index[x]) = x
  /\ {index[x] : x \in {y \in Ids : index[y] # NoLoc}} = ToSet(Locations)

\* A level's head and tail are its first and last order in the chain, also
\* while orders are being moved.
LevelEnds ==
  LET locs == Locations IN
  \A p \in Prices :
    LET own == {i \in DOMAIN locs : levelOf[At(locs[i])] = p}
    IN  IF own = {} THEN head[p] = NoLoc /\ tail[p] = NoLoc
        ELSE \E f, l \in own : /\ own \subseteq f .. l
                               /\ head[p] = locs[f] /\ tail[p] = locs[l]

\* Whatever is inserted, erased and moved, nodes, chain, index and level ends
\* tell of the same orders in the same places.
ChainSound == SlotsConserved /\ IndexExact /\ LevelEnds

\* Whenever an order is moved or placed its node has a slot for it, which the
\* code asserts and a release build does not look at; and the order it is
\* placed behind has not been moved from under it.
RoomToPlace ==
  pc = "ripple" =>
    /\ ~IsFull(node[Far])
    /\ ~order.atTail => node[path[1]].slot[order.anchor.slot] # NoOrder

\* An order changes its place only in a cascade: what an erase does, the
\* release of an emptied node included, leaves every other order where it was.
\* The sweep of the matching loop, which finds the next maker before it erases
\* the one it has filled, relies on this.
PlacesKept ==
  [][pc # "ripple" =>
       \A n \in Nodes : \A s \in Slots :
         LET x == node[n].slot[s] IN
         x # NoOrder /\ index'[x] # NoLoc => node'[n].slot[s] = x]_vars

\* The orders met on a walk over the chain.
AsList == WalkOver(LAMBDA loc : [id |-> At(loc), price |-> levelOf[At(loc)]])

\* A walk over the chain is the priority list of the orders: an insert puts the
\* order behind everyone at its price or better, an erase takes out that order,
\* and a cascade, which moves orders between nodes, changes nothing.
Listed == INSTANCE PriorityList WITH list <- AsList
KeepsPriority == Listed!Spec

\* What the matching loop sees, between calls: global_next visits the
\* locations in this order and ends after the last.
SweepExact ==
  pc = "idle" =>
    LET locs == Locations IN
    \A i \in DOMAIN locs :
      /\ GlobalNext(locs[i]) = IF i = Len(locs) THEN NoLoc ELSE locs[i + 1]
      /\ GlobalPrev(locs[i]) = IF i = 1 THEN NoLoc ELSE locs[i - 1]

\* The sweep of the matching loop may hold a location while it erases: the next
\* one is where it was, and from there the walk meets everyone that is left.
SweepSafe == []SweepExact /\ PlacesKept
=============================================================================
