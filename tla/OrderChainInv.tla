---------------------------- MODULE OrderChainInv ----------------------------
(***************************************************************************)
(* The inductive invariant of OrderChain.                                  *)
(*                                                                         *)
(* It says what the state represents through four functions that no        *)
(* variable holds: the position q[n] of every slot of node n, the          *)
(* occupied slots first and the free list behind them, with its inverse    *)
(* r[n]; the rank cp of every node along the chain; and the rank rk of     *)
(* every order in the priority list.  Ranks are compared, never counted,   *)
(* so that an erase leaves those of the others alone.                      *)
(*                                                                         *)
(* Its parts are stated of values, so that a lemma about one of them       *)
(* applies before and after a step alike.                                  *)
(***************************************************************************)
EXTENDS OrderChain

-----------------------------------------------------------------------------
(* One node.                                                               *)

Perm(q, r) ==
  /\ q \in [Slots -> 1 .. N] /\ r \in [1 .. N -> Slots]
  /\ \A s \in Slots : r[q[s]] = s
  /\ \A i \in 1 .. N : q[r[i]] = i

\* The node that holds the orders slot in the first size slots of r, in that
\* order, and has the others in its free list.
NodeOf(slot, size, q, r) ==
  [slot |-> slot,
   next |-> [s \in Slots |-> IF q[s] \in {size, N} THEN npos ELSE r[q[s] + 1]],
   prev |-> [s \in Slots |-> IF q[s] = 1 \/ q[s] > size THEN npos
                             ELSE r[q[s] - 1]],
   head |-> IF size = 0 THEN npos ELSE r[1],
   tail |-> IF size = 0 THEN npos ELSE r[size],
   free |-> IF size = N THEN npos ELSE r[size + 1],
   size |-> size]

NodeIs(nd, q, r) ==
  /\ Perm(q, r)
  /\ nd = NodeOf(nd.slot, nd.size, q, r)
  /\ nd.size \in 0 .. N
  /\ nd.slot \in [Slots -> Ids \union {NoOrder}]
  /\ \A s \in Slots : nd.slot[s] # NoOrder <=> q[s] <= nd.size

-----------------------------------------------------------------------------
(* The nodes nds, of which those of L are in the chain.                    *)

NodesOK(nds, L, q, r) ==
  /\ L \subseteq Nodes
  /\ nds = [n \in Nodes |-> nds[n]]
  /\ q = [n \in Nodes |-> q[n]] /\ r = [n \in Nodes |-> r[n]]
  /\ \A n \in Nodes : NodeIs(nds[n], q[n], r[n])
  /\ \A n \in Nodes \ L : nds[n] = FreshNode

\* The links nx and pv lead from a node to the one with the next rank.
LinksOK(nx, pv, ch, L, cp) ==
  /\ nx \in [Nodes -> Nodes \union {NoNode}]
  /\ pv \in [Nodes -> Nodes \union {NoNode}]
  /\ cp \in [Nodes -> Nat]
  /\ \A m, n \in L : cp[m] = cp[n] => m = n
  /\ \A n \in L :
       IF nx[n] = NoNode THEN \A m \in L : cp[m] <= cp[n]
       ELSE /\ nx[n] \in L /\ cp[n] < cp[nx[n]]
            /\ \A m \in L : cp[m] <= cp[n] \/ cp[nx[n]] <= cp[m]
  /\ \A n \in L :
       IF pv[n] = NoNode THEN \A m \in L : cp[n] <= cp[m]
       ELSE /\ pv[n] \in L /\ cp[pv[n]] < cp[n]
            /\ \A m \in L : cp[m] <= cp[pv[n]] \/ cp[n] <= cp[m]
  /\ IF ch = NoNode THEN L = {}
     ELSE ch \in L /\ \A m \in L : cp[ch] <= cp[m]

\* The index ix leads to every order and every order is in the index.
PlacesOK(nds, L, ix) ==
  /\ ix \in [Ids -> Locs]
  /\ \A x \in Ids : ix[x] # NoLoc =>
       /\ ix[x].node \in L /\ ix[x].slot \in Slots
       /\ nds[ix[x].node].slot[ix[x].slot] = x
  /\ \A n \in Nodes : \A s \in Slots :
       LET x == nds[n].slot[s] IN
       x # NoOrder => ix[x] = [node |-> n, slot |-> s]

\* The order y is ahead of the k-th place of node n.
Ahead(ix, q, cp, y, n, k) ==
  \/ cp[ix[y].node] < cp[n]
  \/ ix[y].node = n /\ q[n][ix[y].slot] < k

RanksOK(ix, q, cp, rk) ==
  /\ rk \in [Ids -> Nat]
  /\ \A x, y \in Ids : ix[x] # NoLoc /\ ix[y] # NoLoc =>
       (rk[x] < rk[y] <=> Ahead(ix, q, cp, x, ix[y].node,
                                q[ix[y].node][ix[y].slot]))

-----------------------------------------------------------------------------
(* The levels.                                                             *)

InLevel(ix, lo, p) == {x \in Ids : ix[x] # NoLoc /\ lo[x] = p}

EndsOK(ix, lo, hd, tl, rk, p) ==
  IF InLevel(ix, lo, p) = {} THEN hd[p] = NoLoc /\ tl[p] = NoLoc
  ELSE /\ \E x \in InLevel(ix, lo, p) :
            hd[p] = ix[x] /\ \A y \in InLevel(ix, lo, p) : rk[x] <= rk[y]
       /\ \E x \in InLevel(ix, lo, p) :
            tl[p] = ix[x] /\ \A y \in InLevel(ix, lo, p) : rk[y] <= rk[x]

LevelsOK(ix, lo, hd, tl, rk) ==
  /\ lo \in [Ids -> Prices \union {0}]
  /\ hd \in [Prices -> Locs] /\ tl \in [Prices -> Locs]
  /\ \A x \in Ids : ix[x] # NoLoc => lo[x] \in Prices
  /\ \A x, y \in Ids : ix[x] # NoLoc /\ ix[y] # NoLoc /\ rk[x] < rk[y] =>
       ~ Better(lo[y], lo[x])
  /\ \A p \in Prices : EndsOK(ix, lo, hd, tl, rk, p)

\* The places before rank k are those of orders at price p or better, the
\* others those of worse ones.
Splits(ix, lo, rk, p, k) ==
  \A y \in Ids : ix[y] # NoLoc =>
    IF rk[y] < k THEN ~ Better(p, lo[y]) ELSE Better(p, lo[y])

-----------------------------------------------------------------------------
(* A cascade.                                                              *)

\* The nodes of path follow each other in the chain; those an order is still
\* to be moved out of are full.
PathOK(cp) ==
  /\ path \in Seq(Nodes) /\ path # <<>>
  /\ \A i \in 1 .. Len(path) : path[i] \in live
  /\ \A i \in 1 .. Len(path) - 1 :
       nextNode[path[i]] = path[i + 1] /\ IsFull(node[path[i]])
  /\ \A i, j \in 1 .. Len(path) : i < j => cp[path[i]] < cp[path[j]]

\* The order to be inserted belongs right behind its anchor, which does not
\* move.
InsertOK(rk) ==
  /\ order \in [id : Ids, price : Prices, anchor : Locs, atTail : BOOLEAN]
  /\ index[order.id] = NoLoc
  /\ \E z \in Ids : /\ index[z] # NoLoc /\ order.anchor = index[z]
                    /\ Splits(index, levelOf, rk, order.price, rk[z] + 1)
  /\ IF order.atTail
     THEN /\ nextNode[order.anchor.node] = path[1]
          /\ order.anchor.slot = node[order.anchor.node].tail
     ELSE /\ order.anchor.node = path[1]
          /\ pc = "walk" \/ Len(path) > 1 =>
               order.anchor.slot # node[path[1]].tail

IdleOK ==
  /\ order = NoInsert /\ path = <<>> /\ hops = 0
  /\ \A n \in live : ~ IsEmpty(node[n])

WalkOK ==
  /\ Free # {} /\ hops = Len(path) - 1 /\ hops <= MaxHops
  /\ \A n \in live : ~ IsEmpty(node[n])

RippleOK ==
  /\ hops \in 0 .. MaxHops /\ Len(path) <= MaxHops + 2
  /\ ~ IsFull(node[Far])
  /\ \A n \in live : n # Far => ~ IsEmpty(node[n])

CascadeOK(cp, rk) ==
  \/ pc = "idle" /\ IdleOK
  \/ pc = "walk" /\ WalkOK /\ PathOK(cp) /\ InsertOK(rk)
  \/ pc = "ripple" /\ RippleOK /\ PathOK(cp) /\ InsertOK(rk)

-----------------------------------------------------------------------------
Represents(q, r, cp, rk) ==
  /\ NodesOK(node, live, q, r)
  /\ LinksOK(nextNode, prevNode, chainHead, live, cp)
  /\ PlacesOK(node, live, index)
  /\ RanksOK(index, q, cp, rk)
  /\ LevelsOK(index, levelOf, head, tail, rk)
  /\ CascadeOK(cp, rk)

IInv == \E q, r, cp, rk : Represents(q, r, cp, rk)
=============================================================================
