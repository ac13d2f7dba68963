--------------------------- MODULE OrderChainProofs ---------------------------
(***************************************************************************)
(* The order side of narb_tree.h never loses track of an order: what the   *)
(* nodes, the chain, the index and the ends of the levels say agrees after *)
(* every step, and inside a cascade between any two moves.  First what one *)
(* operation does to one node, then to the chain, the index and the        *)
(* levels, then that every step keeps the invariant of OrderChainInv.      *)
(***************************************************************************)
EXTENDS OrderChainInv, Integers, TLAPS, FiniteSetTheorems, SequenceTheorems,
        WellFoundedInduction

LEMMA NA == N \in Nat \ {0} /\ NoOrder \notin Ids
  BY ChainAssumption

-----------------------------------------------------------------------------
(* One node: pin_node.h.                                                   *)

\* The free slot s becomes the k-th of the occupied ones, ...
JoinQ(q, s, k, size) ==
  [t \in Slots |-> IF t = s THEN k
                   ELSE IF q[t] >= k /\ q[t] <= size THEN q[t] + 1 ELSE q[t]]
JoinR(r, k, size) ==
  [i \in 1 .. N |-> IF i = k THEN r[size + 1]
                    ELSE IF i > k /\ i <= size + 1 THEN r[i - 1] ELSE r[i]]
\* ... and the k-th of size the first of the free ones.
LeaveQ(q, s, k, size) ==
  [t \in Slots |-> IF t = s THEN size
                   ELSE IF q[t] > k /\ q[t] <= size THEN q[t] - 1 ELSE q[t]]
LeaveR(r, k, size) ==
  [i \in 1 .. N |-> IF i = size THEN r[k]
                    ELSE IF i >= k /\ i < size THEN r[i + 1] ELSE r[i]]

FreshQ == [s \in Slots |-> s + 1]
FreshR == [i \in 1 .. N |-> i - 1]

\* The constructor.
LEMMA FreshIs == NodeIs(FreshNode, FreshQ, FreshR)
<1>1. /\ \A s \in Slots : s + 1 \in 1 .. N
      /\ \A i \in 1 .. N : i - 1 \in Slots
  BY NA DEF Slots
<1>2. FreshQ \in [Slots -> 1 .. N] /\ FreshR \in [1 .. N -> Slots]
  BY <1>1 DEF FreshQ, FreshR
<1>3. \A s \in Slots : FreshQ[s] = s + 1
  BY DEF FreshQ
<1>4. \A i \in 1 .. N : FreshR[i] = i - 1
  BY DEF FreshR
<1>5. Perm(FreshQ, FreshR)
  BY <1>1, <1>2, <1>3, <1>4, NA DEF Perm, Slots
<1>6. /\ FreshNode.size = 0 /\ 0 \in 0 .. N
      /\ FreshNode.slot = [s \in Slots |-> NoOrder]
  BY NA DEF FreshNode
<1>7. \A s \in Slots : /\ s # N - 1 => FreshR[FreshQ[s] + 1] = s + 1
                       /\ FreshQ[s] \in {0, N} <=> s = N - 1
                       /\ FreshQ[s] > 0
  BY <1>1, <1>3, <1>4, NA DEF Slots
<1>8. [s \in Slots |-> IF FreshQ[s] \in {0, N} THEN npos ELSE FreshR[FreshQ[s] + 1]]
        = [s \in Slots |-> IF s = N - 1 THEN npos ELSE s + 1]
  BY <1>7
<1>9. [s \in Slots |-> IF FreshQ[s] = 1 \/ FreshQ[s] > 0 THEN npos
                       ELSE FreshR[FreshQ[s] - 1]]
        = [s \in Slots |-> npos]
  BY <1>7
<1>10. 1 \in 1 .. N /\ FreshR[1] = 0 /\ N # 0
  BY <1>4, NA
<1>11. FreshNode = NodeOf(FreshNode.slot, FreshNode.size, FreshQ, FreshR)
  BY <1>6, <1>8, <1>9, <1>10 DEF FreshNode, NodeOf
<1>12. \A s \in Slots : FreshNode.slot[s] = NoOrder /\ FreshQ[s] > FreshNode.size
  BY <1>6, <1>7
<1> QED BY <1>2, <1>3, <1>5, <1>6, <1>11, <1>12, NA DEF NodeIs, Slots

LEMMA JoinPerm ==
  ASSUME NEW q, NEW r, Perm(q, r), NEW size \in 0 .. N - 1, NEW k \in 1 .. size + 1
  PROVE  Perm(JoinQ(q, r[size + 1], k, size), JoinR(r, k, size))
<1> DEFINE s0 == r[size + 1]
           q1 == JoinQ(q, s0, k, size)
           r1 == JoinR(r, k, size)
<1>1. q \in [Slots -> 1 .. N] /\ r \in [1 .. N -> Slots] /\ s0 \in Slots /\ q[s0] = size + 1
  BY NA DEF Perm
<1>2. \A t \in Slots : q[t] = size + 1 => t = s0
  BY <1>1 DEF Perm
<1>3. q1 \in [Slots -> 1 .. N]
  <2>1. \A t \in Slots : q1[t] \in 1 .. N
    BY <1>1, NA DEF JoinQ
  <2> QED BY <2>1 DEF JoinQ
<1>4. r1 \in [1 .. N -> Slots]
  <2>1. \A i \in 1 .. N : r1[i] \in Slots
    BY <1>1, NA DEF JoinR
  <2> QED BY <2>1 DEF JoinR
<1>5. ASSUME NEW t \in Slots PROVE r1[q1[t]] = t
  BY <1>1, <1>2, <1>3, NA DEF Perm, JoinQ, JoinR
<1>6. ASSUME NEW i \in 1 .. N PROVE q1[r1[i]] = i
  <2>1. CASE i = k
    BY <1>1, <2>1 DEF Perm, JoinQ, JoinR
  <2>2. CASE i > k /\ i <= size + 1
    <3>1. r1[i] = r[i - 1] /\ i - 1 \in 1 .. N /\ q[r[i - 1]] = i - 1
      BY <2>2, NA DEF Perm, JoinR
    <3> QED BY <1>1, <2>2, <3>1 DEF JoinQ
  <2>3. CASE i < k \/ i > size + 1
    <3>1. r1[i] = r[i] /\ q[r[i]] = i
      BY <2>3, NA DEF Perm, JoinR
    <3> QED BY <1>1, <2>3, <3>1 DEF JoinQ
  <2> QED BY <2>1, <2>2, <2>3
<1> QED BY <1>3, <1>4, <1>5, <1>6 DEF Perm

LEMMA LeavePerm ==
  ASSUME NEW q, NEW r, Perm(q, r), NEW size \in 1 .. N, NEW k \in 1 .. size
  PROVE  Perm(LeaveQ(q, r[k], k, size), LeaveR(r, k, size))
<1> DEFINE s0 == r[k]
           q1 == LeaveQ(q, s0, k, size)
           r1 == LeaveR(r, k, size)
<1>1. q \in [Slots -> 1 .. N] /\ r \in [1 .. N -> Slots] /\ s0 \in Slots /\ q[s0] = k
  BY NA DEF Perm
<1>2. \A t \in Slots : q[t] = k => t = s0
  BY <1>1 DEF Perm
<1>3. q1 \in [Slots -> 1 .. N]
  <2>1. \A t \in Slots : q1[t] \in 1 .. N
    BY <1>1, NA DEF LeaveQ
  <2> QED BY <2>1 DEF LeaveQ
<1>4. r1 \in [1 .. N -> Slots]
  <2>1. \A i \in 1 .. N : r1[i] \in Slots
    BY <1>1, NA DEF LeaveR
  <2> QED BY <2>1 DEF LeaveR
<1>5. ASSUME NEW t \in Slots PROVE r1[q1[t]] = t
  BY <1>1, <1>2, <1>3, NA DEF Perm, LeaveQ, LeaveR
<1>6. ASSUME NEW i \in 1 .. N PROVE q1[r1[i]] = i
  <2>1. CASE i = size
    BY <1>1, <2>1 DEF Perm, LeaveQ, LeaveR
  <2>2. CASE i >= k /\ i < size
    <3>1. r1[i] = r[i + 1] /\ i + 1 \in 1 .. N /\ q[r[i + 1]] = i + 1
      BY <2>2, NA DEF Perm, LeaveR
    <3> QED BY <1>1, <2>2, <3>1 DEF LeaveQ
  <2>3. CASE i < k \/ i > size
    <3>1. r1[i] = r[i] /\ q[r[i]] = i
      BY <2>3, NA DEF Perm, LeaveR
    <3> QED BY <1>1, <2>3, <3>1 DEF LeaveQ
  <2> QED BY <2>1, <2>2, <2>3
<1> QED BY <1>3, <1>4, <1>5, <1>6 DEF Perm

\* What a node is, read field by field.
LEMMA NodeFields ==
  ASSUME NEW nd, NEW q, NEW r, NodeIs(nd, q, r)
  PROVE  /\ q \in [Slots -> 1 .. N] /\ r \in [1 .. N -> Slots]
         /\ \A s \in Slots : r[q[s]] = s
         /\ \A i \in 1 .. N : q[r[i]] = i
         /\ nd = [slot |-> nd.slot, next |-> nd.next, prev |-> nd.prev,
                  head |-> nd.head, tail |-> nd.tail, free |-> nd.free,
                  size |-> nd.size]
         /\ nd.size \in 0 .. N
         /\ nd.slot \in [Slots -> Ids \union {NoOrder}]
         /\ \A s \in Slots : nd.slot[s] # NoOrder <=> q[s] <= nd.size
         /\ nd.next \in [Slots -> Slots \union {npos}]
         /\ nd.prev \in [Slots -> Slots \union {npos}]
         /\ \A s \in Slots :
              nd.next[s] = IF q[s] \in {nd.size, N} THEN npos ELSE r[q[s] + 1]
         /\ \A s \in Slots :
              nd.prev[s] = IF q[s] = 1 \/ q[s] > nd.size THEN npos
                           ELSE r[q[s] - 1]
         /\ nd.head = IF nd.size = 0 THEN npos ELSE r[1]
         /\ nd.tail = IF nd.size = 0 THEN npos ELSE r[nd.size]
         /\ nd.free = IF nd.size = N THEN npos ELSE r[nd.size + 1]
<1>1. /\ Perm(q, r) /\ nd = NodeOf(nd.slot, nd.size, q, r)
      /\ nd.size \in 0 .. N
      /\ nd.slot \in [Slots -> Ids \union {NoOrder}]
      /\ \A s \in Slots : nd.slot[s] # NoOrder <=> q[s] <= nd.size
  BY DEF NodeIs
<1>2. /\ q \in [Slots -> 1 .. N] /\ r \in [1 .. N -> Slots]
      /\ \A s \in Slots : r[q[s]] = s
      /\ \A i \in 1 .. N : q[r[i]] = i
  BY <1>1 DEF Perm
<1> DEFINE nx == [s \in Slots |-> IF q[s] \in {nd.size, N} THEN npos
                                  ELSE r[q[s] + 1]]
           pv == [s \in Slots |-> IF q[s] = 1 \/ q[s] > nd.size THEN npos
                                  ELSE r[q[s] - 1]]
<1>3. /\ nd.next = nx /\ nd.prev = pv
      /\ nd.head = IF nd.size = 0 THEN npos ELSE r[1]
      /\ nd.tail = IF nd.size = 0 THEN npos ELSE r[nd.size]
      /\ nd.free = IF nd.size = N THEN npos ELSE r[nd.size + 1]
      /\ nd = [slot |-> nd.slot, next |-> nd.next, prev |-> nd.prev,
                  head |-> nd.head, tail |-> nd.tail, free |-> nd.free,
                  size |-> nd.size]
  BY <1>1 DEF NodeOf
<1>4. \A s \in Slots : nx[s] \in Slots \union {npos} /\ pv[s] \in Slots \union {npos}
  <2> SUFFICES ASSUME NEW s \in Slots
               PROVE  nx[s] \in Slots \union {npos} /\ pv[s] \in Slots \union {npos}
    OBVIOUS
  <2>1. q[s] \in 1 .. N
    BY <1>2
  <2>2. q[s] # N => q[s] + 1 \in 1 .. N
    BY <2>1, NA
  <2>3. q[s] # 1 => q[s] - 1 \in 1 .. N
    BY <2>1, NA
  <2> QED BY <1>2, <2>2, <2>3
<1>5. nx \in [Slots -> Slots \union {npos}] /\ pv \in [Slots -> Slots \union {npos}]
  BY <1>4
<1> QED BY <1>1, <1>2, <1>3, <1>5

LEMMA NodeBuilt ==
  ASSUME NEW nd, NEW q, NEW r, Perm(q, r),
         nd = [slot |-> nd.slot, next |-> nd.next, prev |-> nd.prev,
               head |-> nd.head, tail |-> nd.tail, free |-> nd.free,
               size |-> nd.size],
         nd.size \in 0 .. N,
         nd.slot \in [Slots -> Ids \union {NoOrder}],
         \A s \in Slots : nd.slot[s] # NoOrder <=> q[s] <= nd.size,
         nd.next = [s \in Slots |-> nd.next[s]],
         nd.prev = [s \in Slots |-> nd.prev[s]],
         \A s \in Slots :
              nd.next[s] = IF q[s] \in {nd.size, N} THEN npos ELSE r[q[s] + 1],
         \A s \in Slots :
              nd.prev[s] = IF q[s] = 1 \/ q[s] > nd.size THEN npos
                           ELSE r[q[s] - 1],
         nd.head = IF nd.size = 0 THEN npos ELSE r[1],
         nd.tail = IF nd.size = 0 THEN npos ELSE r[nd.size],
         nd.free = IF nd.size = N THEN npos ELSE r[nd.size + 1]
  PROVE  NodeIs(nd, q, r)
<1> DEFINE nx == [s \in Slots |-> IF q[s] \in {nd.size, N} THEN npos
                                  ELSE r[q[s] + 1]]
           pv == [s \in Slots |-> IF q[s] = 1 \/ q[s] > nd.size THEN npos
                                  ELSE r[q[s] - 1]]
<1>1. nd.next = nx
  <2>1. \A s \in Slots : nx[s] = nd.next[s]
    OBVIOUS
  <2> QED BY <2>1
<1>2. nd.prev = pv
  <2>1. \A s \in Slots : pv[s] = nd.prev[s]
    OBVIOUS
  <2> QED BY <2>1
<1> HIDE DEF nx, pv
<1>3. nd = [slot |-> nd.slot, next |-> nx, prev |-> pv,
            head |-> IF nd.size = 0 THEN npos ELSE r[1],
            tail |-> IF nd.size = 0 THEN npos ELSE r[nd.size],
            free |-> IF nd.size = N THEN npos ELSE r[nd.size + 1],
            size |-> nd.size]
  BY <1>1, <1>2
<1>4. nd = NodeOf(nd.slot, nd.size, q, r)
  BY <1>3 DEF NodeOf, nx, pv
<1> QED BY <1>4 DEF NodeIs

LEMMA AllocFields ==
  ASSUME NEW nd, NEW q, NEW r, NodeIs(nd, q, r), nd.size # N, NEW x \in Ids
  PROVE  /\ Alloc(nd, x) =
              [slot |-> [nd.slot EXCEPT ![nd.free] = x], next |-> nd.next,
               prev |-> nd.prev, head |-> nd.head, tail |-> nd.tail,
               free |-> nd.next[nd.free], size |-> nd.size + 1]
         /\ nd.free = r[nd.size + 1] /\ nd.free \in Slots
         /\ q[nd.free] = nd.size + 1
         /\ nd.slot[nd.free] = NoOrder
         /\ nd.next[nd.free] = IF nd.size + 1 = N THEN npos ELSE r[nd.size + 2]
         /\ nd.size + 1 \in 1 .. N
<1>1. nd.size \in 0 .. N /\ nd.size + 1 \in 1 .. N
  BY NodeFields, NA
<1>2. /\ nd.free = r[nd.size + 1] /\ nd.free \in Slots
      /\ q[nd.free] = nd.size + 1
  <2>1. nd.free = r[nd.size + 1]
    BY NodeFields
  <2>2. /\ r \in [1 .. N -> Slots]
        /\ \A i \in 1 .. N : q[r[i]] = i
    BY NodeFields
  <2> QED BY <1>1, <2>1, <2>2
<1>3. nd.slot[nd.free] = NoOrder
  BY <1>1, <1>2, NodeFields
<1>4. nd.next[nd.free] = IF nd.size + 1 = N THEN npos ELSE r[nd.size + 2]
  BY <1>1, <1>2, NodeFields, NA
<1>5. nd = [slot |-> nd.slot, next |-> nd.next, prev |-> nd.prev,
            head |-> nd.head, tail |-> nd.tail, free |-> nd.free,
            size |-> nd.size]
  BY NodeFields
<1> DEFINE a == nd.slot b == nd.next c == nd.prev d == nd.head e == nd.tail
           f == nd.free g == nd.size
<1>6. nd = [slot |-> a, next |-> b, prev |-> c, head |-> d, tail |-> e,
            free |-> f, size |-> g]
  BY <1>5
<1>7. Alloc(nd, x) = [slot |-> [a EXCEPT ![f] = x], next |-> b, prev |-> c,
                      head |-> d, tail |-> e, free |-> b[f], size |-> g + 1]
  <2>1. Alloc(nd, x) = [nd EXCEPT !.free = b[f], !.slot[f] = x, !.size = g + 1]
    BY DEF Alloc
  <2> HIDE DEF a, b, c, d, e, f, g
  <2> QED BY <2>1, <1>6
<1> QED BY <1>1, <1>2, <1>3, <1>4, <1>7

LEMMA LinkFrontFields ==
  ASSUME NEW a, NEW b, NEW c, NEW d, NEW e, NEW f, NEW g, NEW s
  PROVE  LinkFront([slot |-> a, next |-> b, prev |-> c, head |-> d, tail |-> e,
                    free |-> f, size |-> g], s)
         = [slot |-> a, next |-> [b EXCEPT ![s] = d],
            prev |-> [t \in Slots |-> IF t = s THEN npos
                                      ELSE IF t = d THEN s ELSE c[t]],
            head |-> s, tail |-> IF d = npos THEN s ELSE e,
            free |-> f, size |-> g]
<1> DEFINE nd == [slot |-> a, next |-> b, prev |-> c, head |-> d, tail |-> e,
                  free |-> f, size |-> g]
           pv == [t \in Slots |-> IF t = s THEN npos
                                      ELSE IF t = d THEN s ELSE c[t]]
           tl == IF d = npos THEN s ELSE e
           n1 == [nd EXCEPT !.prev = pv]
           n2 == [n1 EXCEPT !.next[s] = d]
           n3 == [n2 EXCEPT !.tail = tl]
           n4 == [n3 EXCEPT !.head = s]
<1>1. /\ nd.head = d /\ nd.tail = e /\ nd.prev = c
  OBVIOUS
<1>2. LinkFront(nd, s) = [nd EXCEPT !.prev = pv, !.next[s] = d, !.tail = tl, !.head = s]
  BY <1>1 DEF LinkFront
<1>3. LinkFront(nd, s) = n4
  BY <1>2
<1> HIDE DEF pv, tl
<1>4. n1 = [slot |-> a, next |-> b, prev |-> pv, head |-> d, tail |-> e,
                  free |-> f, size |-> g]
  OBVIOUS
<1> HIDE DEF n1
<1>5. n2 = [slot |-> a, next |-> [b EXCEPT ![s] = d], prev |-> pv, head |-> d, tail |-> e,
                  free |-> f, size |-> g]
  BY <1>4
<1> HIDE DEF n2
<1>6. n3 = [slot |-> a, next |-> [b EXCEPT ![s] = d], prev |-> pv, head |-> d, tail |-> tl,
                  free |-> f, size |-> g]
  BY <1>5
<1> HIDE DEF n3
<1>7. n4 = [slot |-> a, next |-> [b EXCEPT ![s] = d], prev |-> pv, head |-> s, tail |-> tl,
                  free |-> f, size |-> g]
  BY <1>6
<1> QED BY <1>3, <1>7 DEF pv, tl

LEMMA PrependIs ==
  ASSUME NEW nd, NEW q, NEW r, NodeIs(nd, q, r), nd.size # N, NEW x \in Ids
  PROVE  /\ NodeIs(NodePrepend(nd, x), JoinQ(q, nd.free, 1, nd.size),
                   JoinR(r, 1, nd.size))
         /\ NodePrepend(nd, x).size = nd.size + 1
         /\ NodePrepend(nd, x).slot = [nd.slot EXCEPT ![nd.free] = x]
<1> DEFINE s0 == nd.free
           size == nd.size
           q1 == JoinQ(q, s0, 1, size)
           r1 == JoinR(r, 1, size)
           nd1 == NodePrepend(nd, x)
           sl == [nd.slot EXCEPT ![s0] = x]
           nx == [nd.next EXCEPT ![s0] = nd.head]
           pv == [t \in Slots |-> IF t = s0 THEN npos
                                  ELSE IF t = nd.head THEN s0 ELSE nd.prev[t]]
           tl == IF nd.head = npos THEN s0 ELSE nd.tail
           fr == nd.next[nd.free]
<1>1. Alloc(nd, x) = [slot |-> sl, next |-> nd.next, prev |-> nd.prev,
                      head |-> nd.head, tail |-> nd.tail, free |-> fr,
                      size |-> size + 1]
  BY AllocFields
<1>2. nd1 = [slot |-> sl, next |-> nx, prev |-> pv, head |-> s0, tail |-> tl,
             free |-> fr, size |-> size + 1]
  BY <1>1, LinkFrontFields DEF NodePrepend
<1>3. /\ s0 = r[size + 1] /\ s0 \in Slots /\ q[s0] = size + 1
      /\ nd.slot[s0] = NoOrder /\ size + 1 \in 1 .. N /\ size \in 0 .. N - 1
      /\ fr = IF size + 1 = N THEN npos ELSE r[size + 2]
  <2>1. nd.size \in 0 .. N
    BY NodeFields
  <2> QED BY <2>1, AllocFields, NA
<1>4. /\ q \in [Slots -> 1 .. N] /\ r \in [1 .. N -> Slots]
      /\ \A s \in Slots : r[q[s]] = s
      /\ \A i \in 1 .. N : q[r[i]] = i
      /\ nd.next \in [Slots -> Slots \union {npos}]
      /\ nd.prev \in [Slots -> Slots \union {npos}]
      /\ nd.slot \in [Slots -> Ids \union {NoOrder}]
      /\ \A s \in Slots : nd.slot[s] # NoOrder <=> q[s] <= size
      /\ \A s \in Slots :
           nd.next[s] = IF q[s] \in {size, N} THEN npos ELSE r[q[s] + 1]
      /\ \A s \in Slots :
           nd.prev[s] = IF q[s] = 1 \/ q[s] > size THEN npos ELSE r[q[s] - 1]
      /\ nd.head = IF size = 0 THEN npos ELSE r[1]
      /\ nd.tail = IF size = 0 THEN npos ELSE r[size]
  BY NodeFields
<1>5. Perm(q1, r1)
  <2>1. Perm(q, r)
    BY DEF NodeIs
  <2> QED BY <1>3, <2>1, JoinPerm
<1>6. /\ \A t \in Slots : q1[t] = IF t = s0 THEN 1
                                  ELSE IF q[t] <= size THEN q[t] + 1 ELSE q[t]
      /\ \A i \in 1 .. N : r1[i] = IF i = 1 THEN s0
                                   ELSE IF i <= size + 1 THEN r[i - 1] ELSE r[i]
  BY <1>3, <1>4, NA DEF JoinQ, JoinR
<1>7. npos \notin Slots
  BY NA DEF npos, Slots
<1> HIDE DEF s0, size, q1, r1, sl, nx, pv, tl, fr
<1>8. /\ nx = [s \in Slots |-> nx[s]] /\ pv = [s \in Slots |-> pv[s]]
      /\ sl \in [Slots -> Ids \union {NoOrder}]
  BY <1>3, <1>4 DEF nx, pv, sl
<1>9. \A s \in Slots : sl[s] # NoOrder <=> q1[s] <= size + 1
  BY <1>3, <1>4, <1>6, NA DEF sl
<1>10. ASSUME NEW s \in Slots
       PROVE  nx[s] = IF q1[s] \in {size + 1, N} THEN npos ELSE r1[q1[s] + 1]
  <2>1. q[s] \in 1 .. N
    BY <1>4
  <2>2. CASE s = s0
    BY <1>3, <1>4, <1>6, <2>2, NA DEF nx
  <2>3. CASE s # s0
    <3>1. nx[s] = nd.next[s] /\ q[s] # size + 1
      BY <1>3, <1>4, <2>3 DEF nx
    <3> QED BY <1>3, <1>4, <1>6, <2>1, <2>3, <3>1, NA
  <2> QED BY <2>2, <2>3
<1>11. ASSUME NEW s \in Slots
       PROVE  pv[s] = IF q1[s] = 1 \/ q1[s] > size + 1 THEN npos
                      ELSE r1[q1[s] - 1]
  <2>1. q[s] \in 1 .. N
    BY <1>4
  <2>2. CASE s = s0
    BY <1>6, <2>2 DEF pv
  <2>3. CASE s # s0 /\ s = nd.head
    BY <1>3, <1>4, <1>6, <1>7, <2>1, <2>3, NA DEF pv
  <2>4. CASE s # s0 /\ s # nd.head
    <3>1. pv[s] = nd.prev[s] /\ q[s] # size + 1
      BY <1>3, <1>4, <2>4 DEF pv
    <3>2. q[s] # 1
      <4>1. CASE size = 0
        BY <3>1, <4>1
      <4>2. CASE size # 0
        BY <1>4, <2>4, <4>2
      <4> QED BY <4>1, <4>2
    <3>3. size \in Nat
      BY <1>3
    <3>4. CASE q[s] > size
      BY <1>4, <1>6, <2>1, <2>4, <3>1, <3>2, <3>3, <3>4, NA
    <3>5. CASE q[s] <= size
      <4>1. q1[s] = q[s] + 1 /\ pv[s] = r[q[s] - 1]
        BY <1>4, <1>6, <2>1, <2>4, <3>1, <3>2, <3>3, <3>5
      <4>2. r1[q[s]] = r[q[s] - 1]
        BY <1>6, <2>1, <3>2, <3>3, <3>5
      <4>3. (q[s] + 1) - 1 = q[s] /\ q[s] + 1 # 1 /\ ~(q[s] + 1 > size + 1)
        BY <2>1, <3>3, <3>5
      <4> QED BY <4>1, <4>2, <4>3
    <3> QED BY <2>1, <3>3, <3>4, <3>5
  <2> QED BY <2>2, <2>3, <2>4
<1>12. s0 = IF size + 1 = 0 THEN npos ELSE r1[1]
  BY <1>3, <1>6, NA
<1>13. tl = IF size + 1 = 0 THEN npos ELSE r1[size + 1]
  BY <1>3, <1>4, <1>6, <1>7, NA DEF tl, size
<1>14. fr = IF size + 1 = N THEN npos ELSE r1[size + 1 + 1]
  BY <1>3, <1>6, NA
<1>15. NodeIs(nd1, q1, r1)
  <2>1. size + 1 \in 0 .. N
    BY <1>3, NA
  <2> HIDE DEF nd1
  <2> QED BY <1>2, <1>5, <1>8, <1>9, <1>10, <1>11, <1>12, <1>13, <1>14, <2>1, NodeBuilt
<1> QED BY <1>2, <1>15 DEF s0, size, q1, r1, sl

LEMMA LinkBackFields ==
  ASSUME NEW a, NEW b, NEW c, NEW d, NEW e, NEW f, NEW g, NEW s
  PROVE  LinkBack([slot |-> a, next |-> b, prev |-> c, head |-> d, tail |-> e,
                   free |-> f, size |-> g], s)
         = [slot |-> a,
            next |-> [t \in Slots |-> IF t = s THEN npos
                                      ELSE IF t = e THEN s ELSE b[t]],
            prev |-> [c EXCEPT ![s] = e],
            head |-> IF e = npos THEN s ELSE d, tail |-> s,
            free |-> f, size |-> g]
<1> DEFINE nd == [slot |-> a, next |-> b, prev |-> c, head |-> d, tail |-> e,
                  free |-> f, size |-> g]
           nx == [t \in Slots |-> IF t = s THEN npos
                                  ELSE IF t = e THEN s ELSE b[t]]
           hd == IF e = npos THEN s ELSE d
           n1 == [nd EXCEPT !.next = nx]
           n2 == [n1 EXCEPT !.prev[s] = e]
           n3 == [n2 EXCEPT !.head = hd]
           n4 == [n3 EXCEPT !.tail = s]
<1>1. nd.head = d /\ nd.tail = e /\ nd.next = b
  OBVIOUS
<1>2. LinkBack(nd, s) = [nd EXCEPT !.next = nx, !.prev[s] = e, !.head = hd, !.tail = s]
  BY <1>1 DEF LinkBack
<1>3. LinkBack(nd, s) = n4
  BY <1>2
<1> HIDE DEF nx, hd
<1>4. n1 = [slot |-> a, next |-> nx, prev |-> c, head |-> d, tail |-> e,
            free |-> f, size |-> g]
  OBVIOUS
<1> HIDE DEF n1
<1>5. n2 = [slot |-> a, next |-> nx, prev |-> [c EXCEPT ![s] = e], head |-> d,
            tail |-> e, free |-> f, size |-> g]
  BY <1>4
<1> HIDE DEF n2
<1>6. n3 = [slot |-> a, next |-> nx, prev |-> [c EXCEPT ![s] = e], head |-> hd,
            tail |-> e, free |-> f, size |-> g]
  BY <1>5
<1> HIDE DEF n3
<1>7. n4 = [slot |-> a, next |-> nx, prev |-> [c EXCEPT ![s] = e], head |-> hd,
            tail |-> s, free |-> f, size |-> g]
  BY <1>6
<1> QED BY <1>3, <1>7 DEF nx, hd

\* append: the new order is the last.
LEMMA AppendIs ==
  ASSUME NEW nd, NEW q, NEW r, NodeIs(nd, q, r), nd.size # N, NEW x \in Ids
  PROVE  /\ NodeIs(NodeAppend(nd, x), JoinQ(q, nd.free, nd.size + 1, nd.size),
                   JoinR(r, nd.size + 1, nd.size))
         /\ NodeAppend(nd, x).size = nd.size + 1
         /\ NodeAppend(nd, x).slot = [nd.slot EXCEPT ![nd.free] = x]
<1> DEFINE s0 == nd.free
           size == nd.size
           q1 == JoinQ(q, s0, size + 1, size)
           r1 == JoinR(r, size + 1, size)
           nd1 == NodeAppend(nd, x)
           sl == [nd.slot EXCEPT ![s0] = x]
           nx == [t \in Slots |-> IF t = s0 THEN npos
                                  ELSE IF t = nd.tail THEN s0 ELSE nd.next[t]]
           pv == [nd.prev EXCEPT ![s0] = nd.tail]
           hd == IF nd.tail = npos THEN s0 ELSE nd.head
           fr == nd.next[nd.free]
<1>1. Alloc(nd, x) = [slot |-> sl, next |-> nd.next, prev |-> nd.prev,
                      head |-> nd.head, tail |-> nd.tail, free |-> fr,
                      size |-> size + 1]
  BY AllocFields
<1>2. nd1 = [slot |-> sl, next |-> nx, prev |-> pv, head |-> hd, tail |-> s0,
             free |-> fr, size |-> size + 1]
  BY <1>1, LinkBackFields DEF NodeAppend
<1>3. /\ s0 = r[size + 1] /\ s0 \in Slots /\ q[s0] = size + 1
      /\ nd.slot[s0] = NoOrder /\ size + 1 \in 1 .. N /\ size \in 0 .. N - 1
      /\ fr = IF size + 1 = N THEN npos ELSE r[size + 2]
  <2>1. nd.size \in 0 .. N
    BY NodeFields
  <2> QED BY <2>1, AllocFields, NA
<1>4. /\ q \in [Slots -> 1 .. N] /\ r \in [1 .. N -> Slots]
      /\ \A s \in Slots : r[q[s]] = s
      /\ \A i \in 1 .. N : q[r[i]] = i
      /\ nd.next \in [Slots -> Slots \union {npos}]
      /\ nd.prev \in [Slots -> Slots \union {npos}]
      /\ nd.slot \in [Slots -> Ids \union {NoOrder}]
      /\ \A s \in Slots : nd.slot[s] # NoOrder <=> q[s] <= size
      /\ \A s \in Slots :
           nd.next[s] = IF q[s] \in {size, N} THEN npos ELSE r[q[s] + 1]
      /\ \A s \in Slots :
           nd.prev[s] = IF q[s] = 1 \/ q[s] > size THEN npos ELSE r[q[s] - 1]
      /\ nd.head = IF size = 0 THEN npos ELSE r[1]
      /\ nd.tail = IF size = 0 THEN npos ELSE r[size]
  BY NodeFields
<1>5. Perm(q1, r1)
  <2>1. Perm(q, r)
    BY DEF NodeIs
  <2> QED BY <1>3, <2>1, JoinPerm
<1>6. /\ \A t \in Slots : q1[t] = q[t]
      /\ \A i \in 1 .. N : r1[i] = r[i]
  BY <1>3, <1>4, NA DEF JoinQ, JoinR
<1>7. npos \notin Slots
  BY NA DEF npos, Slots
<1> HIDE DEF s0, size, q1, r1, sl, nx, pv, hd, fr
<1>8. /\ nx = [s \in Slots |-> nx[s]] /\ pv = [s \in Slots |-> pv[s]]
      /\ sl \in [Slots -> Ids \union {NoOrder}]
  BY <1>3, <1>4 DEF nx, pv, sl
<1>9. \A s \in Slots : sl[s] # NoOrder <=> q1[s] <= size + 1
  BY <1>3, <1>4, <1>6, NA DEF sl
<1>10. ASSUME NEW s \in Slots
       PROVE  nx[s] = IF q1[s] \in {size + 1, N} THEN npos ELSE r1[q1[s] + 1]
  <2>1. q[s] \in 1 .. N /\ q1[s] = q[s]
    BY <1>4, <1>6
  <2>2. CASE s = s0
    BY <1>3, <1>6, <2>2 DEF nx
  <2>3. CASE s # s0 /\ s = nd.tail
    <3>1. size # 0 /\ q[s] = size
      BY <1>3, <1>4, <1>7, <2>3, NA
    <3> QED BY <1>3, <1>6, <2>1, <2>3, <3>1, NA DEF nx
  <2>4. CASE s # s0 /\ s # nd.tail
    <3>1. nx[s] = nd.next[s] /\ q[s] # size + 1
      BY <1>3, <1>4, <2>4 DEF nx
    <3>2. q[s] # size
      <4>1. CASE size = 0
        BY <2>1, <4>1
      <4>2. CASE size # 0
        BY <1>4, <2>4, <4>2
      <4> QED BY <4>1, <4>2
    <3> QED BY <1>3, <1>4, <1>6, <2>1, <3>1, <3>2, NA
  <2> QED BY <2>2, <2>3, <2>4
<1>11. ASSUME NEW s \in Slots
       PROVE  pv[s] = IF q1[s] = 1 \/ q1[s] > size + 1 THEN npos
                      ELSE r1[q1[s] - 1]
  <2>1. q[s] \in 1 .. N /\ q1[s] = q[s]
    BY <1>4, <1>6
  <2>2. CASE s = s0
    <3>1. pv[s] = nd.tail
      BY <1>3, <1>4, <2>2 DEF pv
    <3>2. size # 0 => r1[size] = r[size]
      BY <1>3, <1>6, NA
    <3> QED BY <1>3, <1>4, <2>1, <2>2, <3>1, <3>2, NA
  <2>3. CASE s # s0
    <3>1. pv[s] = nd.prev[s] /\ q[s] # size + 1
      BY <1>3, <1>4, <2>3 DEF pv
    <3> QED BY <1>3, <1>4, <1>6, <2>1, <3>1, NA
  <2> QED BY <2>2, <2>3
<1>12. hd = IF size + 1 = 0 THEN npos ELSE r1[1]
  BY <1>3, <1>4, <1>6, <1>7, NA DEF hd
<1>13. s0 = IF size + 1 = 0 THEN npos ELSE r1[size + 1]
  BY <1>3, <1>6, NA
<1>14. fr = IF size + 1 = N THEN npos ELSE r1[size + 1 + 1]
  BY <1>3, <1>6, NA
<1>15. NodeIs(nd1, q1, r1)
  <2>1. size + 1 \in 0 .. N
    BY <1>3, NA
  <2> HIDE DEF nd1
  <2> QED BY <1>2, <1>5, <1>8, <1>9, <1>10, <1>11, <1>12, <1>13, <1>14, <2>1, NodeBuilt
<1> QED BY <1>2, <1>15 DEF s0, size, q1, r1, sl

LEMMA SpliceFields ==
  ASSUME NEW a, NEW b, NEW c, NEW d, NEW e, NEW f, NEW g, NEW s, NEW ref
  PROVE  SpliceAfter([slot |-> a, next |-> b, prev |-> c, head |-> d,
                      tail |-> e, free |-> f, size |-> g], ref, s)
         = [slot |-> a,
            next |-> [t \in Slots |-> IF t = s THEN b[ref]
                                      ELSE IF t = ref THEN s ELSE b[t]],
            prev |-> [t \in Slots |-> IF t = s THEN ref
                                      ELSE IF t = b[ref] THEN s ELSE c[t]],
            head |-> d, tail |-> IF b[ref] = npos THEN s ELSE e,
            free |-> f, size |-> g]
<1> DEFINE nd == [slot |-> a, next |-> b, prev |-> c, head |-> d, tail |-> e,
                  free |-> f, size |-> g]
           nx == [t \in Slots |-> IF t = s THEN b[ref]
                                  ELSE IF t = ref THEN s ELSE b[t]]
           pv == [t \in Slots |-> IF t = s THEN ref
                                  ELSE IF t = b[ref] THEN s ELSE c[t]]
           tl == IF b[ref] = npos THEN s ELSE e
           n1 == [nd EXCEPT !.prev = pv]
           n2 == [n1 EXCEPT !.next = nx]
           n3 == [n2 EXCEPT !.tail = tl]
<1>1. nd.tail = e /\ nd.next = b /\ nd.prev = c
  OBVIOUS
<1>2. SpliceAfter(nd, ref, s) = [nd EXCEPT !.prev = pv, !.next = nx, !.tail = tl]
  BY <1>1 DEF SpliceAfter
<1>3. SpliceAfter(nd, ref, s) = n3
  BY <1>2
<1> HIDE DEF nx, pv, tl
<1>4. n1 = [slot |-> a, next |-> b, prev |-> pv, head |-> d, tail |-> e,
            free |-> f, size |-> g]
  OBVIOUS
<1> HIDE DEF n1
<1>5. n2 = [slot |-> a, next |-> nx, prev |-> pv, head |-> d,
            tail |-> e, free |-> f, size |-> g]
  BY <1>4
<1> HIDE DEF n2
<1>6. n3 = [slot |-> a, next |-> nx, prev |-> pv, head |-> d,
            tail |-> tl, free |-> f, size |-> g]
  BY <1>5
<1> QED BY <1>3, <1>6 DEF nx, pv, tl

\* insert_after: the new order comes right behind ref.
LEMMA InsertAfterIs ==
  ASSUME NEW nd, NEW q, NEW r, NodeIs(nd, q, r), nd.size # N, NEW x \in Ids,
         NEW ref \in Slots, nd.slot[ref] # NoOrder
  PROVE  /\ NodeIs(NodeInsertAfter(nd, ref, x),
                   JoinQ(q, nd.free, q[ref] + 1, nd.size),
                   JoinR(r, q[ref] + 1, nd.size))
         /\ NodeInsertAfter(nd, ref, x).size = nd.size + 1
         /\ NodeInsertAfter(nd, ref, x).slot = [nd.slot EXCEPT ![nd.free] = x]
<1> DEFINE s0 == nd.free
           size == nd.size
           k == q[ref]
           q1 == JoinQ(q, s0, k + 1, size)
           r1 == JoinR(r, k + 1, size)
           nd1 == NodeInsertAfter(nd, ref, x)
           sl == [nd.slot EXCEPT ![s0] = x]
           n0 == nd.next[ref]
           nx == [t \in Slots |-> IF t = s0 THEN n0
                                  ELSE IF t = ref THEN s0 ELSE nd.next[t]]
           pv == [t \in Slots |-> IF t = s0 THEN ref
                                  ELSE IF t = n0 THEN s0 ELSE nd.prev[t]]
           tl == IF n0 = npos THEN s0 ELSE nd.tail
           fr == nd.next[nd.free]
<1>1. Alloc(nd, x) = [slot |-> sl, next |-> nd.next, prev |-> nd.prev,
                      head |-> nd.head, tail |-> nd.tail, free |-> fr,
                      size |-> size + 1]
  BY AllocFields
<1>2. nd1 = [slot |-> sl, next |-> nx, prev |-> pv, head |-> nd.head, tail |-> tl,
             free |-> fr, size |-> size + 1]
  BY <1>1, SpliceFields DEF NodeInsertAfter
<1>3. /\ s0 = r[size + 1] /\ s0 \in Slots /\ q[s0] = size + 1
      /\ nd.slot[s0] = NoOrder /\ size + 1 \in 1 .. N /\ size \in 0 .. N - 1
      /\ fr = IF size + 1 = N THEN npos ELSE r[size + 2]
  <2>1. nd.size \in 0 .. N
    BY NodeFields
  <2> QED BY <2>1, AllocFields, NA
<1>4. /\ q \in [Slots -> 1 .. N] /\ r \in [1 .. N -> Slots]
      /\ \A s \in Slots : r[q[s]] = s
      /\ \A i \in 1 .. N : q[r[i]] = i
      /\ nd.next \in [Slots -> Slots \union {npos}]
      /\ nd.prev \in [Slots -> Slots \union {npos}]
      /\ nd.slot \in [Slots -> Ids \union {NoOrder}]
      /\ \A s \in Slots : nd.slot[s] # NoOrder <=> q[s] <= size
      /\ \A s \in Slots :
           nd.next[s] = IF q[s] \in {size, N} THEN npos ELSE r[q[s] + 1]
      /\ \A s \in Slots :
           nd.prev[s] = IF q[s] = 1 \/ q[s] > size THEN npos ELSE r[q[s] - 1]
      /\ nd.head = IF size = 0 THEN npos ELSE r[1]
      /\ nd.tail = IF size = 0 THEN npos ELSE r[size]
  BY NodeFields
<1>4a. k \in 1 .. size /\ k + 1 \in 1 .. size + 1 /\ ref # s0 /\ r[k] = ref
       /\ n0 = IF k = size THEN npos ELSE r[k + 1]
  <2>1. k \in 1 .. N /\ k <= size /\ size \in Nat
    BY <1>3, <1>4
  <2> QED BY <1>3, <1>4, <2>1, NA
<1>5. Perm(q1, r1)
  <2>1. Perm(q, r)
    BY DEF NodeIs
  <2> QED BY <1>3, <1>4a, <2>1, JoinPerm
<1>6. /\ \A t \in Slots : q1[t] = IF t = s0 THEN k + 1
                                  ELSE IF q[t] >= k + 1 /\ q[t] <= size
                                       THEN q[t] + 1 ELSE q[t]
      /\ \A i \in 1 .. N : r1[i] = IF i = k + 1 THEN s0
                                   ELSE IF i > k + 1 /\ i <= size + 1
                                        THEN r[i - 1] ELSE r[i]
  BY <1>3 DEF JoinQ, JoinR
<1>7. npos \notin Slots
  BY NA DEF npos, Slots
<1> HIDE DEF s0, size, q1, r1, sl, nx, pv, tl, fr, k, n0
<1>8. /\ nx = [s \in Slots |-> nx[s]] /\ pv = [s \in Slots |-> pv[s]]
      /\ sl \in [Slots -> Ids \union {NoOrder}]
  BY <1>3, <1>4 DEF nx, pv, sl
<1>9. \A s \in Slots : sl[s] # NoOrder <=> q1[s] <= size + 1
  <2> SUFFICES ASSUME NEW s \in Slots
               PROVE  sl[s] # NoOrder <=> q1[s] <= size + 1
    OBVIOUS
  <2>1. q[s] \in 1 .. N
    BY <1>4
  <2>2. CASE s = s0
    BY <1>3, <1>4, <1>4a, <1>6, <2>2, NA DEF sl
  <2>3. CASE s # s0
    <3>1. sl[s] = nd.slot[s] /\ q[s] # size + 1
      BY <1>3, <1>4, <2>3 DEF sl
    <3> QED BY <1>3, <1>4, <1>4a, <1>6, <2>1, <2>3, <3>1
  <2> QED BY <2>2, <2>3
<1>10. ASSUME NEW s \in Slots
       PROVE  nx[s] = IF q1[s] \in {size + 1, N} THEN npos ELSE r1[q1[s] + 1]
  <2>1. q[s] \in 1 .. N
    BY <1>4
  <2>2. CASE s = s0
    <3>1. nx[s] = n0 /\ q1[s] = k + 1
      BY <1>6, <2>2 DEF nx
    <3>2. CASE k = size
      BY <1>4a, <3>1, <3>2
    <3>3. CASE k # size
      <4>1. r1[k + 2] = r[k + 1] /\ k + 1 # size + 1 /\ k + 1 # N
        BY <1>3, <1>4a, <1>6, <3>3, NA
      <4> QED BY <1>4a, <3>1, <3>3, <4>1
    <3> QED BY <3>2, <3>3
  <2>3. CASE s = ref
    <3>1. nx[s] = s0 /\ q[s] = k /\ q1[s] = k
      BY <1>3, <1>4, <1>4a, <1>6, <2>3 DEF nx, k
    <3> QED BY <1>3, <1>4a, <1>6, <3>1, NA
  <2>4. CASE s # s0 /\ s # ref
    <3>1. nx[s] = nd.next[s] /\ q[s] # size + 1 /\ q[s] # k
      BY <1>3, <1>4, <1>4a, <2>4 DEF nx
    <3>2. CASE q[s] < k
      BY <1>3, <1>4, <1>4a, <1>6, <2>1, <2>4, <3>1, <3>2, NA
    <3>3. CASE q[s] > k /\ q[s] <= size
      <4>1. q1[s] = q[s] + 1
        BY <1>4a, <1>6, <2>1, <2>4, <3>3, <1>3
      <4>2. CASE q[s] = size
        BY <1>4, <3>1, <4>1, <4>2
      <4>3. CASE q[s] # size
        <5>1. r1[q[s] + 2] = r[q[s] + 1]
          BY <1>3, <1>4a, <1>6, <2>1, <3>3, <4>3, NA
        <5> QED BY <1>3, <1>4, <2>1, <3>1, <3>3, <4>1, <4>3, <5>1, NA
      <4> QED BY <4>2, <4>3
    <3>4. CASE q[s] > size
      BY <1>3, <1>4, <1>4a, <1>6, <2>1, <2>4, <3>1, <3>4, NA
    <3> QED BY <1>3, <1>4a, <2>1, <3>1, <3>2, <3>3, <3>4
  <2> QED BY <2>2, <2>3, <2>4
<1>11. ASSUME NEW s \in Slots
       PROVE  pv[s] = IF q1[s] = 1 \/ q1[s] > size + 1 THEN npos
                      ELSE r1[q1[s] - 1]
  <2>1. q[s] \in 1 .. N
    BY <1>4
  <2>2. CASE s = s0
    <3>1. pv[s] = ref /\ q1[s] = k + 1
      BY <1>6, <2>2 DEF pv
    <3>2. r1[k] = r[k]
      BY <1>3, <1>4a, <1>6, NA
    <3> QED BY <1>3, <1>4a, <3>1, <3>2
  <2>3. CASE s # s0 /\ s = n0
    <3>1. pv[s] = s0 /\ k # size /\ q[s] = k + 1
      BY <1>3, <1>4, <1>4a, <1>7, <2>3, NA DEF pv
    <3>2. q1[s] = k + 2
      BY <1>3, <1>4a, <1>6, <2>3, <3>1
    <3>3. r1[k + 1] = s0
      BY <1>3, <1>4a, <1>6, NA
    <3> QED BY <1>3, <1>4a, <3>1, <3>2, <3>3
  <2>4. CASE s # s0 /\ s # n0
    <3>1. pv[s] = nd.prev[s] /\ q[s] # size + 1
      BY <1>3, <1>4, <2>4 DEF pv
    <3>2. q[s] # k + 1
      <4>1. q[s] = k + 1 => k # size /\ s = r[k + 1]
        BY <1>4, <3>1
      <4> QED BY <1>4a, <2>4, <4>1
    <3>3. CASE q[s] <= k
      <4>1. q1[s] = q[s] /\ q[s] <= size
        BY <1>3, <1>4a, <1>6, <2>1, <2>4, <3>3
      <4>2. CASE q[s] = 1
        BY <1>4, <3>1, <4>1, <4>2
      <4>3. CASE q[s] # 1
        <5>1. q[s] - 1 \in 1 .. N /\ r1[q[s] - 1] = r[q[s] - 1]
          BY <1>4a, <1>6, <2>1, <3>3, <4>3, NA
        <5> QED BY <1>3, <1>4, <2>1, <3>1, <4>1, <4>3, <5>1
      <4> QED BY <4>2, <4>3
    <3>4. CASE q[s] > k + 1 /\ q[s] <= size
      <4>1. q1[s] = q[s] + 1
        BY <1>4a, <1>6, <2>1, <2>4, <3>4, <1>3
      <4>2. r1[q[s]] = r[q[s] - 1]
        BY <1>3, <1>4a, <1>6, <2>1, <3>4, NA
      <4>3. nd.prev[s] = r[q[s] - 1]
        BY <1>3, <1>4, <1>4a, <2>1, <3>4
      <4>4. q1[s] # 1 /\ ~ (q1[s] > size + 1) /\ q1[s] - 1 = q[s]
        BY <1>3, <1>4a, <2>1, <3>4, <4>1
      <4> QED BY <3>1, <4>2, <4>3, <4>4
    <3>5. CASE q[s] > size
      BY <1>3, <1>4, <1>4a, <1>6, <2>1, <2>4, <3>1, <3>5, NA
    <3> QED BY <1>3, <1>4a, <2>1, <3>2, <3>3, <3>4, <3>5
  <2> QED BY <2>2, <2>3, <2>4
<1>12. nd.head = IF size + 1 = 0 THEN npos ELSE r1[1]
  BY <1>3, <1>4, <1>4a, <1>6, NA
<1>13. tl = IF size + 1 = 0 THEN npos ELSE r1[size + 1]
  <2>1. CASE k = size
    BY <1>3, <1>4a, <1>6, <2>1, NA DEF tl
  <2>2. CASE k # size
    <3>1. n0 \in Slots
      BY <1>3, <1>4, <1>4a, <2>2, NA
    <3>2. r1[size + 1] = r[size]
      BY <1>3, <1>4a, <1>6, <2>2, NA
    <3> QED BY <1>3, <1>4, <1>4a, <1>7, <3>1, <3>2, <2>2 DEF tl
  <2> QED BY <2>1, <2>2
<1>14. fr = IF size + 1 = N THEN npos ELSE r1[size + 1 + 1]
  BY <1>3, <1>4a, <1>6, NA
<1>15. NodeIs(nd1, q1, r1)
  <2>1. size + 1 \in 0 .. N
    BY <1>3, NA
  <2> HIDE DEF nd1
  <2> QED BY <1>2, <1>5, <1>8, <1>9, <1>10, <1>11, <1>12, <1>13, <1>14, <2>1, NodeBuilt
<1> QED BY <1>2, <1>15 DEF s0, size, q1, r1, sl, k

LEMMA FreeSlotFields ==
  ASSUME NEW a, NEW b, NEW c, NEW d, NEW e, NEW f, NEW g, NEW s
  PROVE  FreeSlot([slot |-> a, next |-> b, prev |-> c, head |-> d, tail |-> e,
                   free |-> f, size |-> g], s)
         = [slot |-> [a EXCEPT ![s] = NoOrder], next |-> [b EXCEPT ![s] = f],
            prev |-> [c EXCEPT ![s] = npos], head |-> d, tail |-> e,
            free |-> s, size |-> g - 1]
<1> DEFINE nd == [slot |-> a, next |-> b, prev |-> c, head |-> d, tail |-> e,
                  free |-> f, size |-> g]
           n1 == [nd EXCEPT !.next[s] = f]
           n2 == [n1 EXCEPT !.free = s]
           n3 == [n2 EXCEPT !.size = g - 1]
           n4 == [n3 EXCEPT !.slot[s] = NoOrder]
           n5 == [n4 EXCEPT !.prev[s] = npos]
           bf == [b EXCEPT ![s] = f]
           an == [a EXCEPT ![s] = NoOrder]
           cn == [c EXCEPT ![s] = npos]
<1>1. nd.free = f /\ nd.size = g
  OBVIOUS
<1>2. FreeSlot(nd, s) = [nd EXCEPT !.next[s] = f, !.free = s, !.size = g - 1,
                                   !.slot[s] = NoOrder, !.prev[s] = npos]
  BY <1>1 DEF FreeSlot
<1>3. FreeSlot(nd, s) = n5
  BY <1>2
<1>4. n1 = [slot |-> a, next |-> bf, prev |-> c, head |-> d, tail |-> e,
            free |-> f, size |-> g]
  OBVIOUS
<1> HIDE DEF n1, bf
<1>5. n2 = [slot |-> a, next |-> bf, prev |-> c, head |-> d, tail |-> e,
            free |-> s, size |-> g]
  BY <1>4
<1> HIDE DEF n2
<1>6. n3 = [slot |-> a, next |-> bf, prev |-> c, head |-> d, tail |-> e,
            free |-> s, size |-> g - 1]
  BY <1>5
<1> HIDE DEF n3
<1>7. n4 = [slot |-> an, next |-> bf, prev |-> c, head |-> d, tail |-> e,
            free |-> s, size |-> g - 1]
  BY <1>6
<1> HIDE DEF n4, an
<1>8. n5 = [slot |-> an, next |-> bf, prev |-> cn, head |-> d, tail |-> e,
            free |-> s, size |-> g - 1]
  BY <1>7
<1> QED BY <1>3, <1>8 DEF an, bf

LEMMA NodeEraseFields ==
  ASSUME NEW a, NEW b, NEW c, NEW d, NEW e, NEW f, NEW g, NEW s
  PROVE  NodeErase([slot |-> a, next |-> b, prev |-> c, head |-> d, tail |-> e,
                    free |-> f, size |-> g], s)
         = [slot |-> [a EXCEPT ![s] = NoOrder],
            next |-> [[t \in Slots |-> IF t = c[s] THEN b[s] ELSE b[t]]
                        EXCEPT ![s] = f],
            prev |-> [[t \in Slots |-> IF t = b[s] THEN c[s] ELSE c[t]]
                        EXCEPT ![s] = npos],
            head |-> IF c[s] = npos THEN b[s] ELSE d,
            tail |-> IF b[s] = npos THEN c[s] ELSE e,
            free |-> s, size |-> g - 1]
<1> DEFINE nd == [slot |-> a, next |-> b, prev |-> c, head |-> d, tail |-> e,
                  free |-> f, size |-> g]
           nx == [t \in Slots |-> IF t = c[s] THEN b[s] ELSE b[t]]
           pv == [t \in Slots |-> IF t = b[s] THEN c[s] ELSE c[t]]
           hd == IF c[s] = npos THEN b[s] ELSE d
           tl == IF b[s] = npos THEN c[s] ELSE e
           n1 == [nd EXCEPT !.head = hd]
           n2 == [n1 EXCEPT !.tail = tl]
           n3 == [n2 EXCEPT !.next = nx]
           n4 == [n3 EXCEPT !.prev = pv]
<1>1. /\ nd.head = d /\ nd.tail = e /\ nd.next = b /\ nd.prev = c
  OBVIOUS
<1>2. NodeErase(nd, s)
        = FreeSlot([nd EXCEPT !.head = hd, !.tail = tl, !.next = nx, !.prev = pv], s)
  BY <1>1 DEF NodeErase
<1>3. NodeErase(nd, s) = FreeSlot(n4, s)
  BY <1>2
<1> HIDE DEF nx, pv, hd, tl
<1>4. n1 = [slot |-> a, next |-> b, prev |-> c, head |-> hd, tail |-> e,
            free |-> f, size |-> g]
  OBVIOUS
<1> HIDE DEF n1
<1>5. n2 = [slot |-> a, next |-> b, prev |-> c, head |-> hd, tail |-> tl,
            free |-> f, size |-> g]
  BY <1>4
<1> HIDE DEF n2
<1>6. n3 = [slot |-> a, next |-> nx, prev |-> c, head |-> hd, tail |-> tl,
            free |-> f, size |-> g]
  BY <1>5
<1> HIDE DEF n3
<1>7. n4 = [slot |-> a, next |-> nx, prev |-> pv, head |-> hd, tail |-> tl,
            free |-> f, size |-> g]
  BY <1>6
<1> HIDE DEF n4
<1>8. FreeSlot(n4, s) = [slot |-> [a EXCEPT ![s] = NoOrder],
            next |-> [nx EXCEPT ![s] = f], prev |-> [pv EXCEPT ![s] = npos],
            head |-> hd, tail |-> tl, free |-> s, size |-> g - 1]
  BY <1>7, FreeSlotFields
<1> QED BY <1>3, <1>8 DEF nx, pv, hd, tl

\* erase: the slot becomes the first of the free list.
LEMMA EraseIs ==
  ASSUME NEW nd, NEW q, NEW r, NodeIs(nd, q, r), NEW s0 \in Slots,
         nd.slot[s0] # NoOrder
  PROVE  /\ NodeIs(NodeErase(nd, s0), LeaveQ(q, s0, q[s0], nd.size),
                   LeaveR(r, q[s0], nd.size))
         /\ nd.size \in 1 .. N
         /\ NodeErase(nd, s0).size = nd.size - 1
         /\ NodeErase(nd, s0).slot = [nd.slot EXCEPT ![s0] = NoOrder]
<1> DEFINE size == nd.size
           k == q[s0]
           q1 == LeaveQ(q, s0, k, size)
           r1 == LeaveR(r, k, size)
           nd1 == NodeErase(nd, s0)
           sl == [nd.slot EXCEPT ![s0] = NoOrder]
           p0 == nd.prev[s0]
           n0 == nd.next[s0]
           nx == [[t \in Slots |-> IF t = p0 THEN n0 ELSE nd.next[t]]
                    EXCEPT ![s0] = nd.free]
           pv == [[t \in Slots |-> IF t = n0 THEN p0 ELSE nd.prev[t]]
                    EXCEPT ![s0] = npos]
           hd == IF p0 = npos THEN n0 ELSE nd.head
           tl == IF n0 = npos THEN p0 ELSE nd.tail
<1>1. nd = [slot |-> nd.slot, next |-> nd.next, prev |-> nd.prev,
            head |-> nd.head, tail |-> nd.tail, free |-> nd.free,
            size |-> nd.size]
  BY NodeFields
<1>2. nd1 = [slot |-> sl, next |-> nx, prev |-> pv, head |-> hd, tail |-> tl,
             free |-> s0, size |-> size - 1]
  <2> DEFINE a == nd.slot b == nd.next c == nd.prev d == nd.head e == nd.tail
             f == nd.free g == nd.size
  <2>1. nd = [slot |-> a, next |-> b, prev |-> c, head |-> d, tail |-> e,
              free |-> f, size |-> g]
    BY <1>1
  <2>2. NodeErase([slot |-> a, next |-> b, prev |-> c, head |-> d, tail |-> e,
                    free |-> f, size |-> g], s0)
         = [slot |-> [a EXCEPT ![s0] = NoOrder],
            next |-> [[t \in Slots |-> IF t = c[s0] THEN b[s0] ELSE b[t]]
                        EXCEPT ![s0] = f],
            prev |-> [[t \in Slots |-> IF t = b[s0] THEN c[s0] ELSE c[t]]
                        EXCEPT ![s0] = npos],
            head |-> IF c[s0] = npos THEN b[s0] ELSE d,
            tail |-> IF b[s0] = npos THEN c[s0] ELSE e,
            free |-> s0, size |-> g - 1]
    <3> HIDE DEF a, b, c, d, e, f, g
    <3> QED BY NodeEraseFields
  <2> QED BY <2>1, <2>2
<1>4. /\ q \in [Slots -> 1 .. N] /\ r \in [1 .. N -> Slots]
      /\ \A s \in Slots : r[q[s]] = s
      /\ \A i \in 1 .. N : q[r[i]] = i
      /\ nd.next \in [Slots -> Slots \union {npos}]
      /\ nd.prev \in [Slots -> Slots \union {npos}]
      /\ nd.slot \in [Slots -> Ids \union {NoOrder}]
      /\ \A s \in Slots : nd.slot[s] # NoOrder <=> q[s] <= size
      /\ \A s \in Slots :
           nd.next[s] = IF q[s] \in {size, N} THEN npos ELSE r[q[s] + 1]
      /\ \A s \in Slots :
           nd.prev[s] = IF q[s] = 1 \/ q[s] > size THEN npos ELSE r[q[s] - 1]
      /\ nd.head = IF size = 0 THEN npos ELSE r[1]
      /\ nd.tail = IF size = 0 THEN npos ELSE r[size]
      /\ nd.free = IF size = N THEN npos ELSE r[size + 1]
      /\ size \in 0 .. N
  BY NodeFields
<1>3. /\ k \in 1 .. size /\ size \in 1 .. N /\ r[k] = s0
      /\ n0 = IF k = size THEN npos ELSE r[k + 1]
      /\ p0 = IF k = 1 THEN npos ELSE r[k - 1]
  <2>1. k \in 1 .. N /\ k <= size /\ r[k] = s0
    BY <1>4
  <2>2. k \in 1 .. size /\ size \in 1 .. N
    BY <1>4, <2>1, NA
  <2>3. n0 = IF k \in {size, N} THEN npos ELSE r[k + 1]
    BY <1>4
  <2>4. p0 = IF k = 1 \/ k > size THEN npos ELSE r[k - 1]
    BY <1>4
  <2> QED BY <2>1, <2>2, <2>3, <2>4, NA
<1>5. Perm(q1, r1)
  <2>1. Perm(q, r)
    BY DEF NodeIs
  <2> QED BY <1>3, <2>1, LeavePerm
<1>6. /\ \A t \in Slots : q1[t] = IF t = s0 THEN size
                                  ELSE IF q[t] > k /\ q[t] <= size
                                       THEN q[t] - 1 ELSE q[t]
      /\ \A i \in 1 .. N : r1[i] = IF i = size THEN s0
                                   ELSE IF i >= k /\ i < size
                                        THEN r[i + 1] ELSE r[i]
  BY <1>3 DEF LeaveQ, LeaveR
<1>7. npos \notin Slots
  BY NA DEF npos, Slots
<1>7a. /\ \A s \in Slots : s # s0 => nx[s] = IF s = p0 THEN n0 ELSE nd.next[s]
       /\ \A s \in Slots : s # s0 => pv[s] = IF s = n0 THEN p0 ELSE nd.prev[s]
       /\ nx[s0] = nd.free /\ pv[s0] = npos
  OBVIOUS
<1>8. /\ nx = [s \in Slots |-> nx[s]] /\ pv = [s \in Slots |-> pv[s]]
      /\ sl \in [Slots -> Ids \union {NoOrder}]
  BY <1>4
<1>8a. \A s \in Slots : sl[s] = IF s = s0 THEN NoOrder ELSE nd.slot[s]
  BY <1>4
<1> HIDE DEF size, q1, r1, sl, nx, pv, hd, tl, k, n0, p0
<1>8b. \A s \in Slots : s # s0 => q[s] # k
  BY <1>3, <1>4 DEF k
<1>9. \A s \in Slots : sl[s] # NoOrder <=> q1[s] <= size - 1
  <2> SUFFICES ASSUME NEW s \in Slots
               PROVE  sl[s] # NoOrder <=> q1[s] <= size - 1
    OBVIOUS
  <2>1. q[s] \in 1 .. N
    BY <1>4
  <2>2. CASE s = s0
    BY <1>3, <1>6, <1>8a, <2>2
  <2>3. CASE s # s0
    <3>1. sl[s] = nd.slot[s] /\ q[s] # k
      BY <1>8a, <1>8b, <2>3
    <3> QED BY <1>3, <1>4, <1>6, <2>1, <2>3, <3>1
  <2> QED BY <2>2, <2>3
<1>10. ASSUME NEW s \in Slots
       PROVE  nx[s] = IF q1[s] \in {size - 1, N} THEN npos ELSE r1[q1[s] + 1]
  <2>1. q[s] \in 1 .. N
    BY <1>4
  <2>2. CASE s = s0
    <3>1. nx[s] = nd.free /\ q1[s] = size
      BY <1>6, <1>7a, <2>2
    <3>2. CASE size = N
      BY <1>3, <1>4, <3>1, <3>2
    <3>3. CASE size # N
      <4>1. r1[size + 1] = r[size + 1]
        BY <1>3, <1>6, <3>3, NA
      <4> QED BY <1>3, <1>4, <3>1, <3>3, <4>1
    <3> QED BY <3>2, <3>3
  <2>3. CASE s # s0 /\ s = p0
    <3>1. k # 1 /\ q[s] = k - 1 /\ nx[s] = n0
      BY <1>3, <1>4, <1>7, <1>7a, <2>3, NA
    <3>2. q1[s] = k - 1
      BY <1>3, <1>6, <2>3, <3>1
    <3>3. CASE k = size
      BY <1>3, <3>1, <3>2, <3>3
    <3>4. CASE k # size
      <4>1. r1[k] = r[k + 1]
        BY <1>3, <1>6, <3>4, NA
      <4> QED BY <1>3, <3>1, <3>2, <3>4, <4>1, NA
    <3> QED BY <3>3, <3>4
  <2>4. CASE s # s0 /\ s # p0
    <3>1. nx[s] = nd.next[s] /\ q[s] # k
      BY <1>7a, <1>8b, <2>4
    <3>2. q[s] # k - 1
      <4>1. q[s] = k - 1 => k # 1 /\ s = r[k - 1]
        BY <1>3, <1>4, <2>1
      <4> QED BY <1>3, <2>4, <4>1
    <3>3. CASE q[s] < k
      <4>1. q1[s] = q[s] /\ q[s] # size /\ q[s] # size - 1 /\ q[s] # N
        BY <1>3, <1>6, <2>1, <2>4, <3>2, <3>3, NA
      <4>2. q[s] + 1 \in 1 .. N /\ r1[q[s] + 1] = r[q[s] + 1]
        BY <1>3, <1>6, <2>1, <3>2, <3>3, NA
      <4> QED BY <1>4, <3>1, <4>1, <4>2
    <3>4. CASE q[s] > k /\ q[s] <= size
      <4>1. q1[s] = q[s] - 1
        BY <1>3, <1>6, <2>1, <2>4, <3>4
      <4>2. CASE q[s] = size
        BY <1>3, <1>4, <3>1, <4>1, <4>2
      <4>3. CASE q[s] # size
        <5>1. r1[q[s]] = r[q[s] + 1] /\ q[s] # N /\ q[s] - 1 # N
          BY <1>3, <1>6, <2>1, <3>4, <4>3, NA
        <5> QED BY <1>3, <1>4, <2>1, <3>1, <3>4, <4>1, <4>3, <5>1
      <4> QED BY <4>2, <4>3
    <3>5. CASE q[s] > size
      <4>1. q1[s] = q[s]
        BY <1>3, <1>6, <2>1, <2>4, <3>5
      <4>2. q[s] # N => q[s] + 1 \in 1 .. N /\ r1[q[s] + 1] = r[q[s] + 1]
        BY <1>3, <1>6, <2>1, <3>5, NA
      <4> QED BY <1>3, <1>4, <2>1, <3>1, <3>5, <4>1, <4>2, NA
    <3> QED BY <1>3, <2>1, <3>1, <3>3, <3>4, <3>5
  <2> QED BY <2>2, <2>3, <2>4
<1>11. ASSUME NEW s \in Slots
       PROVE  pv[s] = IF q1[s] = 1 \/ q1[s] > size - 1 THEN npos
                      ELSE r1[q1[s] - 1]
  <2>1. q[s] \in 1 .. N
    BY <1>4
  <2>2. CASE s = s0
    BY <1>3, <1>6, <1>7a, <2>2
  <2>3. CASE s # s0 /\ s = n0
    <3>1. k # size /\ q[s] = k + 1 /\ pv[s] = p0
      BY <1>3, <1>4, <1>7, <1>7a, <2>3, NA
    <3>2. q1[s] = k
      BY <1>3, <1>6, <2>3, <3>1
    <3>3. CASE k = 1
      BY <1>3, <3>1, <3>2, <3>3
    <3>4. CASE k # 1
      <4>1. r1[k - 1] = r[k - 1]
        BY <1>3, <1>6, <3>4, NA
      <4> QED BY <1>3, <3>1, <3>2, <3>4, <4>1
    <3> QED BY <3>3, <3>4
  <2>4. CASE s # s0 /\ s # n0
    <3>1. pv[s] = nd.prev[s] /\ q[s] # k
      BY <1>7a, <1>8b, <2>4
    <3>2. ~(q[s] = k + 1 /\ k # size)
      <4>1. q[s] = k + 1 => s = r[k + 1]
        BY <1>4
      <4> QED BY <1>3, <2>4, <4>1
    <3>3. CASE q[s] < k
      <4>1. q1[s] = q[s] /\ q[s] <= size - 1
        BY <1>3, <1>6, <2>1, <2>4, <3>3
      <4>2. CASE q[s] = 1
        BY <1>4, <3>1, <4>1, <4>2
      <4>3. CASE q[s] # 1
        <5>1. q[s] - 1 \in 1 .. N /\ r1[q[s] - 1] = r[q[s] - 1]
          BY <1>3, <1>6, <2>1, <3>3, <4>3, NA
        <5> QED BY <1>3, <1>4, <2>1, <3>1, <4>1, <4>3, <5>1
      <4> QED BY <4>2, <4>3
    <3>4. CASE q[s] > k /\ q[s] <= size
      <4>1. q1[s] = q[s] - 1 /\ q[s] > k + 1
        BY <1>3, <1>6, <2>1, <2>4, <3>2, <3>4
      <4>2. q[s] - 2 \in 1 .. N /\ r1[q[s] - 2] = r[q[s] - 1]
        BY <1>3, <1>6, <2>1, <3>4, <4>1, NA
      <4> QED BY <1>3, <1>4, <2>1, <3>1, <3>4, <4>1, <4>2
    <3>5. CASE q[s] > size
      BY <1>3, <1>4, <1>6, <2>1, <2>4, <3>1, <3>5
    <3> QED BY <1>3, <2>1, <3>1, <3>3, <3>4, <3>5
  <2> QED BY <2>2, <2>3, <2>4
<1>12. hd = IF size - 1 = 0 THEN npos ELSE r1[1]
  <2>1. CASE k = 1
    <3>1. size # 1 => r1[1] = r[2]
      BY <1>3, <1>6, <2>1, NA
    <3> QED BY <1>3, <2>1, <3>1 DEF hd
  <2>2. CASE k # 1
    <3>1. p0 \in Slots /\ r1[1] = r[1] /\ size # 1 /\ size # 0
      BY <1>3, <1>4, <1>6, <2>2, NA
    <3> QED BY <1>3, <1>4, <1>7, <3>1 DEF hd
  <2> QED BY <2>1, <2>2
<1>13. tl = IF size - 1 = 0 THEN npos ELSE r1[size - 1]
  <2>1. CASE k = size
    <3>1. size # 1 => r1[size - 1] = r[size - 1]
      BY <1>3, <1>6, <2>1, NA
    <3> QED BY <1>3, <2>1, <3>1 DEF tl
  <2>2. CASE k # size
    <3>1. n0 \in Slots /\ r1[size - 1] = r[size] /\ size # 1 /\ size # 0
      BY <1>3, <1>4, <1>6, <2>2, NA
    <3> QED BY <1>3, <1>4, <1>7, <3>1 DEF tl
  <2> QED BY <2>1, <2>2
<1>14. s0 = IF size - 1 = N THEN npos ELSE r1[size - 1 + 1]
  BY <1>3, <1>6, NA
<1>15. NodeIs(nd1, q1, r1)
  <2>1. size - 1 \in 0 .. N
    BY <1>3, NA
  <2> HIDE DEF nd1
  <2> QED BY <1>2, <1>5, <1>8, <1>9, <1>10, <1>11, <1>12, <1>13, <1>14, <2>1, NodeBuilt
<1> QED BY <1>2, <1>3, <1>15 DEF size, q1, r1, sl, k

-----------------------------------------------------------------------------
(* The chain of nodes.                                                     *)

NextWith(nx, m, a, b) ==
  [n \in Nodes |-> IF n = m THEN b ELSE IF n = a THEN m ELSE nx[n]]
PrevWith(pv, m, a, b) ==
  [n \in Nodes |-> IF n = m THEN a ELSE IF n = b THEN m ELSE pv[n]]
\* The rank of a new node behind a, and of the others then.
RankBehind(cp, a) == IF a = NoNode THEN 0 ELSE cp[a] + 1
RankWith(cp, m, k) ==
  [n \in Nodes |-> IF n = m THEN k ELSE IF cp[n] >= k THEN cp[n] + 1 ELSE cp[n]]

LEMMA NodeIds == ASSUME NEW n \in Nodes PROVE n \in Nat /\ n # NoNode
  BY ChainAssumption DEF NoNode

\* A node m can be put between a and b, neighbours or the ends of the chain, ...
CanLink(nx, pv, ch, L, cp, m, a, b) ==
  /\ LinksOK(nx, pv, ch, L, cp) /\ L \subseteq Nodes
  /\ m \in Nodes /\ m \notin L
  /\ \/ a = NoNode /\ b = ch
     \/ a \in L /\ b = nx[a]
\* ... and has been.
HasLinked(nx, pv, ch, L, cp, m, a, b) ==
  LET cp1 == RankWith(cp, m, RankBehind(cp, a)) IN
  /\ LinksOK(NextWith(nx, m, a, b), PrevWith(pv, m, a, b),
             IF a = NoNode THEN m ELSE ch, L \union {m}, cp1)
  /\ \A n, l \in L : cp1[n] < cp1[l] <=> cp[n] < cp[l]
  /\ \A n \in L : /\ cp1[n] < cp1[m] <=> a # NoNode /\ cp[n] <= cp[a]
                  /\ cp1[n] # cp1[m]

LEMMA LinkIn ==
  ASSUME NEW nx, NEW pv, NEW ch, NEW L, NEW cp, NEW m, NEW a, NEW b,
         CanLink(nx, pv, ch, L, cp, m, a, b)
  PROVE  HasLinked(nx, pv, ch, L, cp, m, a, b)
<1>0. /\ LinksOK(nx, pv, ch, L, cp) /\ L \subseteq Nodes
      /\ m \in Nodes /\ m \notin L
      /\ \/ a = NoNode /\ b = ch
         \/ a \in L /\ b = nx[a]
  BY DEF CanLink
<1> USE <1>0
<1> DEFINE k == RankBehind(cp, a)
           cp1 == RankWith(cp, m, k)
           nx1 == NextWith(nx, m, a, b)
           pv1 == PrevWith(pv, m, a, b)
           ch1 == IF a = NoNode THEN m ELSE ch
           L1 == L \union {m}
<1>1. /\ nx \in [Nodes -> Nodes \union {NoNode}]
      /\ pv \in [Nodes -> Nodes \union {NoNode}]
      /\ cp \in [Nodes -> Nat]
      /\ \A n, l \in L : cp[n] = cp[l] => n = l
      /\ \A n \in L :
           IF nx[n] = NoNode THEN \A l \in L : cp[l] <= cp[n]
           ELSE /\ nx[n] \in L /\ cp[n] < cp[nx[n]]
                /\ \A l \in L : cp[l] <= cp[n] \/ cp[nx[n]] <= cp[l]
      /\ \A n \in L :
           IF pv[n] = NoNode THEN \A l \in L : cp[n] <= cp[l]
           ELSE /\ pv[n] \in L /\ cp[pv[n]] < cp[n]
                /\ \A l \in L : cp[l] <= cp[pv[n]] \/ cp[n] <= cp[l]
      /\ IF ch = NoNode THEN L = {} ELSE ch \in L /\ \A l \in L : cp[ch] <= cp[l]
  BY DEF LinksOK
<1>2. /\ a \in Nodes \union {NoNode} /\ b \in L \union {NoNode}
      /\ NoNode \notin Nodes /\ NoNode \notin L /\ a # m /\ b # m
      /\ a # NoNode => a \in L
  BY <1>1, NodeIds
<1>3. k \in Nat
  BY <1>1, <1>2 DEF RankBehind
<1>4. cp1 \in [Nodes -> Nat]
  BY <1>1, <1>3 DEF RankWith
<1>5. /\ cp1[m] = k
      /\ \A n \in L : cp1[n] = IF cp[n] >= k THEN cp[n] + 1 ELSE cp[n]
  BY DEF RankWith
<1>6. \A n \in L : cp[n] \in Nat
  BY <1>1
<1>7. \A n, l \in L : cp1[n] < cp1[l] <=> cp[n] < cp[l]
  BY <1>3, <1>5, <1>6
<1>8. \A n \in L : /\ cp1[n] < cp1[m] <=> cp[n] < k
                   /\ cp1[m] < cp1[n] <=> cp[n] >= k
                   /\ cp1[n] # cp1[m]
  BY <1>3, <1>5, <1>6
<1>9. \A n \in L : cp[n] < k <=> a # NoNode /\ cp[n] <= cp[a]
  <2>1. CASE a = NoNode
    BY <1>6, <2>1 DEF RankBehind
  <2>2. CASE a # NoNode
    BY <1>2, <1>6, <2>2 DEF RankBehind
  <2> QED BY <2>1, <2>2
\* b is the first of those that come behind.
<1>10. IF b = NoNode THEN \A n \in L : cp[n] < k
       ELSE cp[b] >= k /\ \A n \in L : cp[n] < k \/ cp[b] <= cp[n]
  <2>1. CASE a = NoNode /\ b = ch
    BY <1>1, <1>3, <1>6, <1>9, <2>1
  <2>2. CASE a \in L /\ b = nx[a]
    <3>1. a # NoNode /\ k = cp[a] + 1
      BY <1>2, <2>2 DEF RankBehind
    <3>2. b = NoNode => \A n \in L : cp[n] <= cp[a]
      BY <1>1, <2>2
    <3>3. b # NoNode => /\ b \in L /\ cp[a] < cp[b]
                        /\ \A n \in L : cp[n] <= cp[a] \/ cp[b] <= cp[n]
      BY <1>1, <2>2
    <3> QED BY <1>6, <2>2, <3>1, <3>2, <3>3
  <2> QED BY <2>1, <2>2
\* The node a, if there is one, is the last of those ahead.
<1>11. IF a = NoNode THEN \A n \in L : cp[n] >= k
       ELSE cp[a] < k /\ \A n \in L : cp[n] <= cp[a] \/ cp[n] >= k
  BY <1>2, <1>3, <1>6, <1>9
<1>12. /\ nx1 \in [Nodes -> Nodes \union {NoNode}] /\ nx1[m] = b
       /\ pv1 \in [Nodes -> Nodes \union {NoNode}] /\ pv1[m] = a
       /\ \A n \in L : nx1[n] = IF n = a THEN m ELSE nx[n]
       /\ \A n \in L : pv1[n] = IF n = b THEN m ELSE pv[n]
  BY <1>1, <1>2 DEF NextWith, PrevWith
<1> HIDE DEF k, cp1, nx1, pv1
<1>13. \A n, l \in L1 : cp1[n] = cp1[l] => n = l
  BY <1>1, <1>3, <1>5, <1>6
\* A node that is not a has its old neighbour.
<1>14. ASSUME NEW n \in L1
       PROVE  IF nx1[n] = NoNode THEN \A l \in L1 : cp1[l] <= cp1[n]
              ELSE /\ nx1[n] \in L1 /\ cp1[n] < cp1[nx1[n]]
                   /\ \A l \in L1 : cp1[l] <= cp1[n] \/ cp1[nx1[n]] <= cp1[l]
  <2>1. CASE n = m
    BY <1>2, <1>3, <1>5, <1>6, <1>10, <1>12, <2>1
  <2>2. CASE n # m /\ n = a
    BY <1>2, <1>3, <1>5, <1>6, <1>11, <1>12, <2>2
  <2>3. CASE n # m /\ n # a
    <3>1. n \in L /\ nx1[n] = nx[n]
      BY <1>12, <2>3
    <3>2. CASE nx[n] = NoNode
      <4>1. \A l \in L : cp[l] <= cp[n]
        BY <1>1, <3>1, <3>2
      <4>2. a # NoNode => (cp[a] <= cp[n] /\ cp[a] # cp[n])
        BY <1>1, <1>2, <2>3, <3>1, <4>1
      <4>3. cp[n] >= k
        BY <1>2, <1>6, <1>9, <3>1, <4>2, <1>3
      <4> QED BY <1>3, <1>5, <1>6, <3>1, <3>2, <4>1, <4>3
    <3>3. CASE nx[n] # NoNode
      <4>1. /\ nx[n] \in L /\ cp[n] < cp[nx[n]]
            /\ \A l \in L : cp[l] <= cp[n] \/ cp[nx[n]] <= cp[l]
        BY <1>1, <3>1, <3>3
      <4>2. ~ (cp[n] < k /\ cp[nx[n]] >= k)
        <5>1. SUFFICES ASSUME cp[n] < k, cp[nx[n]] >= k PROVE FALSE
          OBVIOUS
        <5>2. a \in L /\ cp[n] <= cp[a] /\ ~ (cp[nx[n]] <= cp[a])
          BY <1>2, <1>3, <1>6, <1>9, <3>1, <4>1, <5>1
        <5>3. cp[a] = cp[n]
          BY <1>6, <3>1, <4>1, <5>2
        <5> QED BY <1>1, <2>3, <3>1, <5>2, <5>3
      <4>3. \A l \in L : cp1[l] <= cp1[n] \/ cp1[nx[n]] <= cp1[l]
        BY <1>3, <1>5, <1>6, <3>1, <4>1
      <4>4. cp1[m] <= cp1[n] \/ cp1[nx[n]] <= cp1[m]
        BY <1>3, <1>5, <1>6, <3>1, <4>1, <4>2
      <4> QED BY <1>7, <3>1, <3>3, <4>1, <4>3, <4>4
    <3> QED BY <3>2, <3>3
  <2> QED BY <2>1, <2>2, <2>3
<1>15. ASSUME NEW n \in L1
       PROVE  IF pv1[n] = NoNode THEN \A l \in L1 : cp1[n] <= cp1[l]
              ELSE /\ pv1[n] \in L1 /\ cp1[pv1[n]] < cp1[n]
                   /\ \A l \in L1 : cp1[l] <= cp1[pv1[n]] \/ cp1[n] <= cp1[l]
  <2>1. CASE n = m
    BY <1>2, <1>3, <1>5, <1>6, <1>11, <1>12, <2>1
  <2>2. CASE n # m /\ n = b
    BY <1>2, <1>3, <1>5, <1>6, <1>10, <1>12, <2>2
  <2>3. CASE n # m /\ n # b
    <3>1. n \in L /\ pv1[n] = pv[n]
      BY <1>12, <2>3
    <3>2. CASE pv[n] = NoNode
      <4>1. \A l \in L : cp[n] <= cp[l]
        BY <1>1, <3>1, <3>2
      <4>2. cp[n] < k
        <5>1. b # NoNode => cp[n] <= cp[b] /\ cp[n] # cp[b] /\ b \in L
          BY <1>1, <1>2, <2>3, <3>1, <4>1
        <5> QED BY <1>3, <1>6, <1>10, <3>1, <5>1
      <4> QED BY <1>3, <1>5, <1>6, <3>1, <3>2, <4>1, <4>2
    <3>3. CASE pv[n] # NoNode
      <4>1. /\ pv[n] \in L /\ cp[pv[n]] < cp[n]
            /\ \A l \in L : cp[l] <= cp[pv[n]] \/ cp[n] <= cp[l]
        BY <1>1, <3>1, <3>3
      <4>2. ~ (cp[pv[n]] < k /\ cp[n] >= k)
        <5>1. SUFFICES ASSUME cp[pv[n]] < k, cp[n] >= k PROVE FALSE
          OBVIOUS
        <5>2. b \in L /\ cp[b] <= cp[n] /\ ~ (cp[b] <= cp[pv[n]])
          BY <1>2, <1>3, <1>6, <1>10, <3>1, <4>1, <5>1
        <5>3. cp[b] = cp[n]
          BY <1>6, <3>1, <4>1, <5>2
        <5> QED BY <1>1, <2>3, <3>1, <5>2, <5>3
      <4>3. \A l \in L : cp1[l] <= cp1[pv[n]] \/ cp1[n] <= cp1[l]
        BY <1>3, <1>5, <1>6, <3>1, <4>1
      <4>4. cp1[m] <= cp1[pv[n]] \/ cp1[n] <= cp1[m]
        BY <1>3, <1>5, <1>6, <3>1, <4>1, <4>2
      <4> QED BY <1>7, <3>1, <3>3, <4>1, <4>3, <4>4
    <3> QED BY <3>2, <3>3
  <2> QED BY <2>1, <2>2, <2>3
<1>16. IF ch1 = NoNode THEN L1 = {}
       ELSE ch1 \in L1 /\ \A l \in L1 : cp1[ch1] <= cp1[l]
  <2>1. CASE a = NoNode
    BY <1>2, <1>3, <1>5, <1>6, <1>11, <2>1
  <2>2. CASE a # NoNode
    <3>1. ch \in L /\ cp[ch] <= cp[a] /\ \A l \in L : cp[ch] <= cp[l]
      BY <1>1, <1>2, <2>2
    <3> QED BY <1>2, <1>3, <1>5, <1>6, <1>9, <2>2, <3>1
  <2> QED BY <2>1, <2>2
<1>17. LinksOK(nx1, pv1, ch1, L1, cp1)
  BY <1>4, <1>12, <1>13, <1>14, <1>15, <1>16 DEF LinksOK
<1> QED BY <1>7, <1>8, <1>9, <1>17 DEF HasLinked, k, cp1, nx1, pv1

NextWithout(nx, pv, n) ==
  [m \in Nodes |-> IF m = n THEN NoNode ELSE IF m = pv[n] THEN nx[n] ELSE nx[m]]
PrevWithout(nx, pv, n) ==
  [m \in Nodes |-> IF m = n THEN NoNode ELSE IF m = nx[n] THEN pv[n] ELSE pv[m]]

\* A node is taken out of the chain.
LEMMA LinkOut ==
  ASSUME NEW nx, NEW pv, NEW ch, NEW L, NEW cp, LinksOK(nx, pv, ch, L, cp),
         L \subseteq Nodes, NEW n \in L
  PROVE  LinksOK(NextWithout(nx, pv, n), PrevWithout(nx, pv, n),
                 IF pv[n] = NoNode THEN nx[n] ELSE ch, L \ {n}, cp)
<1> DEFINE nx1 == NextWithout(nx, pv, n)
           pv1 == PrevWithout(nx, pv, n)
           ch1 == IF pv[n] = NoNode THEN nx[n] ELSE ch
           L1 == L \ {n}
<1>1. /\ nx \in [Nodes -> Nodes \union {NoNode}]
      /\ pv \in [Nodes -> Nodes \union {NoNode}]
      /\ cp \in [Nodes -> Nat]
      /\ \A m, l \in L : cp[m] = cp[l] => m = l
      /\ \A m \in L :
           IF nx[m] = NoNode THEN \A l \in L : cp[l] <= cp[m]
           ELSE /\ nx[m] \in L /\ cp[m] < cp[nx[m]]
                /\ \A l \in L : cp[l] <= cp[m] \/ cp[nx[m]] <= cp[l]
      /\ \A m \in L :
           IF pv[m] = NoNode THEN \A l \in L : cp[m] <= cp[l]
           ELSE /\ pv[m] \in L /\ cp[pv[m]] < cp[m]
                /\ \A l \in L : cp[l] <= cp[pv[m]] \/ cp[m] <= cp[l]
      /\ IF ch = NoNode THEN L = {} ELSE ch \in L /\ \A l \in L : cp[ch] <= cp[l]
  BY DEF LinksOK
<1>2. NoNode \notin Nodes /\ NoNode \notin L
  BY NodeIds
<1>3. \A m \in L : cp[m] \in Nat
  BY <1>1
<1> DEFINE a == pv[n]
           b == nx[n]
<1>4. IF b = NoNode THEN \A l \in L : cp[l] <= cp[n]
      ELSE /\ b \in L /\ cp[n] < cp[b]
           /\ \A l \in L : cp[l] <= cp[n] \/ cp[b] <= cp[l]
  BY <1>1
<1>5. IF a = NoNode THEN \A l \in L : cp[n] <= cp[l]
      ELSE /\ a \in L /\ cp[a] < cp[n]
           /\ \A l \in L : cp[l] <= cp[a] \/ cp[n] <= cp[l]
  BY <1>1
<1>6. \A l \in L1 : l \in L /\ (cp[l] < cp[n] \/ cp[n] < cp[l])
  BY <1>1, <1>3
<1>7. /\ nx1 \in [Nodes -> Nodes \union {NoNode}]
      /\ pv1 \in [Nodes -> Nodes \union {NoNode}]
      /\ \A m \in L1 : nx1[m] = IF m = a THEN b ELSE nx[m]
      /\ \A m \in L1 : pv1[m] = IF m = b THEN a ELSE pv[m]
  BY <1>1 DEF NextWithout, PrevWithout
<1> HIDE DEF nx1, pv1, a, b
<1>8. a # n /\ b # n
  BY <1>2, <1>3, <1>4, <1>5
<1>9. ASSUME NEW m \in L1
      PROVE  IF nx1[m] = NoNode THEN \A l \in L1 : cp[l] <= cp[m]
             ELSE /\ nx1[m] \in L1 /\ cp[m] < cp[nx1[m]]
                  /\ \A l \in L1 : cp[l] <= cp[m] \/ cp[nx1[m]] <= cp[l]
  <2>1. CASE m = a
    <3>1. nx1[m] = b /\ cp[a] < cp[n] /\ a \in L
          /\ \A l \in L : cp[l] <= cp[a] \/ cp[n] <= cp[l]
      BY <1>2, <1>5, <1>7, <2>1
    <3>2. CASE b = NoNode
      BY <1>3, <1>4, <1>6, <2>1, <3>1, <3>2
    <3>3. CASE b # NoNode
      BY <1>3, <1>4, <1>6, <1>8, <2>1, <3>1, <3>3
    <3> QED BY <3>2, <3>3
  <2>2. CASE m # a
    <3>1. nx1[m] = nx[m] /\ m \in L
      BY <1>7, <2>2
    <3>2. nx[m] # n
      <4>1. SUFFICES ASSUME nx[m] = n PROVE FALSE
        OBVIOUS
      <4>2. cp[m] < cp[n] /\ \A l \in L : cp[l] <= cp[m] \/ cp[n] <= cp[l]
        BY <1>1, <1>2, <3>1, <4>1
      <4>3. a \in L /\ cp[a] <= cp[m] /\ cp[m] <= cp[a]
        BY <1>2, <1>3, <1>5, <3>1, <4>2
      <4> QED BY <1>1, <1>3, <2>2, <3>1, <4>3
    <3> QED BY <1>1, <3>1, <3>2
  <2> QED BY <2>1, <2>2
<1>10. ASSUME NEW m \in L1
       PROVE  IF pv1[m] = NoNode THEN \A l \in L1 : cp[m] <= cp[l]
              ELSE /\ pv1[m] \in L1 /\ cp[pv1[m]] < cp[m]
                   /\ \A l \in L1 : cp[l] <= cp[pv1[m]] \/ cp[m] <= cp[l]
  <2>1. CASE m = b
    <3>1. pv1[m] = a /\ cp[n] < cp[b] /\ b \in L
          /\ \A l \in L : cp[l] <= cp[n] \/ cp[b] <= cp[l]
      BY <1>2, <1>4, <1>7, <2>1
    <3>2. CASE a = NoNode
      BY <1>3, <1>5, <1>6, <2>1, <3>1, <3>2
    <3>3. CASE a # NoNode
      BY <1>3, <1>5, <1>6, <1>8, <2>1, <3>1, <3>3
    <3> QED BY <3>2, <3>3
  <2>2. CASE m # b
    <3>1. pv1[m] = pv[m] /\ m \in L
      BY <1>7, <2>2
    <3>2. pv[m] # n
      <4>1. SUFFICES ASSUME pv[m] = n PROVE FALSE
        OBVIOUS
      <4>2. cp[n] < cp[m] /\ \A l \in L : cp[l] <= cp[n] \/ cp[m] <= cp[l]
        BY <1>1, <1>2, <3>1, <4>1
      <4>3. b \in L /\ cp[b] <= cp[m] /\ cp[m] <= cp[b]
        BY <1>2, <1>3, <1>4, <3>1, <4>2
      <4> QED BY <1>1, <1>3, <2>2, <3>1, <4>3
    <3> QED BY <1>1, <3>1, <3>2
  <2> QED BY <2>1, <2>2
<1>11. IF ch1 = NoNode THEN L1 = {}
       ELSE ch1 \in L1 /\ \A l \in L1 : cp[ch1] <= cp[l]
  <2>1. CASE a = NoNode
    <3>1. ch1 = b
      BY <2>1 DEF a, b
    <3>2. CASE b = NoNode
      <4>1. \A l \in L : l = n
        BY <1>1, <1>3, <1>4, <1>5, <2>1, <3>2
      <4> QED BY <3>1, <3>2, <4>1
    <3>3. CASE b # NoNode
      BY <1>3, <1>4, <1>5, <1>6, <1>8, <2>1, <3>1, <3>3
    <3> QED BY <3>2, <3>3
  <2>2. CASE a # NoNode
    <3>1. ch1 = ch
      BY <2>2 DEF a
    <3>2. ch \in L /\ cp[ch] <= cp[a] /\ \A l \in L : cp[ch] <= cp[l]
      BY <1>1, <1>2, <1>5, <2>2
    <3>3. ch # n
      BY <1>2, <1>3, <1>5, <2>2, <3>2
    <3> QED BY <1>2, <3>1, <3>2, <3>3
  <2> QED BY <2>1, <2>2
<1>12. \A m, l \in L1 : cp[m] = cp[l] => m = l
  BY <1>1
<1>13. LinksOK(nx1, pv1, ch1, L1, cp)
  BY <1>1, <1>7, <1>9, <1>10, <1>11, <1>12 DEF LinksOK
<1> QED BY <1>13 DEF nx1, pv1, a, b

-----------------------------------------------------------------------------
(* The orders in the nodes.                                                *)

\* The nodes of L have different ranks.
OneToOne(cp, L) ==
  cp \in [Nodes -> Nat] /\ \A m, l \in L : cp[m] = cp[l] => m = l
\* The ranks rk1 leave the orders as they are to each other, ...
SameOrder(ix, rk, rk1) ==
  /\ rk1 \in [Ids -> Nat]
  /\ \A y, z \in Ids : ix[y] # NoLoc /\ ix[z] # NoLoc =>
       (rk1[y] < rk1[z] <=> rk[y] < rk[z])
\* ... with x at the k-th place of node n, behind those ahead of it.
Comes(ix, q, cp, rk1, x, n, k) ==
  \A y \in Ids : ix[y] # NoLoc =>
    /\ rk1[y] < rk1[x] <=> Ahead(ix, q, cp, y, n, k)
    /\ rk1[x] < rk1[y] <=> ~ Ahead(ix, q, cp, y, n, k)

LEMMA PlaceOf ==
  ASSUME NEW nds, NEW L, NEW q, NEW r, NEW ix,
         NodesOK(nds, L, q, r), PlacesOK(nds, L, ix),
         NEW y \in Ids, ix[y] # NoLoc
  PROVE  /\ ix[y].node \in L /\ ix[y].node \in Nodes /\ ix[y].slot \in Slots
         /\ ix[y] = [node |-> ix[y].node, slot |-> ix[y].slot]
         /\ nds[ix[y].node].slot[ix[y].slot] = y
         /\ q[ix[y].node][ix[y].slot] \in 1 .. nds[ix[y].node].size
         /\ nds[ix[y].node].size \in 1 .. N
<1>1. ix[y] \in Locs /\ ix[y].node \in L /\ ix[y].slot \in Slots
      /\ nds[ix[y].node].slot[ix[y].slot] = y
  BY DEF PlacesOK
<1>2. ix[y].node \in Nodes
  BY <1>1 DEF NodesOK
<1>3. ix[y] = [node |-> ix[y].node, slot |-> ix[y].slot]
  BY <1>1 DEF Locs, NoLoc
<1> DEFINE nd == nds[ix[y].node]
           qn == q[ix[y].node]
           rn == r[ix[y].node]
           s == ix[y].slot
<1>4. NodeIs(nd, qn, rn)
  BY <1>2 DEF NodesOK
<1>5. nd.slot[s] # NoOrder
  BY <1>1, NA
<1> HIDE DEF nd, qn, rn, s
<1>6. qn[s] \in 1 .. N /\ qn[s] <= nd.size /\ nd.size \in 0 .. N
  <2>1. s \in Slots
    BY <1>1 DEF s
  <2> QED BY <1>4, <1>5, <2>1, NodeFields
<1>7. qn[s] \in 1 .. nd.size /\ nd.size \in 1 .. N
  BY <1>6, NA
<1> QED BY <1>1, <1>2, <1>3, <1>7 DEF nd, qn, s

LEMMA AllPlaces ==
  ASSUME NEW nds, NEW L, NEW q, NEW r, NEW ix,
         NodesOK(nds, L, q, r), PlacesOK(nds, L, ix)
  PROVE  \A y \in Ids : ix[y] # NoLoc =>
           /\ ix[y].node \in L /\ ix[y].node \in Nodes /\ ix[y].slot \in Slots
           /\ ix[y] = [node |-> ix[y].node, slot |-> ix[y].slot]
           /\ nds[ix[y].node].slot[ix[y].slot] = y
           /\ q[ix[y].node][ix[y].slot] \in 1 .. nds[ix[y].node].size
           /\ nds[ix[y].node].size \in 1 .. N
BY PlaceOf

LEMMA PlaceUnique ==
  ASSUME NEW nds, NEW L, NEW ix, PlacesOK(nds, L, ix),
         NEW x \in Ids, NEW y \in Ids, ix[x] # NoLoc, ix[x] = ix[y]
  PROVE  x = y
BY DEF PlacesOK

\* Two orders have the same position in the same node only if they are one.
LEMMA PositionUnique ==
  ASSUME NEW nds, NEW L, NEW q, NEW r, NEW ix,
         NodesOK(nds, L, q, r), PlacesOK(nds, L, ix),
         NEW x \in Ids, NEW y \in Ids, ix[x] # NoLoc, ix[y] # NoLoc,
         ix[x].node = ix[y].node,
         q[ix[x].node][ix[x].slot] = q[ix[y].node][ix[y].slot]
  PROVE  x = y
<1> DEFINE n == ix[x].node
<1>1. n \in Nodes /\ ix[x].slot \in Slots /\ ix[y].slot \in Slots
      /\ ix[x] = [node |-> n, slot |-> ix[x].slot]
      /\ ix[y] = [node |-> n, slot |-> ix[y].slot]
  BY PlaceOf
<1>2. NodeIs(nds[n], q[n], r[n])
  BY <1>1 DEF NodesOK
<1> HIDE DEF n
<1>3. \A s \in Slots : r[n][q[n][s]] = s
  BY <1>2, NodeFields
<1>4. q[n][ix[x].slot] = q[n][ix[y].slot]
  BY DEF n
<1>5. ix[x] = ix[y]
  BY <1>1, <1>3, <1>4
<1> QED BY <1>5, PlaceUnique

LEMMA RankUnique ==
  ASSUME NEW nds, NEW L, NEW q, NEW r, NEW ix, NEW cp, NEW rk,
         NodesOK(nds, L, q, r), PlacesOK(nds, L, ix), RanksOK(ix, q, cp, rk),
         OneToOne(cp, L),
         NEW x \in Ids, NEW y \in Ids, ix[x] # NoLoc, ix[y] # NoLoc,
         rk[x] = rk[y]
  PROVE  x = y
<1> USE DEF OneToOne
<1> DEFINE nX == ix[x].node nY == ix[y].node
           kX == q[nX][ix[x].slot] kY == q[nY][ix[y].slot]
<1>1. /\ nX \in L /\ nX \in Nodes /\ nY \in L /\ nY \in Nodes
      /\ kX \in Nat /\ kY \in Nat
  <2>1. /\ ix[x].node \in L /\ ix[x].node \in Nodes
        /\ q[ix[x].node][ix[x].slot] \in 1 .. nds[ix[x].node].size
        /\ nds[ix[x].node].size \in 1 .. N
    BY PlaceOf
  <2>2. /\ ix[y].node \in L /\ ix[y].node \in Nodes
        /\ q[ix[y].node][ix[y].slot] \in 1 .. nds[ix[y].node].size
        /\ nds[ix[y].node].size \in 1 .. N
    BY PlaceOf
  <2> QED BY <2>1, <2>2
<1>2. rk[x] \in Nat /\ rk[y] \in Nat
  BY DEF RanksOK
<1>3. /\ ~ (cp[nX] < cp[nY]) /\ ~ (nX = nY /\ kX < kY)
      /\ ~ (cp[nY] < cp[nX]) /\ ~ (nX = nY /\ kY < kX)
  BY <1>2 DEF RanksOK, Ahead
<1>4. nX = nY
  BY <1>1, <1>3
<1>5. kX = kY
  BY <1>1, <1>3, <1>4
<1> QED BY <1>4, <1>5, PositionUnique

\* The order x joins node n as its k-th.  The ranks rk1 put it behind those
\* ahead of that place and leave the others as they are to each other.
CanJoin(nds, L, q, r, ix, cp, rk, x, n, k, nd1, rk1) ==
  /\ NodesOK(nds, L, q, r) /\ PlacesOK(nds, L, ix) /\ RanksOK(ix, q, cp, rk)
  /\ OneToOne(cp, L)
  /\ x \in Ids /\ ix[x] = NoLoc
  /\ n \in L /\ nds[n].size # N /\ k \in 1 .. nds[n].size + 1
  /\ NodeIs(nd1, JoinQ(q[n], nds[n].free, k, nds[n].size),
            JoinR(r[n], k, nds[n].size))
  /\ nd1.slot = [nds[n].slot EXCEPT ![nds[n].free] = x]
  /\ SameOrder(ix, rk, rk1) /\ Comes(ix, q, cp, rk1, x, n, k)
\* It has taken it.
HasJoined(nds, L, q, r, ix, cp, x, n, k, nd1, rk1) ==
  LET q1 == [q EXCEPT ![n] = JoinQ(q[n], nds[n].free, k, nds[n].size)]
      r1 == [r EXCEPT ![n] = JoinR(r[n], k, nds[n].size)]
      nds1 == [nds EXCEPT ![n] = nd1]
      ix1 == [ix EXCEPT ![x] = [node |-> n, slot |-> nds[n].free]]
  IN  /\ NodesOK(nds1, L, q1, r1) /\ PlacesOK(nds1, L, ix1)
      /\ RanksOK(ix1, q1, cp, rk1)
      /\ ix1[x] # NoLoc

LEMMA JoinNode ==
  ASSUME NEW nds, NEW L, NEW q, NEW r, NEW ix, NEW cp, NEW rk, NEW x, NEW n,
         NEW k, NEW nd1, NEW rk1,
         CanJoin(nds, L, q, r, ix, cp, rk, x, n, k, nd1, rk1)
  PROVE  HasJoined(nds, L, q, r, ix, cp, x, n, k, nd1, rk1)
<1>0. /\ NodesOK(nds, L, q, r) /\ PlacesOK(nds, L, ix) /\ RanksOK(ix, q, cp, rk)
      /\ OneToOne(cp, L)
      /\ x \in Ids /\ ix[x] = NoLoc
      /\ n \in L /\ nds[n].size # N /\ k \in 1 .. nds[n].size + 1
      /\ NodeIs(nd1, JoinQ(q[n], nds[n].free, k, nds[n].size),
                JoinR(r[n], k, nds[n].size))
      /\ nd1.slot = [nds[n].slot EXCEPT ![nds[n].free] = x]
      /\ SameOrder(ix, rk, rk1) /\ Comes(ix, q, cp, rk1, x, n, k)
  BY DEF CanJoin
<1> USE <1>0
<1> USE DEF OneToOne, SameOrder, Comes
<1> DEFINE s0 == nds[n].free
           size == nds[n].size
           qn == JoinQ(q[n], s0, k, size)
           rn == JoinR(r[n], k, size)
           q1 == [q EXCEPT ![n] = qn]
           r1 == [r EXCEPT ![n] = rn]
           nds1 == [nds EXCEPT ![n] = nd1]
           ix1 == [ix EXCEPT ![x] = [node |-> n, slot |-> s0]]
<1>1. n \in Nodes /\ n # NoNode /\ L \subseteq Nodes
  BY NodeIds DEF NodesOK
<1>2. /\ nds = [m \in Nodes |-> nds[m]]
      /\ q = [m \in Nodes |-> q[m]] /\ r = [m \in Nodes |-> r[m]]
      /\ \A m \in Nodes : NodeIs(nds[m], q[m], r[m])
      /\ \A m \in Nodes \ L : nds[m] = FreshNode
  BY DEF NodesOK
<1>3. NodeIs(nds[n], q[n], r[n])
  BY <1>1, <1>2
<1>4. s0 \in Slots /\ q[n][s0] = size + 1 /\ nds[n].slot[s0] = NoOrder
  BY <1>3, AllocFields
<1>5. /\ nds1[n] = nd1 /\ q1[n] = qn /\ r1[n] = rn
      /\ \A m \in Nodes : m # n => /\ nds1[m] = nds[m]
                                   /\ q1[m] = q[m] /\ r1[m] = r[m]
      /\ nds1 = [m \in Nodes |-> nds1[m]]
      /\ q1 = [m \in Nodes |-> q1[m]] /\ r1 = [m \in Nodes |-> r1[m]]
  BY <1>1, <1>2
<1>6. ix \in [Ids -> Locs] /\ [node |-> n, slot |-> s0] \in Locs
      /\ [node |-> n, slot |-> s0] # NoLoc
  BY <1>1, <1>4 DEF PlacesOK, Locs, NoLoc
<1>7. /\ ix1 \in [Ids -> Locs] /\ ix1[x] = [node |-> n, slot |-> s0]
      /\ \A y \in Ids : y # x => ix1[y] = ix[y]
  BY <1>6
<1>8. /\ NodeIs(nd1, qn, rn)
      /\ nd1.slot = [nds[n].slot EXCEPT ![s0] = x]
      /\ nds[n].slot \in [Slots -> Ids \union {NoOrder}]
  BY <1>3, NodeFields
<1>9. nd1.slot[s0] = x /\ \A s \in Slots : s # s0 => nd1.slot[s] = nds[n].slot[s]
  BY <1>4, <1>8
<1>10. /\ q[n] \in [Slots -> 1 .. N] /\ size \in 0 .. N
       /\ \A s \in Slots : nds[n].slot[s] # NoOrder <=> q[n][s] <= size
  BY <1>3, NodeFields
<1>11. \A s \in Slots : qn[s] = IF s = s0 THEN k
                                ELSE IF q[n][s] >= k /\ q[n][s] <= size
                                     THEN q[n][s] + 1 ELSE q[n][s]
  BY DEF JoinQ
<1> HIDE DEF s0, size, qn, rn, q1, r1, nds1, ix1
<1>12. NodesOK(nds1, L, q1, r1)
  BY <1>1, <1>2, <1>5, <1>8 DEF NodesOK
<1>13. ASSUME NEW y \in Ids, ix1[y] # NoLoc
       PROVE  /\ ix1[y].node \in L /\ ix1[y].slot \in Slots
              /\ nds1[ix1[y].node].slot[ix1[y].slot] = y
  <2>1. CASE y = x
    <3>1. ix1[y].node = n /\ ix1[y].slot = s0
      BY <1>7, <2>1
    <3> QED BY <1>4, <1>5, <1>9, <2>1, <3>1
  <2>2. CASE y # x
    <3>1. /\ ix1[y] = ix[y] /\ ix[y].node \in L /\ ix[y].slot \in Slots
          /\ nds[ix[y].node].slot[ix[y].slot] = y
      BY <1>7, <1>13, <2>2 DEF PlacesOK
    <3>2. CASE ix[y].node = n
      <4>1. ix[y].slot # s0
        BY <1>4, <3>1, <3>2, NA
      <4>2. nds1[n].slot[ix[y].slot] = nds[n].slot[ix[y].slot]
        BY <1>5, <1>9, <3>1, <4>1
      <4> QED BY <3>1, <3>2, <4>2
    <3>3. CASE ix[y].node # n
      BY <1>1, <1>5, <3>1, <3>3
    <3> QED BY <3>2, <3>3
  <2> QED BY <2>1, <2>2
<1>14. ASSUME NEW m \in Nodes, NEW s \in Slots, nds1[m].slot[s] # NoOrder
       PROVE  ix1[nds1[m].slot[s]] = [node |-> m, slot |-> s]
  <2>1. CASE m = n /\ s = s0
    BY <1>5, <1>7, <1>9, <2>1
  <2>2. CASE ~ (m = n /\ s = s0)
    <3>1. nds1[m].slot[s] = nds[m].slot[s]
      BY <1>5, <1>9, <2>2
    <3>2. ix[nds[m].slot[s]] = [node |-> m, slot |-> s]
      BY <1>14, <3>1 DEF PlacesOK
    <3>3. nds[m].slot[s] \in Ids
      <4>1. nds[m].slot \in [Slots -> Ids \union {NoOrder}]
        BY <1>2, NodeFields
      <4> QED BY <1>14, <3>1, <4>1
    <3>4. nds[m].slot[s] # x
      BY <3>2, NodeIds DEF NoLoc
    <3> QED BY <1>7, <3>1, <3>2, <3>3, <3>4
  <2> QED BY <2>1, <2>2
<1>15. PlacesOK(nds1, L, ix1)
  BY <1>7, <1>13, <1>14 DEF PlacesOK
<1>16. ASSUME NEW y \in Ids, ix[y] # NoLoc
       PROVE  /\ y # x /\ ix1[y] = ix[y] /\ ix[y].node \in L
              /\ ix[y].node \in Nodes /\ ix[y].slot \in Slots
              /\ q[ix[y].node][ix[y].slot] \in Nat
              /\ ix[y].node = n => /\ ix[y].slot # s0
                                   /\ q[n][ix[y].slot] \in 1 .. size
              /\ ix[y].node # n => q1[ix[y].node] = q[ix[y].node]
  <2>1. /\ ix[y].node \in L /\ ix[y].node \in Nodes /\ ix[y].slot \in Slots
        /\ q[ix[y].node][ix[y].slot] \in 1 .. nds[ix[y].node].size
    BY <1>16, PlaceOf
  <2>2. ix[y].node = n => q[n][ix[y].slot] \in 1 .. size
    BY <2>1 DEF size
  <2> QED BY <1>4, <1>5, <1>7, <1>10, <1>16, <2>1, <2>2
<1>17. ASSUME NEW y \in Ids, NEW z \in Ids, ix1[y] # NoLoc, ix1[z] # NoLoc
       PROVE  rk1[y] < rk1[z] <=> Ahead(ix1, q1, cp, y, ix1[z].node,
                                        q1[ix1[z].node][ix1[z].slot])
  <2>1. CASE y # x /\ z # x
    <3>1. ix[y] # NoLoc /\ ix[z] # NoLoc
      BY <1>7, <1>17, <2>1
    <3>2. rk1[y] < rk1[z] <=> Ahead(ix, q, cp, y, ix[z].node,
                                    q[ix[z].node][ix[z].slot])
      BY <3>1 DEF RanksOK
    <3>3. ix[y].node = ix[z].node =>
            (q1[ix[z].node][ix[y].slot] < q1[ix[z].node][ix[z].slot]
              <=> q[ix[z].node][ix[y].slot] < q[ix[z].node][ix[z].slot])
      <4>1. CASE ix[z].node # n
        BY <1>16, <3>1, <4>1
      <4>2. CASE ix[z].node = n /\ ix[y].node = n
        <5> DEFINE a == ix[y].slot b == ix[z].slot
        <5>1. /\ a \in Slots /\ b \in Slots /\ a # s0 /\ b # s0
              /\ q[n][a] \in 1 .. size /\ q[n][b] \in 1 .. size
          BY <1>16, <3>1, <4>2
        <5> HIDE DEF a, b
        <5>2. qn[a] < qn[b] <=> q[n][a] < q[n][b]
          BY <1>10, <1>11, <5>1
        <5> QED BY <1>5, <4>2, <5>2 DEF a, b
      <4> QED BY <4>1, <4>2
    <3>4. ix1[y] = ix[y] /\ ix1[z] = ix[z]
      BY <1>16, <3>1
    <3> QED BY <3>2, <3>3, <3>4 DEF Ahead
  <2>2. CASE y # x /\ z = x
    <3>1. ix[y] # NoLoc /\ ix1[z] = [node |-> n, slot |-> s0] /\ qn[s0] = k
      BY <1>4, <1>7, <1>11, <1>17, <2>2
    <3>2. ix[y].node = n => (qn[ix[y].slot] < k <=> q[n][ix[y].slot] < k)
      BY <1>10, <1>11, <1>16, <3>1
    <3>3. ix1[y] = ix[y] /\ ix1[z].node = n /\ ix1[z].slot = s0
      BY <1>16, <3>1
    <3>4. Ahead(ix1, q1, cp, y, ix1[z].node, q1[ix1[z].node][ix1[z].slot])
            <=> \/ cp[ix[y].node] < cp[n]
                \/ ix[y].node = n /\ qn[ix[y].slot] < k
      BY <1>5, <3>1, <3>3 DEF Ahead
    <3>5. rk1[y] < rk1[z] <=> Ahead(ix, q, cp, y, n, k)
      BY <2>2, <3>1
    <3> QED BY <3>2, <3>4, <3>5 DEF Ahead
  <2>3. CASE y = x /\ z # x
    <3>1. ix[z] # NoLoc /\ ix1[y] = [node |-> n, slot |-> s0] /\ qn[s0] = k
      BY <1>4, <1>7, <1>11, <1>17, <2>3
    <3>2. ix[z].node = n => (k < qn[ix[z].slot] <=> ~ (q[n][ix[z].slot] < k))
      BY <1>10, <1>11, <1>16, <3>1
    <3>3. ix[z].node # n => (cp[n] < cp[ix[z].node] <=> ~ (cp[ix[z].node] < cp[n]))
      <4>1. cp[n] \in Nat /\ cp[ix[z].node] \in Nat /\ ix[z].node \in L
        BY <1>1, <1>16, <3>1
      <4> QED BY <4>1
    <3>4. ix[z].node = n => ~ (cp[n] < cp[ix[z].node]) /\ ~ (cp[ix[z].node] < cp[n])
      BY <1>1
    <3>5. rk1[x] < rk1[z] <=> ~ Ahead(ix, q, cp, z, n, k)
      BY <3>1
    <3>6. ix1[z] = ix[z] /\ ix1[x].node = n /\ ix1[x].slot = s0
      BY <1>16, <2>3, <3>1
    <3>7. Ahead(ix1, q1, cp, y, ix1[z].node, q1[ix1[z].node][ix1[z].slot])
            <=> \/ cp[n] < cp[ix[z].node]
                \/ n = ix[z].node /\ q1[ix[z].node][s0] < q1[ix[z].node][ix[z].slot]
      BY <2>3, <3>6 DEF Ahead
    <3>8. Ahead(ix, q, cp, z, n, k)
            <=> \/ cp[ix[z].node] < cp[n]
                \/ ix[z].node = n /\ q[n][ix[z].slot] < k
      BY DEF Ahead
    <3>9. CASE ix[z].node = n
      <4>1. Ahead(ix1, q1, cp, y, ix1[z].node, q1[ix1[z].node][ix1[z].slot])
              <=> k < qn[ix[z].slot]
        BY <1>5, <3>1, <3>4, <3>7, <3>9
      <4> QED BY <2>3, <3>2, <3>4, <3>5, <3>8, <3>9, <4>1
    <3>10. CASE ix[z].node # n
      BY <2>3, <3>3, <3>5, <3>7, <3>8, <3>10
    <3> QED BY <3>9, <3>10
  <2>4. CASE y = x /\ z = x
    <3>1. ix1[x] = [node |-> n, slot |-> s0] /\ qn[s0] = k
      BY <1>4, <1>7, <1>11
    <3>2. ~ (rk1[x] < rk1[x]) /\ ~ (k < k) /\ ~ (cp[n] < cp[n])
      BY <1>1
    <3> QED BY <1>5, <2>4, <3>1, <3>2 DEF Ahead
  <2> QED BY <2>1, <2>2, <2>3, <2>4
<1>18. RanksOK(ix1, q1, cp, rk1)
  BY <1>17 DEF RanksOK
<1> QED BY <1>6, <1>7, <1>12, <1>15, <1>18
        DEF HasJoined, q1, r1, nds1, ix1, qn, rn, s0, size

\* The order x can leave its node, ...
CanLeave(nds, L, q, r, ix, cp, rk, x, n, s0) ==
  /\ NodesOK(nds, L, q, r) /\ PlacesOK(nds, L, ix) /\ RanksOK(ix, q, cp, rk)
  /\ x \in Ids /\ ix[x] # NoLoc /\ n = ix[x].node /\ s0 = ix[x].slot
\* ... and has left it.
HasLeft(nds, L, q, r, ix, cp, rk, x, n, s0) ==
  LET q1 == [q EXCEPT ![n] = LeaveQ(q[n], s0, q[n][s0], nds[n].size)]
      r1 == [r EXCEPT ![n] = LeaveR(r[n], q[n][s0], nds[n].size)]
      nds1 == [nds EXCEPT ![n] = NodeErase(nds[n], s0)]
      ix1 == [ix EXCEPT ![x] = NoLoc]
  IN  /\ NodesOK(nds1, L, q1, r1) /\ PlacesOK(nds1, L, ix1)
      /\ RanksOK(ix1, q1, cp, rk)

LEMMA LeaveNode ==
  ASSUME NEW nds, NEW L, NEW q, NEW r, NEW ix, NEW cp, NEW rk, NEW x, NEW n,
         NEW s0, CanLeave(nds, L, q, r, ix, cp, rk, x, n, s0)
  PROVE  HasLeft(nds, L, q, r, ix, cp, rk, x, n, s0)
<1>0. /\ NodesOK(nds, L, q, r) /\ PlacesOK(nds, L, ix) /\ RanksOK(ix, q, cp, rk)
      /\ x \in Ids /\ ix[x] # NoLoc /\ n = ix[x].node /\ s0 = ix[x].slot
  BY DEF CanLeave
<1> USE <1>0
<1>1a. \A y \in Ids : ix[y] # NoLoc =>
         /\ ix[y].node \in L /\ ix[y].node \in Nodes /\ ix[y].slot \in Slots
         /\ ix[y] = [node |-> ix[y].node, slot |-> ix[y].slot]
         /\ nds[ix[y].node].slot[ix[y].slot] = y
         /\ q[ix[y].node][ix[y].slot] \in 1 .. nds[ix[y].node].size
         /\ nds[ix[y].node].size \in 1 .. N
  BY AllPlaces
<1> DEFINE size == nds[n].size
           k == q[n][s0]
           nd1 == NodeErase(nds[n], s0)
           qn == LeaveQ(q[n], s0, k, size)
           rn == LeaveR(r[n], k, size)
           q1 == [q EXCEPT ![n] = qn]
           r1 == [r EXCEPT ![n] = rn]
           nds1 == [nds EXCEPT ![n] = nd1]
           ix1 == [ix EXCEPT ![x] = NoLoc]
<1>1. /\ n \in L /\ n \in Nodes /\ s0 \in Slots
      /\ ix[x] = [node |-> n, slot |-> s0]
      /\ nds[n].slot[s0] = x /\ k \in 1 .. size /\ size \in 1 .. N
  BY PlaceOf
<1>2. /\ L \subseteq Nodes /\ nds = [m \in Nodes |-> nds[m]]
      /\ q = [m \in Nodes |-> q[m]] /\ r = [m \in Nodes |-> r[m]]
      /\ \A m \in Nodes : NodeIs(nds[m], q[m], r[m])
      /\ \A m \in Nodes \ L : nds[m] = FreshNode
  BY DEF NodesOK
<1>3. NodeIs(nds[n], q[n], r[n])
  BY <1>1, <1>2
<1>4. /\ NodeIs(nd1, qn, rn)
      /\ nd1.slot = [nds[n].slot EXCEPT ![s0] = NoOrder]
  BY <1>1, <1>3, EraseIs, NA
<1>5. /\ nds1[n] = nd1 /\ q1[n] = qn /\ r1[n] = rn
      /\ \A m \in Nodes : m # n => /\ nds1[m] = nds[m]
                                   /\ q1[m] = q[m] /\ r1[m] = r[m]
      /\ nds1 = [m \in Nodes |-> nds1[m]]
      /\ q1 = [m \in Nodes |-> q1[m]] /\ r1 = [m \in Nodes |-> r1[m]]
  BY <1>1, <1>2
<1>6. ix \in [Ids -> Locs] /\ NoLoc \in Locs
  BY DEF PlacesOK, Locs
<1>7. /\ ix1 \in [Ids -> Locs] /\ ix1[x] = NoLoc
      /\ \A y \in Ids : y # x => ix1[y] = ix[y]
  BY <1>6
<1>8. nds[n].slot \in [Slots -> Ids \union {NoOrder}]
  BY <1>3, NodeFields
<1>9. nd1.slot[s0] = NoOrder /\ \A s \in Slots : s # s0 => nd1.slot[s] = nds[n].slot[s]
  BY <1>1, <1>4, <1>8
<1>10. /\ q[n] \in [Slots -> 1 .. N]
       /\ \A s \in Slots : r[n][q[n][s]] = s
  BY <1>3, NodeFields
<1>11. \A s \in Slots : qn[s] = IF s = s0 THEN size
                                ELSE IF q[n][s] > k /\ q[n][s] <= size
                                     THEN q[n][s] - 1 ELSE q[n][s]
  BY DEF LeaveQ
<1>12. \A s \in Slots : s # s0 => q[n][s] # k
  BY <1>1, <1>10
<1> HIDE DEF size, k, nd1, qn, rn, q1, r1, nds1, ix1
<1>13. NodesOK(nds1, L, q1, r1)
  BY <1>1, <1>2, <1>4, <1>5 DEF NodesOK
<1>14. ASSUME NEW y \in Ids, ix1[y] # NoLoc
       PROVE  /\ y # x /\ ix1[y] = ix[y] /\ ix[y] # NoLoc /\ ix[y].node \in L
              /\ ix[y].node \in Nodes /\ ix[y].slot \in Slots
              /\ nds[ix[y].node].slot[ix[y].slot] = y
              /\ ix[y].node = n => /\ ix[y].slot # s0
                                   /\ q[n][ix[y].slot] \in 1 .. size
              /\ ix[y].node # n => q1[ix[y].node] = q[ix[y].node]
  <2>1. y # x /\ ix1[y] = ix[y] /\ ix[y] # NoLoc
    BY <1>7, <1>14
  <2>2. /\ ix[y].node \in L /\ ix[y].node \in Nodes /\ ix[y].slot \in Slots
        /\ nds[ix[y].node].slot[ix[y].slot] = y
        /\ q[ix[y].node][ix[y].slot] \in 1 .. nds[ix[y].node].size
    BY <1>1a, <2>1
  <2>3. ix[y].node = n => q[n][ix[y].slot] \in 1 .. size
    BY <2>2 DEF size
  <2> QED BY <1>1, <1>5, <2>1, <2>2, <2>3
<1>15. \A y \in Ids : ix1[y] # NoLoc =>
         /\ ix1[y].node \in L /\ ix1[y].slot \in Slots
         /\ nds1[ix1[y].node].slot[ix1[y].slot] = y
  BY <1>5, <1>9, <1>14
<1>16. ASSUME NEW m \in Nodes, NEW s \in Slots, nds1[m].slot[s] # NoOrder
       PROVE  ix1[nds1[m].slot[s]] = [node |-> m, slot |-> s]
  <2>1. ~ (m = n /\ s = s0) /\ nds1[m].slot[s] = nds[m].slot[s]
    BY <1>5, <1>9, <1>16
  <2>2. ix[nds[m].slot[s]] = [node |-> m, slot |-> s]
    BY <1>16, <2>1 DEF PlacesOK
  <2>3. nds[m].slot[s] \in Ids
    <3>1. nds[m].slot \in [Slots -> Ids \union {NoOrder}]
      BY <1>2, NodeFields
    <3> QED BY <1>16, <2>1, <3>1
  <2>4. nds[m].slot[s] # x
    BY <1>1, <2>1, <2>2
  <2> QED BY <1>7, <2>1, <2>2, <2>3, <2>4
<1>17. PlacesOK(nds1, L, ix1)
  BY <1>7, <1>15, <1>16 DEF PlacesOK
<1>18. ASSUME NEW y \in Ids, NEW z \in Ids, ix1[y] # NoLoc, ix1[z] # NoLoc
       PROVE  rk[y] < rk[z] <=> Ahead(ix1, q1, cp, y, ix1[z].node,
                                      q1[ix1[z].node][ix1[z].slot])
  <2>1. ix[y] # NoLoc /\ ix[z] # NoLoc
    BY <1>14, <1>18
  <2>2. rk[y] < rk[z] <=> Ahead(ix, q, cp, y, ix[z].node,
                                q[ix[z].node][ix[z].slot])
    BY <2>1 DEF RanksOK
  <2>3. ix[y].node = ix[z].node =>
          (q1[ix[z].node][ix[y].slot] < q1[ix[z].node][ix[z].slot]
            <=> q[ix[z].node][ix[y].slot] < q[ix[z].node][ix[z].slot])
    <3>1. CASE ix[z].node # n
      BY <1>14, <1>18, <3>1
    <3>2. CASE ix[z].node = n /\ ix[y].node = n
      <4> DEFINE a == ix[y].slot b == ix[z].slot
      <4>1. /\ a \in Slots /\ b \in Slots /\ a # s0 /\ b # s0
            /\ q[n][a] \in 1 .. size /\ q[n][b] \in 1 .. size
        BY <1>14, <1>18, <3>2
      <4> HIDE DEF a, b
      <4>2. qn[a] < qn[b] <=> q[n][a] < q[n][b]
        BY <1>1, <1>11, <1>12, <4>1
      <4> QED BY <1>5, <3>2, <4>2 DEF a, b
    <3> QED BY <3>1, <3>2
  <2> QED BY <1>14, <1>18, <2>1, <2>2, <2>3 DEF Ahead
<1>19. RanksOK(ix1, q1, cp, rk)
  BY <1>18 DEF RanksOK
<1> QED BY <1>13, <1>17, <1>19
        DEF HasLeft, q1, r1, nds1, ix1, qn, rn, nd1, k, size

\* An empty node comes into the chain.
LEMMA AddNode ==
  ASSUME NEW nds, NEW L, NEW q, NEW r, NEW ix, NEW cp, NEW rk,
         NodesOK(nds, L, q, r), PlacesOK(nds, L, ix), RanksOK(ix, q, cp, rk),
         NEW m \in Nodes, NEW cp1,
         \A n, l \in L : cp1[n] < cp1[l] <=> cp[n] < cp[l]
  PROVE  /\ NodesOK(nds, L \union {m}, q, r) /\ PlacesOK(nds, L \union {m}, ix)
         /\ RanksOK(ix, q, cp1, rk)
<1>1. NodesOK(nds, L \union {m}, q, r)
  BY DEF NodesOK
<1>2. PlacesOK(nds, L \union {m}, ix)
  BY DEF PlacesOK
<1>3. ASSUME NEW x \in Ids, NEW y \in Ids, ix[x] # NoLoc, ix[y] # NoLoc
      PROVE  rk[x] < rk[y] <=> Ahead(ix, q, cp1, x, ix[y].node,
                                     q[ix[y].node][ix[y].slot])
  <2>1. ix[x].node \in L /\ ix[y].node \in L
    BY <1>3 DEF PlacesOK
  <2>2. rk[x] < rk[y] <=> Ahead(ix, q, cp, x, ix[y].node,
                                q[ix[y].node][ix[y].slot])
    BY <1>3 DEF RanksOK
  <2> QED BY <2>1, <2>2 DEF Ahead
<1>4. RanksOK(ix, q, cp1, rk)
  BY <1>3 DEF RanksOK
<1> QED BY <1>1, <1>2, <1>4

\* An emptied node can go back to the pool, ...
CanDrop(nds, L, q, r, ix, cp, rk, n) ==
  /\ NodesOK(nds, L, q, r) /\ PlacesOK(nds, L, ix) /\ RanksOK(ix, q, cp, rk)
  /\ n \in L /\ nds[n].size = 0
\* ... and has gone.
HasDropped(nds, L, q, r, ix, cp, rk, n) ==
  LET q1 == [q EXCEPT ![n] = FreshQ]
      r1 == [r EXCEPT ![n] = FreshR]
      nds1 == [nds EXCEPT ![n] = FreshNode]
  IN  /\ NodesOK(nds1, L \ {n}, q1, r1) /\ PlacesOK(nds1, L \ {n}, ix)
      /\ RanksOK(ix, q1, cp, rk)

LEMMA DropNode ==
  ASSUME NEW nds, NEW L, NEW q, NEW r, NEW ix, NEW cp, NEW rk, NEW n,
         CanDrop(nds, L, q, r, ix, cp, rk, n)
  PROVE  HasDropped(nds, L, q, r, ix, cp, rk, n)
<1> USE DEF CanDrop
<1> DEFINE q1 == [q EXCEPT ![n] = FreshQ]
           r1 == [r EXCEPT ![n] = FreshR]
           nds1 == [nds EXCEPT ![n] = FreshNode]
<1>0. \A y \in Ids : ix[y] # NoLoc =>
         /\ ix[y].node \in L /\ ix[y].node \in Nodes /\ ix[y].slot \in Slots
         /\ ix[y] = [node |-> ix[y].node, slot |-> ix[y].slot]
         /\ nds[ix[y].node].slot[ix[y].slot] = y
         /\ q[ix[y].node][ix[y].slot] \in 1 .. nds[ix[y].node].size
         /\ nds[ix[y].node].size \in 1 .. N
  BY AllPlaces
<1>1. ASSUME NEW y \in Ids, ix[y] # NoLoc, ix[y].node = n PROVE FALSE
  <2>1. q[n][ix[y].slot] \in 1 .. 0
    BY <1>0, <1>1
  <2> QED BY <2>1
<1>2. /\ L \subseteq Nodes /\ nds = [m \in Nodes |-> nds[m]]
      /\ q = [m \in Nodes |-> q[m]] /\ r = [m \in Nodes |-> r[m]]
      /\ \A m \in Nodes : NodeIs(nds[m], q[m], r[m])
      /\ \A m \in Nodes \ L : nds[m] = FreshNode
  BY DEF NodesOK
<1>3. /\ nds1[n] = FreshNode /\ q1[n] = FreshQ /\ r1[n] = FreshR
      /\ \A m \in Nodes : m # n => /\ nds1[m] = nds[m]
                                   /\ q1[m] = q[m] /\ r1[m] = r[m]
      /\ nds1 = [m \in Nodes |-> nds1[m]]
      /\ q1 = [m \in Nodes |-> q1[m]] /\ r1 = [m \in Nodes |-> r1[m]]
  BY <1>2
<1>4. \A s \in Slots : FreshNode.slot[s] = NoOrder
  BY DEF FreshNode
<1> HIDE DEF q1, r1, nds1
<1>5. NodesOK(nds1, L \ {n}, q1, r1)
  <2>1. \A m \in Nodes : NodeIs(nds1[m], q1[m], r1[m])
    BY <1>2, <1>3, FreshIs
  <2> QED BY <1>2, <1>3, <2>1 DEF NodesOK
<1>6. PlacesOK(nds1, L \ {n}, ix)
  <2>1. ix \in [Ids -> Locs]
    BY DEF PlacesOK
  <2>2. \A x \in Ids : ix[x] # NoLoc =>
          /\ ix[x].node \in L \ {n} /\ ix[x].slot \in Slots
          /\ nds1[ix[x].node].slot[ix[x].slot] = x
    BY <1>0, <1>1, <1>3
  <2>3. \A m \in Nodes : \A s \in Slots :
          nds1[m].slot[s] # NoOrder =>
            ix[nds1[m].slot[s]] = [node |-> m, slot |-> s]
    BY <1>3, <1>4 DEF PlacesOK
  <2> QED BY <2>1, <2>2, <2>3 DEF PlacesOK
<1>7. ASSUME NEW x \in Ids, NEW y \in Ids, ix[x] # NoLoc, ix[y] # NoLoc
      PROVE  rk[x] < rk[y] <=> Ahead(ix, q1, cp, x, ix[y].node,
                                     q1[ix[y].node][ix[y].slot])
  <2>1. q1[ix[y].node] = q[ix[y].node]
    BY <1>0, <1>1, <1>3, <1>7
  <2>2. rk[x] < rk[y] <=> Ahead(ix, q, cp, x, ix[y].node,
                                q[ix[y].node][ix[y].slot])
    BY <1>7 DEF RanksOK
  <2> QED BY <2>1, <2>2 DEF Ahead
<1>8. RanksOK(ix, q1, cp, rk)
  BY <1>7 DEF RanksOK
<1> QED BY <1>5, <1>6, <1>8 DEF HasDropped, q1, r1, nds1

-----------------------------------------------------------------------------
(* The levels.                                                             *)

\* A price is better than another, worse, or the same.
LEMMA BetterOrder ==
  /\ \A p, o \in Prices : Better(p, o) \/ Better(o, p) \/ p = o
  /\ \A p \in Prices : ~ Better(p, p)
  /\ \A p, o \in Prices : Better(p, o) => ~ Better(o, p)
  /\ \A p, o, u \in Prices : Better(p, o) /\ Better(o, u) => Better(p, u)
BY ChainAssumption DEF Better

\* The ranks with x as the k-th.
RankFor(rk, x, k) ==
  [y \in Ids |-> IF y = x THEN k ELSE IF rk[y] >= k THEN rk[y] + 1 ELSE rk[y]]

LEMMA RankForIs ==
  ASSUME NEW rk \in [Ids -> Nat], NEW x \in Ids, NEW k \in Nat
  PROVE  /\ RankFor(rk, x, k) \in [Ids -> Nat]
         /\ \A y, z \in Ids : y # x /\ z # x =>
              (RankFor(rk, x, k)[y] < RankFor(rk, x, k)[z] <=> rk[y] < rk[z])
         /\ \A y \in Ids : y # x =>
              /\ RankFor(rk, x, k)[y] < RankFor(rk, x, k)[x] <=> rk[y] < k
              /\ RankFor(rk, x, k)[x] < RankFor(rk, x, k)[y] <=> ~ (rk[y] < k)
<1>1. \A y \in Ids : rk[y] \in Nat
  OBVIOUS
<1>2. RankFor(rk, x, k) \in [Ids -> Nat]
  BY <1>1 DEF RankFor
<1>3. \A y \in Ids : RankFor(rk, x, k)[y] =
        IF y = x THEN k ELSE IF rk[y] >= k THEN rk[y] + 1 ELSE rk[y]
  BY DEF RankFor
<1> QED BY <1>1, <1>2, <1>3

\* A new order behind all at its price or better is the last of its level.
LEMMA LevelsJoin ==
  ASSUME NEW ix \in [Ids -> Locs], NEW lo, NEW hd, NEW tl,
         NEW rk \in [Ids -> Nat], LevelsOK(ix, lo, hd, tl, rk),
         NEW x \in Ids, ix[x] = NoLoc, NEW loc \in Locs, loc # NoLoc,
         NEW p \in Prices, NEW k, Splits(ix, lo, rk, p, k),
         NEW rk1 \in [Ids -> Nat],
         \A y, z \in Ids : ix[y] # NoLoc /\ ix[z] # NoLoc =>
           (rk1[y] < rk1[z] <=> rk[y] < rk[z]),
         \A y \in Ids : ix[y] # NoLoc =>
           /\ rk1[y] < rk1[x] <=> rk[y] < k
           /\ rk1[x] < rk1[y] <=> ~ (rk[y] < k)
  PROVE  LevelsOK([ix EXCEPT ![x] = loc], [lo EXCEPT ![x] = p],
                  [hd EXCEPT ![p] = IF @ = NoLoc THEN loc ELSE @],
                  [tl EXCEPT ![p] = loc], rk1)
<1> DEFINE ix1 == [ix EXCEPT ![x] = loc]
           lo1 == [lo EXCEPT ![x] = p]
           hd1 == [hd EXCEPT ![p] = IF @ = NoLoc THEN loc ELSE @]
           tl1 == [tl EXCEPT ![p] = loc]
<1>1. /\ lo \in [Ids -> Prices \union {0}]
      /\ hd \in [Prices -> Locs] /\ tl \in [Prices -> Locs]
      /\ \A y \in Ids : ix[y] # NoLoc => lo[y] \in Prices
      /\ \A y, z \in Ids : ix[y] # NoLoc /\ ix[z] # NoLoc /\ rk[y] < rk[z] =>
           ~ Better(lo[z], lo[y])
      /\ \A u \in Prices : EndsOK(ix, lo, hd, tl, rk, u)
  BY DEF LevelsOK
<1>2. /\ ix1[x] = loc /\ lo1[x] = p /\ tl1[p] = loc
      /\ hd1[p] = IF hd[p] = NoLoc THEN loc ELSE hd[p]
      /\ \A y \in Ids : y # x => ix1[y] = ix[y] /\ lo1[y] = lo[y]
      /\ \A u \in Prices : u # p => hd1[u] = hd[u] /\ tl1[u] = tl[u]
      /\ lo1 \in [Ids -> Prices \union {0}]
      /\ hd1 \in [Prices -> Locs] /\ tl1 \in [Prices -> Locs]
  BY <1>1
<1> HIDE DEF ix1, lo1, hd1, tl1
<1>3. \A y \in Ids : ix1[y] # NoLoc => lo1[y] \in Prices
  BY <1>1, <1>2
<1>4. \A y \in Ids : ix[y] # NoLoc =>
        IF rk[y] < k THEN ~ Better(p, lo[y]) ELSE Better(p, lo[y])
  BY DEF Splits
<1>5. ASSUME NEW y \in Ids, NEW z \in Ids,
             ix1[y] # NoLoc, ix1[z] # NoLoc, rk1[y] < rk1[z]
      PROVE  ~ Better(lo1[z], lo1[y])
  <2>1. CASE y # x /\ z # x
    BY <1>1, <1>2, <1>5, <2>1
  <2>2. CASE y # x /\ z = x
    <3>1. ix[y] # NoLoc /\ lo1[y] = lo[y] /\ lo1[z] = p
      BY <1>2, <1>5, <2>2
    <3>2. rk[y] < k
      BY <1>5, <2>2, <3>1
    <3> QED BY <1>4, <3>1, <3>2
  <2>3. CASE y = x /\ z # x
    <3>1. ix[z] # NoLoc /\ lo1[z] = lo[z] /\ lo1[y] = p /\ lo[z] \in Prices
      BY <1>1, <1>2, <1>5, <2>3
    <3>2. ~ (rk[z] < k)
      BY <1>5, <2>3, <3>1
    <3>3. Better(p, lo[z])
      BY <1>4, <3>1, <3>2
    <3> QED BY <3>1, <3>3, BetterOrder
  <2>4. CASE y = x /\ z = x
    BY <1>2, <2>4, BetterOrder
  <2> QED BY <2>1, <2>2, <2>3, <2>4
<1>6. ASSUME NEW u \in Prices PROVE EndsOK(ix1, lo1, hd1, tl1, rk1, u)
  <2>1. CASE u # p
    <3>1. InLevel(ix1, lo1, u) = InLevel(ix, lo, u)
      BY <1>2, <2>1 DEF InLevel
    <3>2. \A y \in InLevel(ix, lo, u) : y \in Ids /\ ix[y] # NoLoc /\ ix1[y] = ix[y]
      BY <1>2 DEF InLevel
    <3>3. \A y, z \in InLevel(ix, lo, u) : rk1[y] <= rk1[z] <=> rk[y] <= rk[z]
      <4> SUFFICES ASSUME NEW y \in InLevel(ix, lo, u), NEW z \in InLevel(ix, lo, u)
                   PROVE  rk1[y] <= rk1[z] <=> rk[y] <= rk[z]
        OBVIOUS
      <4>1. rk1[z] < rk1[y] <=> rk[z] < rk[y]
        BY <3>2
      <4>2. rk1[y] \in Nat /\ rk1[z] \in Nat /\ rk[y] \in Nat /\ rk[z] \in Nat
        BY <3>2
      <4> QED BY <4>1, <4>2
    <3>4. EndsOK(ix, lo, hd, tl, rk, u)
      BY <1>1
    <3>5. hd1[u] = hd[u] /\ tl1[u] = tl[u]
      BY <1>2, <2>1
    <3> QED BY <3>1, <3>2, <3>3, <3>4, <3>5 DEF EndsOK
  <2>2. CASE u = p
    <3>1. InLevel(ix1, lo1, p) = InLevel(ix, lo, p) \union {x}
      BY <1>2 DEF InLevel
    <3>2. \A y \in InLevel(ix, lo, p) :
            y \in Ids /\ ix[y] # NoLoc /\ ix1[y] = ix[y] /\ y # x /\ lo[y] = p
      BY <1>2 DEF InLevel
    <3>3. \A y \in InLevel(ix, lo, p) : rk1[y] < rk1[x]
      <4> SUFFICES ASSUME NEW y \in InLevel(ix, lo, p) PROVE rk1[y] < rk1[x]
        OBVIOUS
      <4>1. rk[y] < k
        BY <1>4, <3>2, BetterOrder
      <4> QED BY <3>2, <4>1
    <3>4. EndsOK(ix, lo, hd, tl, rk, p)
      BY <1>1
    <3>5. /\ tl1[p] = ix1[x]
          /\ \A y \in InLevel(ix1, lo1, p) : rk1[y] <= rk1[x]
      BY <1>2, <3>1, <3>2, <3>3
    <3>6. CASE InLevel(ix, lo, p) = {}
      <4>1. hd1[p] = ix1[x]
        BY <1>2, <3>4, <3>6 DEF EndsOK
      <4>2. InLevel(ix1, lo1, p) = {x}
        BY <3>1, <3>6
      <4>3. rk1[x] <= rk1[x]
        OBVIOUS
      <4> QED BY <2>2, <3>5, <4>1, <4>2, <4>3 DEF EndsOK
    <3>7. CASE InLevel(ix, lo, p) # {}
      <4>1. PICK h \in InLevel(ix, lo, p) :
              hd[p] = ix[h] /\ \A y \in InLevel(ix, lo, p) : rk[h] <= rk[y]
        BY <3>4, <3>7 DEF EndsOK
      <4>2. hd1[p] = ix1[h]
        BY <1>2, <3>2, <4>1
      <4>3. \A y \in InLevel(ix, lo, p) : rk1[h] <= rk1[y]
        <5> SUFFICES ASSUME NEW y \in InLevel(ix, lo, p) PROVE rk1[h] <= rk1[y]
          OBVIOUS
        <5>1. rk1[y] < rk1[h] <=> rk[y] < rk[h]
          BY <3>2
        <5>2. rk1[y] \in Nat /\ rk1[h] \in Nat /\ rk[y] \in Nat /\ rk[h] \in Nat
          BY <3>2
        <5> QED BY <4>1, <5>1, <5>2
      <4>4. rk1[h] <= rk1[x]
        BY <3>2, <3>3
      <4>5. h \in InLevel(ix1, lo1, p)
        BY <3>1
      <4> QED BY <2>2, <3>1, <3>5, <4>2, <4>3, <4>4, <4>5 DEF EndsOK
    <3> QED BY <3>6, <3>7
  <2> QED BY <2>1, <2>2
<1>7. LevelsOK(ix1, lo1, hd1, tl1, rk1)
  BY <1>2, <1>3, <1>5, <1>6 DEF LevelsOK
<1> QED BY <1>7 DEF ix1, lo1, hd1, tl1

\* loc is the place of the order right behind x, if there is one.
IsNext(ix, rk, x, loc) ==
  IF \A y \in Ids : ix[y] # NoLoc => rk[y] <= rk[x] THEN loc = NoLoc
  ELSE \E y \in Ids : /\ ix[y] # NoLoc /\ loc = ix[y] /\ rk[x] < rk[y]
                      /\ \A z \in Ids : ix[z] # NoLoc =>
                           rk[z] <= rk[x] \/ rk[y] <= rk[z]
IsPrev(ix, rk, x, loc) ==
  IF \A y \in Ids : ix[y] # NoLoc => rk[x] <= rk[y] THEN loc = NoLoc
  ELSE \E y \in Ids : /\ ix[y] # NoLoc /\ loc = ix[y] /\ rk[y] < rk[x]
                      /\ \A z \in Ids : ix[z] # NoLoc =>
                           rk[x] <= rk[z] \/ rk[z] <= rk[y]

\* No two orders share a place, nor a rank.
Apart(ix, rk) ==
  \A y, z \in Ids :
    /\ ix[y] # NoLoc
    /\ ix[z] # NoLoc
    /\ ix[y] = ix[z] \/ rk[y] = rk[z]
    => y = z

\* An order leaves its level; when it was an end of it, its neighbour is the
\* new end.
LevelsLeft(ix, lo, hd, tl, rk, x, nl, pl) ==
  LET p == lo[x]
      first == hd[p] = ix[x]
      last == tl[p] = ix[x]
  IN  LevelsOK([ix EXCEPT ![x] = NoLoc], [lo EXCEPT ![x] = 0],
               [hd EXCEPT ![p] = IF first /\ last THEN NoLoc
                                 ELSE IF first THEN nl ELSE @],
               [tl EXCEPT ![p] = IF first /\ last THEN NoLoc
                                 ELSE IF last THEN pl ELSE @], rk)

LEMMA LevelsLeave ==
  ASSUME NEW ix \in [Ids -> Locs], NEW lo, NEW hd, NEW tl,
         NEW rk \in [Ids -> Nat], LevelsOK(ix, lo, hd, tl, rk),
         NEW x \in Ids, ix[x] # NoLoc, Apart(ix, rk),
         NEW nl, IsNext(ix, rk, x, nl), NEW pl, IsPrev(ix, rk, x, pl)
  PROVE  LevelsLeft(ix, lo, hd, tl, rk, x, nl, pl)
<1>0. /\ \A y, z \in Ids : ix[y] # NoLoc /\ ix[y] = ix[z] => y = z
      /\ \A y, z \in Ids :
           ix[y] # NoLoc /\ ix[z] # NoLoc /\ rk[y] = rk[z] => y = z
  BY DEF Apart
<1> USE <1>0
<1> DEFINE p == lo[x]
           first == hd[p] = ix[x]
           last == tl[p] = ix[x]
           ix1 == [ix EXCEPT ![x] = NoLoc]
           lo1 == [lo EXCEPT ![x] = 0]
           hd1 == [hd EXCEPT ![p] = IF first /\ last THEN NoLoc
                                    ELSE IF first THEN nl ELSE @]
           tl1 == [tl EXCEPT ![p] = IF first /\ last THEN NoLoc
                                    ELSE IF last THEN pl ELSE @]
<1>1. /\ lo \in [Ids -> Prices \union {0}]
      /\ hd \in [Prices -> Locs] /\ tl \in [Prices -> Locs]
      /\ \A y \in Ids : ix[y] # NoLoc => lo[y] \in Prices
      /\ \A y, z \in Ids : ix[y] # NoLoc /\ ix[z] # NoLoc /\ rk[y] < rk[z] =>
           ~ Better(lo[z], lo[y])
      /\ \A u \in Prices : EndsOK(ix, lo, hd, tl, rk, u)
  BY DEF LevelsOK
<1>2. p \in Prices
  BY <1>1
<1>3. nl \in Locs /\ pl \in Locs /\ NoLoc \in Locs
  <2>1. NoLoc \in Locs
    BY DEF Locs
  <2> QED BY <2>1 DEF IsNext, IsPrev
<1>4. /\ ix1[x] = NoLoc
      /\ hd1[p] = IF first /\ last THEN NoLoc ELSE IF first THEN nl ELSE hd[p]
      /\ tl1[p] = IF first /\ last THEN NoLoc ELSE IF last THEN pl ELSE tl[p]
      /\ \A y \in Ids : y # x => ix1[y] = ix[y] /\ lo1[y] = lo[y]
      /\ \A u \in Prices : u # p => hd1[u] = hd[u] /\ tl1[u] = tl[u]
      /\ lo1 \in [Ids -> Prices \union {0}]
      /\ hd1 \in [Prices -> Locs] /\ tl1 \in [Prices -> Locs]
  BY <1>1, <1>2, <1>3
<1> HIDE DEF ix1, lo1, hd1, tl1
<1>5. \A y \in Ids : ix1[y] # NoLoc =>
        /\ y # x /\ ix[y] # NoLoc /\ ix1[y] = ix[y] /\ lo1[y] = lo[y]
  BY <1>4
<1>6. \A y \in Ids : ix1[y] # NoLoc => lo1[y] \in Prices
  BY <1>1, <1>5
<1>7. \A y, z \in Ids : ix1[y] # NoLoc /\ ix1[z] # NoLoc /\ rk[y] < rk[z] =>
        ~ Better(lo1[z], lo1[y])
  BY <1>1, <1>5
<1>8. ASSUME NEW u \in Prices, u # p PROVE EndsOK(ix1, lo1, hd1, tl1, rk, u)
  <2>1. InLevel(ix1, lo1, u) = InLevel(ix, lo, u)
    BY <1>4, <1>8 DEF InLevel
  <2>2. \A y \in InLevel(ix, lo, u) : ix1[y] = ix[y]
    BY <1>4, <1>8 DEF InLevel
  <2> QED BY <1>1, <1>4, <1>8, <2>1, <2>2 DEF EndsOK
<1> DEFINE S == InLevel(ix, lo, p) \ {x}
<1>9. InLevel(ix1, lo1, p) = S
  BY <1>4 DEF InLevel
<1>10. /\ \A y \in S : /\ y \in Ids /\ y # x /\ ix[y] # NoLoc /\ lo[y] = p
                       /\ ix1[y] = ix[y] /\ ix[y] # ix[x] /\ rk[y] # rk[x]
                       /\ rk[y] \in Nat
       /\ rk[x] \in Nat
       /\ InLevel(ix, lo, p) = S \union {x}
  BY <1>4 DEF InLevel
<1>11. PICK h \in S \union {x} : hd[p] = ix[h] /\ \A y \in S \union {x} : rk[h] <= rk[y]
  BY <1>1, <1>2, <1>10 DEF EndsOK
<1>12. PICK t \in S \union {x} : tl[p] = ix[t] /\ \A y \in S \union {x} : rk[y] <= rk[t]
  BY <1>1, <1>2, <1>10 DEF EndsOK
<1>13. first <=> h = x
  BY <1>10, <1>11
<1>14. last <=> t = x
  BY <1>10, <1>12
<1> HIDE DEF S, first, last
\* Whoever is between two orders of the level is of the level.
<1>15. \A y, z \in Ids :
         ix[y] # NoLoc /\ ix[z] # NoLoc /\ lo[z] = p /\ rk[x] < rk[y]
           /\ rk[y] <= rk[z] => y \in S
  <2> SUFFICES ASSUME NEW y \in Ids, NEW z \in Ids, ix[y] # NoLoc, ix[z] # NoLoc,
                      lo[z] = p, rk[x] < rk[y], rk[y] <= rk[z]
               PROVE  y \in S
    OBVIOUS
  <2>1. ~ Better(lo[y], p)
    BY <1>1
  <2>2. ~ Better(p, lo[y])
    <3>1. CASE rk[y] = rk[z]
      BY <1>2, <3>1, BetterOrder
    <3>2. CASE rk[y] < rk[z]
      BY <1>1, <3>2
    <3> QED BY <3>1, <3>2
  <2>3. lo[y] = p
    BY <1>1, <2>1, <2>2, BetterOrder
  <2>4. y # x
    OBVIOUS
  <2> QED BY <2>3, <2>4 DEF S, InLevel
<1>16. \A y, z \in Ids :
         ix[y] # NoLoc /\ ix[z] # NoLoc /\ lo[z] = p /\ rk[y] < rk[x]
           /\ rk[z] <= rk[y] => y \in S
  <2> SUFFICES ASSUME NEW y \in Ids, NEW z \in Ids, ix[y] # NoLoc, ix[z] # NoLoc,
                      lo[z] = p, rk[y] < rk[x], rk[z] <= rk[y]
               PROVE  y \in S
    OBVIOUS
  <2>1. ~ Better(p, lo[y])
    BY <1>1
  <2>2. ~ Better(lo[y], p)
    <3>1. CASE rk[y] = rk[z]
      BY <1>2, <3>1, BetterOrder
    <3>2. CASE rk[z] < rk[y]
      BY <1>1, <3>2
    <3> QED BY <3>1, <3>2
  <2>3. lo[y] = p
    BY <1>1, <2>1, <2>2, BetterOrder
  <2>4. y # x
    OBVIOUS
  <2> QED BY <2>3, <2>4 DEF S, InLevel
<1> HIDE DEF p
<1>17. EndsOK(ix1, lo1, hd1, tl1, rk, p)
  <2>1. CASE S = {}
    <3>1. h = x /\ t = x
      BY <1>11, <1>12, <2>1
    <3>2. hd1[p] = NoLoc /\ tl1[p] = NoLoc
      BY <1>4, <1>13, <1>14, <3>1
    <3> QED BY <1>9, <2>1, <3>2 DEF EndsOK
  <2>2. CASE S # {}
    <3>1. PICK w \in S : TRUE
      BY <2>2
    <3>2. ~ (first /\ last)
      <4>1. SUFFICES ASSUME first, last PROVE FALSE
        OBVIOUS
      <4>2. rk[x] <= rk[w] /\ rk[w] <= rk[x]
        BY <1>11, <1>12, <1>13, <1>14, <3>1, <4>1
      <4> QED BY <1>10, <3>1, <4>2
    <3>3. \E g \in S : hd1[p] = ix1[g] /\ \A y \in S : rk[g] <= rk[y]
      <4>1. CASE first
        <5>1. hd1[p] = nl
          BY <1>4, <3>2, <4>1
        <5>2. \A y \in S : rk[x] < rk[y]
          BY <1>10, <1>11, <1>13, <4>1
        <5>3. PICK g \in Ids : /\ ix[g] # NoLoc /\ nl = ix[g] /\ rk[x] < rk[g]
                               /\ \A z \in Ids : ix[z] # NoLoc =>
                                    rk[z] <= rk[x] \/ rk[g] <= rk[z]
          <6>1. w \in Ids /\ ix[w] # NoLoc /\ ~ (rk[w] <= rk[x])
            BY <1>10, <3>1, <5>2
          <6> QED BY <6>1 DEF IsNext
        <5>4. \A y \in S : rk[g] <= rk[y]
          <6> SUFFICES ASSUME NEW y \in S PROVE rk[g] <= rk[y]
            OBVIOUS
          <6>1. ~ (rk[y] <= rk[x])
            BY <1>10, <5>2
          <6> QED BY <1>10, <5>3, <6>1
        <5>5. g \in S
          BY <1>10, <1>15, <3>1, <5>3, <5>4
        <5> QED BY <1>10, <5>1, <5>3, <5>4, <5>5
      <4>2. CASE ~ first
        <5>1. h \in S /\ hd1[p] = ix1[h]
          BY <1>4, <1>10, <1>11, <1>13, <4>2
        <5> QED BY <1>11, <5>1
      <4> QED BY <4>1, <4>2
    <3>4. \E g \in S : tl1[p] = ix1[g] /\ \A y \in S : rk[y] <= rk[g]
      <4>1. CASE last
        <5>1. tl1[p] = pl
          BY <1>4, <3>2, <4>1
        <5>2. \A y \in S : rk[y] < rk[x]
          BY <1>10, <1>12, <1>14, <4>1
        <5>3. PICK g \in Ids : /\ ix[g] # NoLoc /\ pl = ix[g] /\ rk[g] < rk[x]
                               /\ \A z \in Ids : ix[z] # NoLoc =>
                                    rk[x] <= rk[z] \/ rk[z] <= rk[g]
          <6>1. w \in Ids /\ ix[w] # NoLoc /\ ~ (rk[x] <= rk[w])
            BY <1>10, <3>1, <5>2
          <6> QED BY <6>1 DEF IsPrev
        <5>4. \A y \in S : rk[y] <= rk[g]
          <6> SUFFICES ASSUME NEW y \in S PROVE rk[y] <= rk[g]
            OBVIOUS
          <6>1. ~ (rk[x] <= rk[y])
            BY <1>10, <5>2
          <6> QED BY <1>10, <5>3, <6>1
        <5>5. g \in S
          BY <1>10, <1>16, <3>1, <5>3, <5>4
        <5> QED BY <1>10, <5>1, <5>3, <5>4, <5>5
      <4>2. CASE ~ last
        <5>1. t \in S /\ tl1[p] = ix1[t]
          BY <1>4, <1>10, <1>12, <1>14, <4>2
        <5> QED BY <1>12, <5>1
      <4> QED BY <4>1, <4>2
    <3> QED BY <1>9, <2>2, <3>3, <3>4 DEF EndsOK
  <2> QED BY <2>1, <2>2
<1>18. LevelsOK(ix1, lo1, hd1, tl1, rk)
  <2>1. \A u \in Prices : EndsOK(ix1, lo1, hd1, tl1, rk, u)
    BY <1>8, <1>17
  <2> QED BY <1>4, <1>6, <1>7, <2>1 DEF LevelsOK
<1> QED BY <1>18 DEF LevelsLeft, ix1, lo1, hd1, tl1, p, first, last

\* An order is moved to another place of the same rank.
LevelsMoved(ix, lo, hd, tl, rk, x, old, new) ==
  LevelsOK([ix EXCEPT ![x] = new], lo,
           [hd EXCEPT ![lo[x]] = IF @ = old THEN new ELSE @],
           [tl EXCEPT ![lo[x]] = IF @ = old THEN new ELSE @], rk)

LEMMA LevelsMove ==
  ASSUME NEW ix \in [Ids -> Locs], NEW lo, NEW hd, NEW tl,
         NEW rk \in [Ids -> Nat], LevelsOK(ix, lo, hd, tl, rk),
         NEW x \in Ids, ix[x] # NoLoc, Apart(ix, rk),
         NEW old, old = ix[x], NEW new \in Locs, new # NoLoc
  PROVE  LevelsMoved(ix, lo, hd, tl, rk, x, old, new)
<1>0. \A y, z \in Ids : ix[y] # NoLoc /\ ix[y] = ix[z] => y = z
  BY DEF Apart
<1> USE <1>0
<1> DEFINE p == lo[x]
           ix1 == [ix EXCEPT ![x] = new]
           hd1 == [hd EXCEPT ![p] = IF @ = old THEN new ELSE @]
           tl1 == [tl EXCEPT ![p] = IF @ = old THEN new ELSE @]
<1>1. /\ lo \in [Ids -> Prices \union {0}]
      /\ hd \in [Prices -> Locs] /\ tl \in [Prices -> Locs]
      /\ \A y \in Ids : ix[y] # NoLoc => lo[y] \in Prices
      /\ \A y, z \in Ids : ix[y] # NoLoc /\ ix[z] # NoLoc /\ rk[y] < rk[z] =>
           ~ Better(lo[z], lo[y])
      /\ \A u \in Prices : EndsOK(ix, lo, hd, tl, rk, u)
  BY DEF LevelsOK
<1>2. p \in Prices
  BY <1>1
<1>3. /\ ix1[x] = new
      /\ hd1[p] = IF hd[p] = ix[x] THEN new ELSE hd[p]
      /\ tl1[p] = IF tl[p] = ix[x] THEN new ELSE tl[p]
      /\ \A y \in Ids : y # x => ix1[y] = ix[y]
      /\ \A u \in Prices : u # p => hd1[u] = hd[u] /\ tl1[u] = tl[u]
      /\ hd1 \in [Prices -> Locs] /\ tl1 \in [Prices -> Locs]
  BY <1>1, <1>2
<1> HIDE DEF ix1, hd1, tl1
<1>4. \A y \in Ids : ix1[y] # NoLoc <=> ix[y] # NoLoc
  BY <1>3
<1>5. \A u \in Prices : InLevel(ix1, lo, u) = InLevel(ix, lo, u)
  BY <1>4 DEF InLevel
<1>6. ASSUME NEW u \in Prices, u # p PROVE EndsOK(ix1, lo, hd1, tl1, rk, u)
  <2>1. \A y \in InLevel(ix, lo, u) : ix1[y] = ix[y]
    BY <1>3, <1>6 DEF InLevel
  <2> QED BY <1>1, <1>3, <1>5, <1>6, <2>1 DEF EndsOK
<1>7. EndsOK(ix1, lo, hd1, tl1, rk, p)
  <2> DEFINE S == InLevel(ix, lo, p)
  <2>1. x \in S /\ \A y \in S : y \in Ids /\ ix[y] # NoLoc
    BY DEF InLevel
  <2> HIDE DEF S
  <2>2. PICK h \in S : hd[p] = ix[h] /\ \A y \in S : rk[h] <= rk[y]
    BY <1>1, <1>2, <2>1 DEF EndsOK, S
  <2>3. PICK t \in S : tl[p] = ix[t] /\ \A y \in S : rk[y] <= rk[t]
    BY <1>1, <1>2, <2>1 DEF EndsOK, S
  <2>4. hd1[p] = ix1[h]
    BY <1>3, <2>1, <2>2
  <2>5. tl1[p] = ix1[t]
    BY <1>3, <2>1, <2>3
  <2>6. InLevel(ix1, lo, p) = S
    BY <1>2, <1>5 DEF S
  <2> HIDE DEF p
  <2> QED BY <2>1, <2>2, <2>3, <2>4, <2>5, <2>6 DEF EndsOK
<1>8. LevelsOK(ix1, lo, hd1, tl1, rk)
  <2>1. \A u \in Prices : EndsOK(ix1, lo, hd1, tl1, rk, u)
    BY <1>6, <1>7
  <2>2. /\ \A y \in Ids : ix1[y] # NoLoc => lo[y] \in Prices
        /\ \A y, z \in Ids : ix1[y] # NoLoc /\ ix1[z] # NoLoc /\ rk[y] < rk[z] =>
             ~ Better(lo[z], lo[y])
    BY <1>1, <1>4
  <2> QED BY <1>1, <1>3, <2>1, <2>2 DEF LevelsOK
<1> QED BY <1>8 DEF LevelsMoved, ix1, hd1, tl1

\* The order at the i-th place of a node.
LEMMA Occupant ==
  ASSUME NEW nds, NEW L, NEW q, NEW r, NEW ix,
         NodesOK(nds, L, q, r), PlacesOK(nds, L, ix),
         NEW n \in Nodes, NEW i \in 1 .. nds[n].size
  PROVE  \E y \in Ids : /\ ix[y] = [node |-> n, slot |-> r[n][i]]
                        /\ ix[y] # NoLoc /\ y = nds[n].slot[r[n][i]]
                        /\ r[n][i] \in Slots /\ q[n][r[n][i]] = i
<1>1. NodeIs(nds[n], q[n], r[n])
  BY DEF NodesOK
<1>2. /\ nds[n].size \in 0 .. N
      /\ r[n] \in [1 .. N -> Slots]
      /\ \A j \in 1 .. N : q[n][r[n][j]] = j
      /\ nds[n].slot \in [Slots -> Ids \union {NoOrder}]
      /\ \A s \in Slots : nds[n].slot[s] # NoOrder <=> q[n][s] <= nds[n].size
  BY <1>1, NodeFields
<1>3. i \in 1 .. N /\ i <= nds[n].size
  BY <1>2, NA
<1> DEFINE s == r[n][i]
           y == nds[n].slot[s]
<1>4. s \in Slots /\ q[n][s] = i
  BY <1>2, <1>3
<1>5. y \in Ids /\ y # NoOrder
  BY <1>2, <1>3, <1>4
<1>6. ix[y] = [node |-> n, slot |-> s]
  BY <1>4, <1>5 DEF PlacesOK
<1>7. ix[y] # NoLoc
  BY <1>6, NodeIds DEF NoLoc
<1> QED BY <1>4, <1>5, <1>6, <1>7

\* The next order is in the same node, or the first of the node behind.
LEMMA GlobalNextIs ==
  ASSUME NEW q, NEW r, NEW cp, NEW rk, NodesOK(node, live, q, r),
         LinksOK(nextNode, prevNode, chainHead, live, cp),
         PlacesOK(node, live, index), RanksOK(index, q, cp, rk),
         \A n \in live : ~ IsEmpty(node[n]),
         NEW x \in Ids, index[x] # NoLoc
  PROVE  IsNext(index, rk, x, GlobalNext(index[x]))
<1> DEFINE n == index[x].node
           s == index[x].slot
           k == q[n][s]
           size == node[n].size
           P(y) == q[index[y].node][index[y].slot]
<1>1. \A y \in Ids : index[y] # NoLoc =>
         /\ index[y].node \in live /\ index[y].node \in Nodes
         /\ index[y].slot \in Slots
         /\ index[y] = [node |-> index[y].node, slot |-> index[y].slot]
         /\ node[index[y].node].slot[index[y].slot] = y
         /\ q[index[y].node][index[y].slot] \in 1 .. node[index[y].node].size
         /\ node[index[y].node].size \in 1 .. N
  BY AllPlaces
<1>2. /\ n \in live /\ n \in Nodes /\ s \in Slots
      /\ k \in 1 .. size /\ size \in 1 .. N
  BY <1>1
<1>3. /\ cp \in [Nodes -> Nat]
      /\ \A m, l \in live : cp[m] = cp[l] => m = l
      /\ live \subseteq Nodes
  BY DEF LinksOK, NodesOK
<1>4. \A y \in Ids : index[y] # NoLoc =>
        /\ cp[index[y].node] \in Nat /\ P(y) \in Nat /\ rk[y] \in Nat
        /\ index[y].node = n => P(y) <= size
  <2> SUFFICES ASSUME NEW y \in Ids, index[y] # NoLoc
               PROVE  /\ cp[index[y].node] \in Nat /\ P(y) \in Nat
                      /\ rk[y] \in Nat
                      /\ index[y].node = n => P(y) <= size
    OBVIOUS
  <2>1. /\ index[y].node \in Nodes
        /\ P(y) \in 1 .. node[index[y].node].size
        /\ node[index[y].node].size \in 1 .. N
    BY <1>1
  <2>2. rk[y] \in Nat
    BY DEF RanksOK
  <2> HIDE DEF P
  <2>3. P(y) \in Nat /\ P(y) <= node[index[y].node].size
    BY <2>1, NA
  <2> QED BY <1>3, <2>1, <2>2, <2>3
<1>5. \A y, z \in Ids : index[y] # NoLoc /\ index[z] # NoLoc =>
        (rk[y] < rk[z] <=> \/ cp[index[y].node] < cp[index[z].node]
                           \/ index[y].node = index[z].node /\ P(y) < P(z))
  BY DEF RanksOK, Ahead
<1>6. NodeIs(node[n], q[n], r[n])
  BY <1>2 DEF NodesOK
<1>9. P(x) = k
  OBVIOUS
<1>10. index[x].node = n /\ index[x].slot = s
  OBVIOUS
<1> HIDE DEF n, s
<1>7. /\ node[n].next[s] = IF k \in {size, N} THEN npos ELSE r[n][k + 1]
      /\ r[n] \in [1 .. N -> Slots]
  BY <1>2, <1>6, NodeFields
<1>8. npos \notin Slots
  BY NA DEF npos, Slots
<1> HIDE DEF k, size, P
<1>11. CASE k # size
  <2>1. k + 1 \in 1 .. size /\ k + 1 \in 1 .. N /\ k # N
    BY <1>2, <1>11, NA
  <2>2. PICK y \in Ids : /\ index[y] = [node |-> n, slot |-> r[n][k + 1]]
                         /\ index[y] # NoLoc
                         /\ r[n][k + 1] \in Slots /\ q[n][r[n][k + 1]] = k + 1
    BY <1>2, <2>1, Occupant DEF size
  <2>3. GlobalNext(index[x]) = index[y]
    BY <1>7, <1>8, <1>10, <1>11, <2>1, <2>2 DEF GlobalNext
  <2>4. index[y].node = n /\ P(y) = k + 1
    BY <2>2 DEF P
  <2>5. rk[x] < rk[y]
    BY <1>2, <1>5, <1>9, <1>10, <2>2, <2>4
  <2>6. ASSUME NEW z \in Ids, index[z] # NoLoc
        PROVE  rk[z] <= rk[x] \/ rk[y] <= rk[z]
    <3>1. SUFFICES ASSUME rk[x] < rk[z], rk[z] < rk[y] PROVE FALSE
      BY <1>4, <2>2, <2>6
    <3>2. \/ cp[n] < cp[index[z].node]
          \/ n = index[z].node /\ k < P(z)
      BY <1>5, <1>9, <1>10, <2>6, <3>1
    <3>3. \/ cp[index[z].node] < cp[n]
          \/ index[z].node = n /\ P(z) < k + 1
      BY <1>5, <2>2, <2>4, <2>6, <3>1
    <3> QED BY <1>2, <1>3, <1>4, <2>6, <3>2, <3>3
  <2>7. ~ (rk[y] <= rk[x])
    BY <1>4, <2>2, <2>5
  <2> QED BY <2>2, <2>3, <2>5, <2>6, <2>7 DEF IsNext
<1>12. CASE k = size
  <2>1. node[n].next[s] = npos
    BY <1>7, <1>12
  <2>2. CASE nextNode[n] = NoNode
    <3>1. GlobalNext(index[x]) = NoLoc
      BY <1>10, <2>1, <2>2 DEF GlobalNext
    <3>2. \A m \in live : cp[m] <= cp[n]
      BY <1>2, <2>2 DEF LinksOK
    <3>3. ASSUME NEW y \in Ids, index[y] # NoLoc PROVE rk[y] <= rk[x]
      <4>1. SUFFICES ASSUME rk[x] < rk[y] PROVE FALSE
        BY <1>4, <3>3
      <4>2. \/ cp[n] < cp[index[y].node]
            \/ n = index[y].node /\ k < P(y)
        BY <1>5, <1>9, <1>10, <3>3, <4>1
      <4>3. cp[index[y].node] <= cp[n] /\ cp[n] \in Nat
        BY <1>1, <1>2, <1>3, <3>2, <3>3
      <4> QED BY <1>2, <1>4, <1>12, <3>3, <4>2, <4>3
    <3> QED BY <3>1, <3>3 DEF IsNext
  <2>3. CASE nextNode[n] # NoNode
    <3> DEFINE nn == nextNode[n]
    <3>1. /\ nn \in live /\ nn \in Nodes /\ cp[n] < cp[nn]
          /\ \A m \in live : cp[m] <= cp[n] \/ cp[nn] <= cp[m]
      BY <1>2, <1>3, <2>3 DEF LinksOK
    <3> HIDE DEF nn
    <3>2. NodeIs(node[nn], q[nn], r[nn])
      BY <3>1 DEF NodesOK
    <3>3. node[nn].size \in 1 .. N /\ node[nn].head = r[nn][1]
      <4>1. node[nn].size \in 0 .. N /\ node[nn].size # 0
        BY <3>1, <3>2, NodeFields DEF IsEmpty
      <4>2. node[nn].head = IF node[nn].size = 0 THEN npos ELSE r[nn][1]
        BY <3>2, NodeFields
      <4> QED BY <4>1, <4>2, NA
    <3>4. 1 \in 1 .. node[nn].size
      BY <3>3, NA
    <3>5. PICK y \in Ids : /\ index[y] = [node |-> nn, slot |-> r[nn][1]]
                           /\ index[y] # NoLoc
                           /\ r[nn][1] \in Slots /\ q[nn][r[nn][1]] = 1
      BY <3>1, <3>4, Occupant
    <3>6. GlobalNext(index[x]) = index[y]
      BY <1>10, <2>1, <2>3, <3>3, <3>5 DEF GlobalNext, nn
    <3>7. index[y].node = nn /\ P(y) = 1
      BY <3>5 DEF P
    <3>8. rk[x] < rk[y]
      BY <1>5, <1>10, <3>1, <3>5, <3>7
    <3>9. ASSUME NEW z \in Ids, index[z] # NoLoc
          PROVE  rk[z] <= rk[x] \/ rk[y] <= rk[z]
      <4>1. SUFFICES ASSUME rk[x] < rk[z], rk[z] < rk[y] PROVE FALSE
        BY <1>4, <3>5, <3>9
      <4>2. \/ cp[n] < cp[index[z].node]
            \/ n = index[z].node /\ k < P(z)
        BY <1>5, <1>9, <1>10, <3>9, <4>1
      <4>3. \/ cp[index[z].node] < cp[nn]
            \/ index[z].node = nn /\ P(z) < 1
        BY <1>5, <3>5, <3>7, <3>9, <4>1
      <4>4. /\ P(z) \in 1 .. node[index[z].node].size
            /\ node[index[z].node].size \in 1 .. N
            /\ index[z].node \in live
        BY <1>1, <3>9 DEF P
      <4>5. cp[index[z].node] < cp[nn]
        BY <4>3, <4>4, NA
      <4>6. cp[index[z].node] <= cp[n]
        BY <1>3, <3>1, <4>4, <4>5
      <4>7. n = index[z].node /\ k < P(z)
        BY <1>2, <1>3, <4>2, <4>4, <4>6
      <4> QED BY <1>2, <1>4, <1>12, <3>9, <4>7
    <3>10. ~ (rk[y] <= rk[x])
      BY <1>4, <3>5, <3>8
    <3> QED BY <3>5, <3>6, <3>8, <3>9, <3>10 DEF IsNext
  <2> QED BY <2>2, <2>3
<1> QED BY <1>11, <1>12

\* The order before is in the same node, or the last of the node before.
LEMMA GlobalPrevIs ==
  ASSUME NEW q, NEW r, NEW cp, NEW rk, NodesOK(node, live, q, r),
         LinksOK(nextNode, prevNode, chainHead, live, cp),
         PlacesOK(node, live, index), RanksOK(index, q, cp, rk),
         \A n \in live : ~ IsEmpty(node[n]),
         NEW x \in Ids, index[x] # NoLoc
  PROVE  IsPrev(index, rk, x, GlobalPrev(index[x]))
<1> DEFINE n == index[x].node
           s == index[x].slot
           k == q[n][s]
           size == node[n].size
           P(y) == q[index[y].node][index[y].slot]
<1>1. \A y \in Ids : index[y] # NoLoc =>
         /\ index[y].node \in live /\ index[y].node \in Nodes
         /\ index[y].slot \in Slots
         /\ index[y] = [node |-> index[y].node, slot |-> index[y].slot]
         /\ node[index[y].node].slot[index[y].slot] = y
         /\ q[index[y].node][index[y].slot] \in 1 .. node[index[y].node].size
         /\ node[index[y].node].size \in 1 .. N
  BY AllPlaces
<1>2. /\ n \in live /\ n \in Nodes /\ s \in Slots
      /\ k \in 1 .. size /\ size \in 1 .. N
  BY <1>1
<1>3. /\ cp \in [Nodes -> Nat]
      /\ \A m, l \in live : cp[m] = cp[l] => m = l
      /\ live \subseteq Nodes
  BY DEF LinksOK, NodesOK
<1>4. \A y \in Ids : index[y] # NoLoc =>
        /\ cp[index[y].node] \in Nat /\ P(y) \in Nat /\ rk[y] \in Nat
        /\ index[y].node = n => P(y) <= size
  <2> SUFFICES ASSUME NEW y \in Ids, index[y] # NoLoc
               PROVE  /\ cp[index[y].node] \in Nat /\ P(y) \in Nat
                      /\ rk[y] \in Nat
                      /\ index[y].node = n => P(y) <= size
    OBVIOUS
  <2>1. /\ index[y].node \in Nodes
        /\ P(y) \in 1 .. node[index[y].node].size
        /\ node[index[y].node].size \in 1 .. N
    BY <1>1
  <2>2. rk[y] \in Nat
    BY DEF RanksOK
  <2> HIDE DEF P
  <2>3. P(y) \in Nat /\ P(y) <= node[index[y].node].size
    BY <2>1, NA
  <2> QED BY <1>3, <2>1, <2>2, <2>3
<1>5. \A y, z \in Ids : index[y] # NoLoc /\ index[z] # NoLoc =>
        (rk[y] < rk[z] <=> \/ cp[index[y].node] < cp[index[z].node]
                           \/ index[y].node = index[z].node /\ P(y) < P(z))
  BY DEF RanksOK, Ahead
<1>6. NodeIs(node[n], q[n], r[n])
  BY <1>2 DEF NodesOK
<1>9. P(x) = k
  OBVIOUS
<1>10. index[x].node = n /\ index[x].slot = s
  OBVIOUS
<1> HIDE DEF n, s
<1>7. /\ node[n].prev[s] = IF k = 1 \/ k > size THEN npos ELSE r[n][k - 1]
      /\ r[n] \in [1 .. N -> Slots]
  BY <1>2, <1>6, NodeFields
<1>8. npos \notin Slots
  BY NA DEF npos, Slots
<1> HIDE DEF k, size, P
<1>11. CASE k # 1
  <2>1. k - 1 \in 1 .. size /\ k - 1 \in 1 .. N /\ ~ (k > size)
    BY <1>2, <1>11, NA
  <2>2. PICK y \in Ids : /\ index[y] = [node |-> n, slot |-> r[n][k - 1]]
                         /\ index[y] # NoLoc
                         /\ r[n][k - 1] \in Slots /\ q[n][r[n][k - 1]] = k - 1
    BY <1>2, <2>1, Occupant DEF size
  <2>3. GlobalPrev(index[x]) = index[y]
    BY <1>7, <1>8, <1>10, <1>11, <2>1, <2>2 DEF GlobalPrev
  <2>4. index[y].node = n /\ P(y) = k - 1
    BY <2>2 DEF P
  <2>5. rk[y] < rk[x]
    BY <1>2, <1>5, <1>9, <1>10, <2>2, <2>4
  <2>6. ASSUME NEW z \in Ids, index[z] # NoLoc
        PROVE  rk[x] <= rk[z] \/ rk[z] <= rk[y]
    <3>1. SUFFICES ASSUME rk[z] < rk[x], rk[y] < rk[z] PROVE FALSE
      BY <1>4, <2>2, <2>6
    <3>2. \/ cp[index[z].node] < cp[n]
          \/ n = index[z].node /\ P(z) < k
      BY <1>5, <1>9, <1>10, <2>6, <3>1
    <3>3. \/ cp[n] < cp[index[z].node]
          \/ index[z].node = n /\ k - 1 < P(z)
      BY <1>5, <2>2, <2>4, <2>6, <3>1
    <3> QED BY <1>2, <1>3, <1>4, <2>6, <3>2, <3>3
  <2>7. ~ (rk[x] <= rk[y])
    BY <1>4, <2>2, <2>5
  <2> QED BY <2>2, <2>3, <2>5, <2>6, <2>7 DEF IsPrev
<1>12. CASE k = 1
  <2>1. node[n].prev[s] = npos
    BY <1>7, <1>12
  <2>2. CASE prevNode[n] = NoNode
    <3>1. GlobalPrev(index[x]) = NoLoc
      BY <1>10, <2>1, <2>2 DEF GlobalPrev
    <3>2. \A m \in live : cp[n] <= cp[m]
      BY <1>2, <2>2 DEF LinksOK
    <3>3. ASSUME NEW y \in Ids, index[y] # NoLoc PROVE rk[x] <= rk[y]
      <4>1. SUFFICES ASSUME rk[y] < rk[x] PROVE FALSE
        BY <1>4, <3>3
      <4>2. \/ cp[index[y].node] < cp[n]
            \/ n = index[y].node /\ P(y) < k
        BY <1>5, <1>9, <1>10, <3>3, <4>1
      <4>3. cp[n] <= cp[index[y].node] /\ cp[n] \in Nat
        BY <1>1, <1>2, <1>3, <3>2, <3>3
      <4>4. P(y) \in 1 .. node[index[y].node].size /\ node[index[y].node].size \in 1 .. N
        BY <1>1, <3>3 DEF P
      <4>5. 1 <= P(y)
        BY <4>4, NA
      <4> QED BY <1>4, <1>12, <3>3, <4>2, <4>3, <4>5
    <3> QED BY <3>1, <3>3 DEF IsPrev
  <2>3. CASE prevNode[n] # NoNode
    <3> DEFINE nn == prevNode[n]
    <3>1. /\ nn \in live /\ nn \in Nodes /\ cp[nn] < cp[n]
          /\ \A m \in live : cp[m] <= cp[nn] \/ cp[n] <= cp[m]
      BY <1>2, <1>3, <2>3 DEF LinksOK
    <3> HIDE DEF nn
    <3>2. NodeIs(node[nn], q[nn], r[nn])
      BY <3>1 DEF NodesOK
    <3> DEFINE last == node[nn].size
    <3>3. last \in 1 .. N /\ node[nn].tail = r[nn][last]
      <4>1. node[nn].size \in 0 .. N /\ node[nn].size # 0
        BY <3>1, <3>2, NodeFields DEF IsEmpty
      <4>2. node[nn].tail = IF node[nn].size = 0 THEN npos ELSE r[nn][node[nn].size]
        BY <3>2, NodeFields
      <4> QED BY <4>1, <4>2, NA
    <3>4. last \in 1 .. node[nn].size
      BY <3>3, NA
    <3>5. PICK y \in Ids : /\ index[y] = [node |-> nn, slot |-> r[nn][last]]
                           /\ index[y] # NoLoc
                           /\ r[nn][last] \in Slots /\ q[nn][r[nn][last]] = last
      BY <3>1, <3>4, Occupant
    <3>6. GlobalPrev(index[x]) = index[y]
      BY <1>10, <2>1, <2>3, <3>3, <3>5 DEF GlobalPrev, nn
    <3>7. index[y].node = nn /\ P(y) = last
      BY <3>5 DEF P
    <3>8. rk[y] < rk[x]
      BY <1>5, <1>10, <3>1, <3>5, <3>7
    <3>9. ASSUME NEW z \in Ids, index[z] # NoLoc
          PROVE  rk[x] <= rk[z] \/ rk[z] <= rk[y]
      <4>1. SUFFICES ASSUME rk[z] < rk[x], rk[y] < rk[z] PROVE FALSE
        BY <1>4, <3>5, <3>9
      <4>2. \/ cp[index[z].node] < cp[n]
            \/ n = index[z].node /\ P(z) < k
        BY <1>5, <1>9, <1>10, <3>9, <4>1
      <4>3. \/ cp[nn] < cp[index[z].node]
            \/ index[z].node = nn /\ last < P(z)
        BY <1>5, <3>5, <3>7, <3>9, <4>1
      <4>4. /\ P(z) \in 1 .. node[index[z].node].size
            /\ node[index[z].node].size \in 1 .. N
            /\ index[z].node \in live
        BY <1>1, <3>9 DEF P
      <4>5. cp[nn] < cp[index[z].node]
        BY <4>3, <4>4, NA
      <4>6. cp[n] <= cp[index[z].node]
        BY <1>3, <3>1, <4>4, <4>5
      <4>7. n = index[z].node /\ P(z) < k
        BY <1>2, <1>3, <4>2, <4>4, <4>6
      <4> QED BY <1>2, <1>12, <4>4, <4>7, NA
    <3>10. ~ (rk[x] <= rk[y])
      BY <1>4, <3>5, <3>8
    <3> QED BY <3>5, <3>6, <3>8, <3>9, <3>10 DEF IsPrev
  <2> QED BY <2>2, <2>3
<1> QED BY <1>11, <1>12

-----------------------------------------------------------------------------
(* Where an order goes.                                                    *)

\* A nonempty set of naturals has a least element.
LEMMA Least ==
  ASSUME NEW T \in SUBSET Nat, T # {}
  PROVE  \E n \in T : \A m \in T : n <= m
<1>1. IsWellFoundedOn(OpToRel(<, Nat), Nat)
  BY NatLessThanWellFounded
<1>2. PICK n \in T : \A m \in T : ~ (<<m, n>> \in OpToRel(<, Nat))
  BY <1>1, WFMin
<1>3. \A m \in T : ~ (m < n)
  BY <1>2 DEF OpToRel
<1>4. QED BY <1>3

LEMMA FreshFree == NodeLeft => Fresh \in Nodes /\ Fresh \notin live
<1>1. SUFFICES ASSUME Free # {} PROVE Fresh \in Free
  BY DEF NodeLeft, Free
<1>2. Free \in SUBSET Nat
  BY NodeIds DEF Free
<1>3. \E n \in Free : \A m \in Free : n <= m
  BY <1>1, <1>2, Least
<1> QED BY <1>3 DEF Fresh

LEMMA NextBetterIs ==
  ASSUME NEW p \in Prices, BetterLevels(p) # {}
  PROVE  /\ NextBetter(p) \in BetterLevels(p)
         /\ \A o \in BetterLevels(p) : o = NextBetter(p) \/ Better(o, NextBetter(p))
<1> DEFINE S == BetterLevels(p)
<1>1. S \subseteq Prices /\ Prices \subseteq Nat /\ \A o \in S : Better(o, p)
  BY ChainAssumption DEF BetterLevels, Levels
<1>1a. \A o \in S : o \in Nat /\ p \in Nat
  BY <1>1
<1>1b. \A u, o \in Nat : Better(u, o) <=> IF Bids THEN u > o ELSE u < o
  BY DEF Better
<1>1c. S # {}
  OBVIOUS
<1> HIDE DEF S
<1>2. \E o \in S : \A u \in S : u = o \/ Better(u, o)
  <2>1. CASE Bids
    <3>1. PICK o \in S : \A u \in S : o <= u
      <4>1. S \in SUBSET Nat
        BY <1>1a
      <4> QED BY <1>1c, <4>1, Least
    <3>2. \A u \in S : u = o \/ Better(u, o)
      BY <1>1a, <1>1b, <2>1, <3>1
    <3> QED BY <3>2
  <2>2. CASE ~ Bids
    <3> DEFINE T == {p - o : o \in S}
    <3>1. \A o \in S : o < p /\ p - o \in Nat
      <4> SUFFICES ASSUME NEW o \in S PROVE o < p /\ p - o \in Nat
        OBVIOUS
      <4>1. o < p /\ o \in Nat /\ p \in Nat
        BY <1>1, <1>1a, <1>1b, <2>2
      <4> QED BY <4>1
    <3>2. T \in SUBSET Nat /\ T # {}
      BY <1>1c, <3>1
    <3>3. PICK d \in T : \A e \in T : d <= e
      BY <3>2, Least
    <3>4. PICK o \in S : d = p - o
      BY <3>3
    <3>5. \A u \in S : p - o <= p - u
      BY <3>3, <3>4
    <3>6. \A u \in S : u <= o
      <4> SUFFICES ASSUME NEW u \in S PROVE u <= o
        OBVIOUS
      <4>1. p - o <= p - u /\ u \in Nat /\ o \in Nat /\ p \in Nat
        BY <1>1a, <3>5
      <4> QED BY <4>1
    <3>7. \A u \in S : u = o \/ Better(u, o)
      BY <1>1a, <1>1b, <2>2, <3>6
    <3> QED BY <3>7
  <2> QED BY <2>1, <2>2
<1> QED BY <1>2 DEF NextBetter, S

\* The levels that have a head are those of the orders.
LEMMA LevelsAre ==
  ASSUME NEW rk, LevelsOK(index, levelOf, head, tail, rk)
  PROVE  \A p \in Prices : p \in Levels <=> InLevel(index, levelOf, p) # {}
<1>1. \A p \in Prices : EndsOK(index, levelOf, head, tail, rk, p)
  BY DEF LevelsOK
<1>2. ASSUME NEW p \in Prices, InLevel(index, levelOf, p) # {}
      PROVE  head[p] # NoLoc
  <2>1. PICK x \in InLevel(index, levelOf, p) : head[p] = index[x]
    BY <1>1, <1>2 DEF EndsOK
  <2> QED BY <2>1 DEF InLevel
<1>3. ASSUME NEW p \in Prices, InLevel(index, levelOf, p) = {}
      PROVE  head[p] = NoLoc
  BY <1>1, <1>3 DEF EndsOK
<1> QED BY <1>2, <1>3 DEF Levels

\* The anchor is the last of those at the price or better.
LEMMA AnchorIs ==
  ASSUME NEW rk \in [Ids -> Nat], LevelsOK(index, levelOf, head, tail, rk),
         \A y, z \in Ids :
           index[y] # NoLoc /\ index[z] # NoLoc /\ rk[y] = rk[z] => y = z,
         NEW p \in Prices, HasAnchor(p)
  PROVE  \E z \in Ids : /\ index[z] # NoLoc /\ Anchor(p) = index[z]
                        /\ Splits(index, levelOf, rk, p, rk[z] + 1)
<1>1. /\ \A o \in Prices : EndsOK(index, levelOf, head, tail, rk, o)
      /\ \A y \in Ids : index[y] # NoLoc => levelOf[y] \in Prices
      /\ \A y, z \in Ids : index[y] # NoLoc /\ index[z] # NoLoc /\ rk[y] < rk[z] =>
           ~ Better(levelOf[z], levelOf[y])
  BY DEF LevelsOK
<1>2. \A o \in Prices : o \in Levels <=> InLevel(index, levelOf, o) # {}
  BY LevelsAre
\* The last order of a level, who is ahead of it and who behind.
<1>3. ASSUME NEW o \in Levels
      PROVE  \E z \in Ids : /\ index[z] # NoLoc /\ tail[o] = index[z]
                            /\ \A y \in Ids : index[y] # NoLoc =>
                                 IF rk[y] < rk[z] + 1 THEN ~ Better(o, levelOf[y])
                                 ELSE Better(o, levelOf[y])
  <2>1. o \in Prices /\ InLevel(index, levelOf, o) # {}
    BY <1>2 DEF Levels
  <2>2. PICK z \in InLevel(index, levelOf, o) :
          /\ tail[o] = index[z]
          /\ \A y \in InLevel(index, levelOf, o) : rk[y] <= rk[z]
    BY <1>1, <2>1 DEF EndsOK
  <2>3. z \in Ids /\ index[z] # NoLoc /\ levelOf[z] = o
    BY DEF InLevel
  <2>4. ASSUME NEW y \in Ids, index[y] # NoLoc
        PROVE  IF rk[y] < rk[z] + 1 THEN ~ Better(o, levelOf[y])
               ELSE Better(o, levelOf[y])
    <3>1. rk[y] \in Nat /\ rk[z] \in Nat
      BY <2>3
    <3>2. CASE rk[y] < rk[z]
      <4>1. ~ Better(o, levelOf[y])
        BY <1>1, <2>3, <2>4, <3>2
      <4> QED BY <3>1, <3>2, <4>1
    <3>3. CASE rk[y] = rk[z]
      <4>1. y = z
        BY <2>3, <2>4, <3>3
      <4>2. ~ Better(o, levelOf[y])
        BY <2>1, <2>3, <4>1, BetterOrder
      <4> QED BY <3>1, <3>3, <4>2
    <3>4. CASE rk[y] > rk[z]
      <4>1. levelOf[y] # o
        <5>1. ~ (rk[y] <= rk[z])
          BY <3>1, <3>4
        <5> QED BY <2>2, <2>4, <5>1 DEF InLevel
      <4>2. ~ Better(levelOf[y], o)
        BY <1>1, <2>3, <2>4, <3>1, <3>4
      <4>3. Better(o, levelOf[y])
        BY <1>1, <2>1, <2>4, <4>1, <4>2, BetterOrder
      <4> QED BY <3>1, <3>4, <4>3
    <3> QED BY <3>1, <3>2, <3>3, <3>4
  <2> QED BY <2>2, <2>3, <2>4
<1>4. CASE p \in Levels
  <2>1. Anchor(p) = tail[p]
    BY <1>4 DEF Anchor
  <2> QED BY <1>3, <1>4, <2>1 DEF Splits
<1>5. CASE p \notin Levels
  <2> DEFINE o == NextBetter(p)
  <2>1. Anchor(p) = tail[o]
    BY <1>5 DEF Anchor
  <2>2. /\ o \in BetterLevels(p)
        /\ \A u \in BetterLevels(p) : u = o \/ Better(u, o)
    BY <1>5, NextBetterIs DEF HasAnchor
  <2>3. o \in Levels /\ o \in Prices /\ Better(o, p)
    BY <2>2 DEF BetterLevels, Levels
  <2> HIDE DEF o
  <2>4. PICK z \in Ids : /\ index[z] # NoLoc /\ tail[o] = index[z]
                         /\ \A y \in Ids : index[y] # NoLoc =>
                              IF rk[y] < rk[z] + 1 THEN ~ Better(o, levelOf[y])
                              ELSE Better(o, levelOf[y])
    BY <1>3, <2>3
  <2>5. ASSUME NEW y \in Ids, index[y] # NoLoc
        PROVE  IF rk[y] < rk[z] + 1 THEN ~ Better(p, levelOf[y])
               ELSE Better(p, levelOf[y])
    <3> DEFINE u == levelOf[y]
    <3>1. u \in Prices /\ u \in Levels
      <4>1. u \in Prices /\ y \in InLevel(index, levelOf, u)
        BY <1>1, <2>5 DEF InLevel
      <4> QED BY <1>2, <4>1
    <3>2. CASE rk[y] < rk[z] + 1
      <4>1. ~ Better(o, u)
        BY <2>4, <2>5, <3>2
      <4> QED BY <2>3, <3>1, <3>2, <4>1, BetterOrder
    <3>3. CASE ~ (rk[y] < rk[z] + 1)
      <4>1. Better(o, u)
        BY <2>4, <2>5, <3>3
      <4>2. u # p
        BY <1>5, <3>1
      <4>3. ~ Better(u, p)
        <5>1. SUFFICES ASSUME Better(u, p) PROVE FALSE
          OBVIOUS
        <5>2. u \in BetterLevels(p)
          BY <3>1, <5>1 DEF BetterLevels
        <5> QED BY <2>2, <2>3, <3>1, <4>1, <5>2, BetterOrder
      <4>4. Better(p, u)
        BY <3>1, <4>2, <4>3, BetterOrder
      <4> QED BY <3>3, <4>4
    <3> QED BY <3>2, <3>3
  <2> QED BY <2>1, <2>4, <2>5 DEF Splits
<1> QED BY <1>4, <1>5

\* Without one, all are worse.
LEMMA HeadIs ==
  ASSUME NEW rk \in [Ids -> Nat], LevelsOK(index, levelOf, head, tail, rk),
         NEW p \in Prices, p \notin Levels, BetterLevels(p) = {}
  PROVE  Splits(index, levelOf, rk, p, 0)
<1>1. ASSUME NEW y \in Ids, index[y] # NoLoc
      PROVE  ~ (rk[y] < 0) /\ Better(p, levelOf[y])
  <2> DEFINE u == levelOf[y]
  <2>1. u \in Prices
    BY <1>1 DEF LevelsOK
  <2>2. y \in InLevel(index, levelOf, u)
    BY <1>1 DEF InLevel
  <2>3. u \in Levels
    BY <2>1, <2>2, LevelsAre
  <2>4. ~ Better(u, p) /\ u # p
    BY <2>3 DEF BetterLevels
  <2>5. Better(p, u)
    BY <2>1, <2>4, BetterOrder
  <2>6. rk[y] \in Nat
    OBVIOUS
  <2> QED BY <2>5, <2>6
<1> QED BY <1>1 DEF Splits

\* Who is up to an order: those of the nodes before, and in its own node those
\* up to its place.
LEMMA UpTo ==
  ASSUME NEW nds, NEW L, NEW q, NEW r, NEW ix, NEW cp, NEW rk,
         NodesOK(nds, L, q, r), PlacesOK(nds, L, ix), RanksOK(ix, q, cp, rk),
         OneToOne(cp, L),
         NEW z \in Ids, ix[z] # NoLoc
  PROVE  \A y \in Ids : ix[y] # NoLoc =>
           (rk[y] < rk[z] + 1 <=>
              Ahead(ix, q, cp, y, ix[z].node, q[ix[z].node][ix[z].slot] + 1))
<1> USE DEF OneToOne
<1> DEFINE P(y) == q[ix[y].node][ix[y].slot]
<1>1. \A y \in Ids : ix[y] # NoLoc =>
         /\ ix[y].node \in L /\ ix[y].node \in Nodes /\ ix[y].slot \in Slots
         /\ ix[y] = [node |-> ix[y].node, slot |-> ix[y].slot]
         /\ nds[ix[y].node].slot[ix[y].slot] = y
         /\ q[ix[y].node][ix[y].slot] \in 1 .. nds[ix[y].node].size
         /\ nds[ix[y].node].size \in 1 .. N
  BY AllPlaces
<1> SUFFICES ASSUME NEW y \in Ids, ix[y] # NoLoc
             PROVE  rk[y] < rk[z] + 1 <=> Ahead(ix, q, cp, y, ix[z].node, P(z) + 1)
  OBVIOUS
<1>2. rk[y] \in Nat /\ rk[z] \in Nat
  BY DEF RanksOK
<1>3. rk[z] < rk[y] <=> Ahead(ix, q, cp, z, ix[y].node, P(y))
  BY DEF RanksOK
<1>4. rk[z] < rk[y] <=> \/ cp[ix[z].node] < cp[ix[y].node]
                        \/ ix[z].node = ix[y].node /\ P(z) < P(y)
  BY <1>3 DEF Ahead
<1>5. /\ P(y) \in 1 .. nds[ix[y].node].size /\ nds[ix[y].node].size \in 1 .. N
      /\ P(z) \in 1 .. nds[ix[z].node].size /\ nds[ix[z].node].size \in 1 .. N
      /\ ix[y].node \in L /\ ix[y].node \in Nodes
      /\ ix[z].node \in L /\ ix[z].node \in Nodes
  BY <1>1
<1>6. Ahead(ix, q, cp, y, ix[z].node, P(z) + 1)
        <=> \/ cp[ix[y].node] < cp[ix[z].node]
            \/ ix[y].node = ix[z].node /\ P(y) < P(z) + 1
  <2>1. ix[y].node = ix[z].node => q[ix[z].node][ix[y].slot] = P(y)
    OBVIOUS
  <2> QED BY <2>1 DEF Ahead
<1> HIDE DEF P
<1>7. P(y) \in Nat /\ P(z) \in Nat
  BY <1>5, NA
<1>8. cp[ix[y].node] \in Nat /\ cp[ix[z].node] \in Nat
  BY <1>5
<1>9. ix[y].node = ix[z].node <=> cp[ix[y].node] = cp[ix[z].node]
  BY <1>5
<1> QED BY <1>2, <1>4, <1>6, <1>7, <1>8, <1>9

\* For the last of a node: those of the nodes up to its own.
LEMMA UpToTail ==
  ASSUME NEW nds, NEW L, NEW q, NEW r, NEW ix, NEW cp, NEW rk,
         NodesOK(nds, L, q, r), PlacesOK(nds, L, ix), RanksOK(ix, q, cp, rk),
         OneToOne(cp, L),
         NEW z \in Ids, ix[z] # NoLoc,
         ix[z].slot = nds[ix[z].node].tail
  PROVE  \A y \in Ids : ix[y] # NoLoc =>
           (rk[y] < rk[z] + 1 <=> cp[ix[y].node] <= cp[ix[z].node])
<1> USE DEF OneToOne
<1> DEFINE n == ix[z].node
           size == nds[n].size
<1>1. \A y \in Ids : ix[y] # NoLoc =>
         /\ ix[y].node \in L /\ ix[y].node \in Nodes /\ ix[y].slot \in Slots
         /\ ix[y] = [node |-> ix[y].node, slot |-> ix[y].slot]
         /\ nds[ix[y].node].slot[ix[y].slot] = y
         /\ q[ix[y].node][ix[y].slot] \in 1 .. nds[ix[y].node].size
         /\ nds[ix[y].node].size \in 1 .. N
  BY AllPlaces
<1>2. /\ n \in L /\ n \in Nodes /\ size \in 1 .. N /\ ix[z].slot = nds[n].tail
  BY <1>1
<1>3. \A y \in Ids : ix[y] # NoLoc =>
        (rk[y] < rk[z] + 1 <=> Ahead(ix, q, cp, y, n, q[n][ix[z].slot] + 1))
  BY UpTo
<1>4. NodeIs(nds[n], q[n], r[n])
  BY <1>2 DEF NodesOK
<1> HIDE DEF n
<1>5. q[n][nds[n].tail] = size
  <2>1. /\ nds[n].tail = IF size = 0 THEN npos ELSE r[n][size]
        /\ \A i \in 1 .. N : q[n][r[n][i]] = i
    BY <1>4, NodeFields
  <2> QED BY <1>2, <2>1, NA
<1>6. ASSUME NEW y \in Ids, ix[y] # NoLoc
      PROVE  rk[y] < rk[z] + 1 <=> cp[ix[y].node] <= cp[n]
  <2>1. rk[y] < rk[z] + 1 <=>
          \/ cp[ix[y].node] < cp[n]
          \/ ix[y].node = n /\ q[n][ix[y].slot] < size + 1
    BY <1>2, <1>3, <1>5, <1>6 DEF Ahead
  <2>2. ix[y].node = n => q[n][ix[y].slot] \in 1 .. size
    BY <1>1, <1>6
  <2>3. cp[ix[y].node] \in Nat /\ cp[n] \in Nat /\ ix[y].node \in L
    BY <1>1, <1>2, <1>6
  <2>4. ix[y].node = n <=> cp[ix[y].node] = cp[n]
    BY <1>2, <2>3
  <2> HIDE DEF size
  <2>5. ix[y].node = n => q[n][ix[y].slot] < size + 1
    BY <1>2, <2>2, NA
  <2> QED BY <2>1, <2>3, <2>4, <2>5
<1> QED BY <1>6 DEF n

\* The places an order at the head of node n would be behind.
LEMMA AheadOfHead ==
  ASSUME NEW nds, NEW L, NEW q, NEW r, NEW ix, NEW cp, NEW n,
         NodesOK(nds, L, q, r), PlacesOK(nds, L, ix)
  PROVE  \A y \in Ids : ix[y] # NoLoc =>
           (Ahead(ix, q, cp, y, n, 1) <=> cp[ix[y].node] < cp[n])
<1>1. \A y \in Ids : ix[y] # NoLoc =>
         /\ ix[y].node \in L /\ ix[y].node \in Nodes /\ ix[y].slot \in Slots
         /\ ix[y] = [node |-> ix[y].node, slot |-> ix[y].slot]
         /\ nds[ix[y].node].slot[ix[y].slot] = y
         /\ q[ix[y].node][ix[y].slot] \in 1 .. nds[ix[y].node].size
         /\ nds[ix[y].node].size \in 1 .. N
  BY AllPlaces
<1>2. ASSUME NEW y \in Ids, ix[y] # NoLoc, ix[y].node = n
      PROVE  ~ (q[n][ix[y].slot] < 1)
  <2>1. q[n][ix[y].slot] \in 1 .. nds[n].size /\ nds[n].size \in 1 .. N
    BY <1>1, <1>2
  <2> QED BY <2>1, NA
<1> QED BY <1>2 DEF Ahead

\* The first K ranks are those of the orders ahead of a place.
CountsAhead(ix, q, cp, rk, K, n, k) ==
  \A y \in Ids : ix[y] # NoLoc => (rk[y] < K <=> Ahead(ix, q, cp, y, n, k))

\* place_order: the node n, of those of L, has taken the order as its k-th,
\* behind K orders of the list.
TakesOrder(q, r, cp, rk, L, x, p, n, k, nd1, K) ==
  /\ NodesOK(node, L, q, r) /\ PlacesOK(node, L, index)
  /\ RanksOK(index, q, cp, rk) /\ LevelsOK(index, levelOf, head, tail, rk)
  /\ OneToOne(cp, L)
  /\ x \in Ids /\ index[x] = NoLoc /\ p \in Prices
  /\ n \in L /\ node[n].size # N /\ k \in 1 .. node[n].size + 1
  /\ NodeIs(nd1, JoinQ(q[n], node[n].free, k, node[n].size),
            JoinR(r[n], k, node[n].size))
  /\ nd1.slot = [node[n].slot EXCEPT ![node[n].free] = x]
  /\ K \in Nat /\ Splits(index, levelOf, rk, p, K)
  /\ CountsAhead(index, q, cp, rk, K, n, k)
  /\ node' = [node EXCEPT ![n] = nd1] /\ Placed(x, p, n, node[n].free)

\* The nodes of L, ranked cp, hold the orders of the levels.
Holds(nds, L, ix, lo, hd, tl, cp, rk) ==
  \E q, r : /\ NodesOK(nds, L, q, r) /\ PlacesOK(nds, L, ix)
            /\ RanksOK(ix, q, cp, rk) /\ LevelsOK(ix, lo, hd, tl, rk)

\* The order is in the index, at price p.
Rests(x, p) ==
  /\ index' = [index EXCEPT ![x] = index'[x]] /\ index'[x] # NoLoc
  /\ levelOf' = [levelOf EXCEPT ![x] = p]

LEMMA PlacedJoins ==
  ASSUME NEW q, NEW r, NEW cp, NEW rk, NEW L, NEW x, NEW p, NEW n, NEW k,
         NEW nd1, NEW K, TakesOrder(q, r, cp, rk, L, x, p, n, k, nd1, K)
  PROVE  /\ Holds(node', L, index', levelOf', head', tail', cp, RankFor(rk, x, K))
         /\ Rests(x, p)
<1>0. /\ NodesOK(node, L, q, r) /\ PlacesOK(node, L, index)
      /\ RanksOK(index, q, cp, rk) /\ LevelsOK(index, levelOf, head, tail, rk)
      /\ OneToOne(cp, L)
      /\ x \in Ids /\ index[x] = NoLoc /\ p \in Prices
      /\ n \in L /\ node[n].size # N /\ k \in 1 .. node[n].size + 1
      /\ NodeIs(nd1, JoinQ(q[n], node[n].free, k, node[n].size),
                JoinR(r[n], k, node[n].size))
      /\ nd1.slot = [node[n].slot EXCEPT ![node[n].free] = x]
      /\ K \in Nat /\ Splits(index, levelOf, rk, p, K)
      /\ CountsAhead(index, q, cp, rk, K, n, k)
      /\ node' = [node EXCEPT ![n] = nd1] /\ Placed(x, p, n, node[n].free)
  BY DEF TakesOrder
<1> USE <1>0
<1> DEFINE rk1 == RankFor(rk, x, K)
           loc == [node |-> n, slot |-> node[n].free]
<1>1. rk \in [Ids -> Nat]
  BY DEF RanksOK
<1>2. /\ rk1 \in [Ids -> Nat]
      /\ \A y, z \in Ids : y # x /\ z # x => (rk1[y] < rk1[z] <=> rk[y] < rk[z])
      /\ \A y \in Ids : y # x => /\ rk1[y] < rk1[x] <=> rk[y] < K
                                 /\ rk1[x] < rk1[y] <=> ~ (rk[y] < K)
  BY <1>1, RankForIs
<1> HIDE DEF rk1
<1>3. /\ \A y, z \in Ids : index[y] # NoLoc /\ index[z] # NoLoc =>
           (rk1[y] < rk1[z] <=> rk[y] < rk[z])
      /\ \A y \in Ids : index[y] # NoLoc =>
           /\ rk1[y] < rk1[x] <=> rk[y] < K
           /\ rk1[x] < rk1[y] <=> ~ (rk[y] < K)
  BY <1>2
<1>3a. \A y \in Ids : index[y] # NoLoc => (rk[y] < K <=> Ahead(index, q, cp, y, n, k))
  BY DEF CountsAhead
<1>4. SameOrder(index, rk, rk1) /\ Comes(index, q, cp, rk1, x, n, k)
  BY <1>2, <1>3, <1>3a DEF SameOrder, Comes
<1> DEFINE q1 == [q EXCEPT ![n] = JoinQ(q[n], node[n].free, k, node[n].size)]
           r1 == [r EXCEPT ![n] = JoinR(r[n], k, node[n].size)]
           nds1 == [node EXCEPT ![n] = nd1]
           ix1 == [index EXCEPT ![x] = loc]
<1>5. /\ NodesOK(nds1, L, q1, r1) /\ PlacesOK(nds1, L, ix1)
      /\ RanksOK(ix1, q1, cp, rk1) /\ ix1[x] # NoLoc
  <2>1. CanJoin(node, L, q, r, index, cp, rk, x, n, k, nd1, rk1)
    BY <1>4 DEF CanJoin
  <2>2. HasJoined(node, L, q, r, index, cp, x, n, k, nd1, rk1)
    BY <2>1, JoinNode
  <2> QED BY <2>2 DEF HasJoined
<1>6. /\ node' = nds1 /\ index' = ix1
      /\ levelOf' = [levelOf EXCEPT ![x] = p]
      /\ head' = [head EXCEPT ![p] = IF @ = NoLoc THEN loc ELSE @]
      /\ tail' = [tail EXCEPT ![p] = loc]
  BY DEF Placed
<1>7. index \in [Ids -> Locs] /\ loc \in Locs /\ loc # NoLoc
  <2>1. index \in [Ids -> Locs] /\ ix1 \in [Ids -> Locs]
    BY <1>5 DEF PlacesOK
  <2>2. ix1[x] = loc
    BY <2>1
  <2>3. loc \in Locs
    BY <2>1, <2>2
  <2> QED BY <1>5, <2>1, <2>2, <2>3
<1> HIDE DEF q1, r1, nds1, ix1, loc
<1>8. LevelsOK([index EXCEPT ![x] = loc], [levelOf EXCEPT ![x] = p],
               [head EXCEPT ![p] = IF @ = NoLoc THEN loc ELSE @],
               [tail EXCEPT ![p] = loc], rk1)
  BY <1>1, <1>2, <1>3, <1>7, LevelsJoin
<1>9. LevelsOK(index', levelOf', head', tail', rk1)
  BY <1>6, <1>8 DEF ix1
<1>10. Holds(nds1, L, ix1, levelOf', head', tail', cp, rk1)
  BY <1>5, <1>6, <1>9 DEF Holds
<1>11. Holds(node', L, index', levelOf', head', tail', cp, rk1)
  BY <1>6, <1>10
<1>12. Rests(x, p)
  <2>1. index' = ix1 /\ ix1[x] # NoLoc /\ x \in Ids /\ index \in [Ids -> Locs]
    BY <1>5, <1>6, <1>7
  <2>2. ix1 = [index EXCEPT ![x] = ix1[x]]
    BY <2>1 DEF ix1
  <2> QED BY <2>1, <2>2, <1>6 DEF Rests
<1> QED BY <1>11, <1>12 DEF rk1

\* Between calls: every order is held and no node is empty.
Settled(rk) ==
  /\ \E cp : /\ LinksOK(nextNode, prevNode, chainHead, live, cp)
            /\ Holds(node, live, index, levelOf, head, tail, cp, rk)
  /\ \A n \in live : ~ IsEmpty(node[n])

\* The state before, whatever a cascade is at.
Sound(q, r, cp, rk) ==
  /\ NodesOK(node, live, q, r)
  /\ LinksOK(nextNode, prevNode, chainHead, live, cp)
  /\ PlacesOK(node, live, index)
  /\ RanksOK(index, q, cp, rk)
  /\ LevelsOK(index, levelOf, head, tail, rk)

\* The orders rest in the order of the ranks rk.
Ranked(rk) == \E q, r, cp : Sound(q, r, cp, rk)

\* A step that leaves the ranks alone, and one that ranks order x, which was
\* not there, behind those at price p or better.
Stays == \E rk : Ranked(rk) /\ Ranked(rk)'
Arrives(x, p) ==
  \E rk : \E K \in Nat :
    /\ Ranked(rk) /\ index[x] = NoLoc
    /\ Splits(index, levelOf, rk, p, K)
    /\ Ranked(RankFor(rk, x, K))' /\ Rests(x, p)

\* A new order at price p belongs behind K others, which are those up to node
\* a; b is behind a.
GapFor(q, r, cp, rk, x, p, a, b, K) ==
  /\ Sound(q, r, cp, rk) /\ \A n \in live : ~ IsEmpty(node[n])
  /\ x \in Ids /\ index[x] = NoLoc /\ p \in Prices
  /\ \/ a = NoNode /\ b = chainHead
     \/ a \in live /\ b = nextNode[a]
  /\ K \in Nat /\ Splits(index, levelOf, rk, p, K)
  /\ \A y \in Ids : index[y] # NoLoc =>
       (rk[y] < K <=> a # NoNode /\ cp[index[y].node] <= cp[a])

\* A fresh node with the order in it comes between a and b.
LEMMA FreshPlaced ==
  ASSUME NEW q, NEW r, NEW cp, NEW rk, NEW x, NEW p, NEW a, NEW b, NEW K,
         GapFor(q, r, cp, rk, x, p, a, b, K), PlacedInFresh(x, p, a, b)
  PROVE  Settled(RankFor(rk, x, K))' /\ Rests(x, p)
<1>0. /\ NodesOK(node, live, q, r)
      /\ LinksOK(nextNode, prevNode, chainHead, live, cp)
      /\ PlacesOK(node, live, index) /\ RanksOK(index, q, cp, rk)
      /\ LevelsOK(index, levelOf, head, tail, rk)
      /\ \A n \in live : ~ IsEmpty(node[n])
      /\ x \in Ids /\ index[x] = NoLoc /\ p \in Prices
      /\ \/ a = NoNode /\ b = chainHead
         \/ a \in live /\ b = nextNode[a]
      /\ K \in Nat /\ Splits(index, levelOf, rk, p, K)
      /\ \A y \in Ids : index[y] # NoLoc =>
           (rk[y] < K <=> a # NoNode /\ cp[index[y].node] <= cp[a])
  BY DEF GapFor, Sound
<1> USE <1>0
<1> DEFINE m == Fresh
           L == live \union {m}
           cp1 == RankWith(cp, m, RankBehind(cp, a))
<1>1. m \in Nodes /\ m \notin live
  BY FreshFree DEF PlacedInFresh
<1>2. /\ live \subseteq Nodes
      /\ node = [n \in Nodes |-> node[n]]
      /\ \A n \in Nodes : NodeIs(node[n], q[n], r[n])
      /\ \A n \in Nodes \ live : node[n] = FreshNode
  BY DEF NodesOK
<1>3. node[m] = FreshNode /\ NodeIs(node[m], q[m], r[m])
  BY <1>1, <1>2
<1> HIDE DEF m
<1>4. /\ node' = [node EXCEPT ![m] = NodeAppend(node[m], x)]
      /\ nextNode' = NextWith(nextNode, m, a, b)
      /\ prevNode' = PrevWith(prevNode, m, a, b)
      /\ live' = L
      /\ chainHead' = IF a = NoNode THEN m ELSE chainHead
      /\ Placed(x, p, m, node[m].free)
  BY <1>3 DEF PlacedInFresh, NextWith, PrevWith, m
<1>5. /\ LinksOK(nextNode', prevNode', chainHead', L, cp1)
      /\ \A n, l \in live : cp1[n] < cp1[l] <=> cp[n] < cp[l]
      /\ \A n \in live : /\ cp1[n] < cp1[m] <=> a # NoNode /\ cp[n] <= cp[a]
                         /\ cp1[n] # cp1[m]
  <2>1. /\ LinksOK(NextWith(nextNode, m, a, b), PrevWith(prevNode, m, a, b),
                   IF a = NoNode THEN m ELSE chainHead, live \union {m}, cp1)
        /\ \A n, l \in live : cp1[n] < cp1[l] <=> cp[n] < cp[l]
        /\ \A n \in live : /\ cp1[n] < cp1[m] <=> a # NoNode /\ cp[n] <= cp[a]
                           /\ cp1[n] # cp1[m]
    <3>1. CanLink(nextNode, prevNode, chainHead, live, cp, m, a, b)
      BY <1>1, <1>2 DEF CanLink
    <3>2. HasLinked(nextNode, prevNode, chainHead, live, cp, m, a, b)
      BY <3>1, LinkIn
    <3> QED BY <3>2 DEF HasLinked
  <2> QED BY <1>4, <2>1
<1> HIDE DEF cp1
<1>6. /\ NodesOK(node, L, q, r) /\ PlacesOK(node, L, index)
      /\ RanksOK(index, q, cp1, rk)
  BY <1>1, <1>5, AddNode
<1>7. OneToOne(cp1, L)
  BY <1>5 DEF LinksOK, OneToOne
<1>8. FreshNode.size = 0 /\ node[m].size = 0 /\ node[m].size # N /\ 1 \in 1 .. node[m].size + 1
  BY <1>3, NA DEF FreshNode
<1>9. CountsAhead(index, q, cp1, rk, K, m, 1)
  <2>1. \A y \in Ids : index[y] # NoLoc => index[y].node \in live
    BY DEF PlacesOK
  <2>2. \A y \in Ids : index[y] # NoLoc =>
          (Ahead(index, q, cp1, y, m, 1) <=> cp1[index[y].node] < cp1[m])
    BY <1>6, AheadOfHead
  <2> QED BY <1>5, <2>1, <2>2 DEF CountsAhead
<1> DEFINE nd1 == NodeAppend(node[m], x)
<1>10. /\ NodeIs(nd1, JoinQ(q[m], node[m].free, 1, node[m].size),
                 JoinR(r[m], 1, node[m].size))
       /\ nd1.slot = [node[m].slot EXCEPT ![node[m].free] = x]
       /\ nd1.size = node[m].size + 1
  <2>1. node[m].size + 1 = 1
    BY <1>8
  <2> HIDE DEF nd1
  <2>2. /\ NodeIs(nd1, JoinQ(q[m], node[m].free, node[m].size + 1, node[m].size),
                  JoinR(r[m], node[m].size + 1, node[m].size))
        /\ nd1.slot = [node[m].slot EXCEPT ![node[m].free] = x]
        /\ nd1.size = node[m].size + 1
    BY <1>3, <1>8, AppendIs DEF nd1
  <2> QED BY <2>1, <2>2
<1>11. /\ Holds(node', L, index', levelOf', head', tail', cp1, RankFor(rk, x, K))
       /\ Rests(x, p)
  <2>1. m \in L
    OBVIOUS
  <2>2. node' = [node EXCEPT ![m] = nd1]
    BY <1>4
  <2> HIDE DEF nd1, L
  <2>3. TakesOrder(q, r, cp1, rk, L, x, p, m, 1, nd1, K)
    BY <1>4, <1>6, <1>7, <1>8, <1>9, <1>10, <2>1, <2>2 DEF TakesOrder
  <2> QED BY <2>3, PlacedJoins
<1>12. \A n \in live' : ~ IsEmpty(node'[n])
  <2>1. node'[m] = nd1 /\ \A n \in live : n # m /\ node'[n] = node[n]
    BY <1>1, <1>2, <1>4
  <2>2. nd1.size # 0
    BY <1>8, <1>10
  <2> QED BY <1>4, <2>1, <2>2 DEF IsEmpty
<1> QED BY <1>4, <1>5, <1>11, <1>12 DEF Settled

\* A new order at price p belongs behind K others, at the k-th place of node n,
\* which is nd1 with the order in it.
RoomFor(q, r, cp, rk, x, p, n, nd1, k, K) ==
  /\ Sound(q, r, cp, rk) /\ \A l \in live : l # n => ~ IsEmpty(node[l])
  /\ x \in Ids /\ index[x] = NoLoc /\ p \in Prices
  /\ n \in live /\ node[n].size # N /\ k \in 1 .. node[n].size + 1
  /\ NodeIs(nd1, JoinQ(q[n], node[n].free, k, node[n].size),
            JoinR(r[n], k, node[n].size))
  /\ nd1.slot = [node[n].slot EXCEPT ![node[n].free] = x]
  /\ nd1.size = node[n].size + 1
  /\ K \in Nat /\ Splits(index, levelOf, rk, p, K)
  /\ CountsAhead(index, q, cp, rk, K, n, k)

\* A node of the chain takes the order as its k-th.
LEMMA PlacedInJoins ==
  ASSUME NEW q, NEW r, NEW cp, NEW rk, NEW x, NEW p, NEW n, NEW nd1, NEW k,
         NEW K, RoomFor(q, r, cp, rk, x, p, n, nd1, k, K),
         PlacedIn(x, p, n, nd1)
  PROVE  Settled(RankFor(rk, x, K))' /\ Rests(x, p)
<1>0. /\ NodesOK(node, live, q, r)
      /\ LinksOK(nextNode, prevNode, chainHead, live, cp)
      /\ PlacesOK(node, live, index) /\ RanksOK(index, q, cp, rk)
      /\ LevelsOK(index, levelOf, head, tail, rk)
      /\ \A l \in live : l # n => ~ IsEmpty(node[l])
      /\ x \in Ids /\ index[x] = NoLoc /\ p \in Prices
      /\ n \in live /\ node[n].size # N /\ k \in 1 .. node[n].size + 1
      /\ NodeIs(nd1, JoinQ(q[n], node[n].free, k, node[n].size),
                JoinR(r[n], k, node[n].size))
      /\ nd1.slot = [node[n].slot EXCEPT ![node[n].free] = x]
      /\ nd1.size = node[n].size + 1
      /\ K \in Nat /\ Splits(index, levelOf, rk, p, K)
      /\ CountsAhead(index, q, cp, rk, K, n, k)
  BY DEF RoomFor, Sound
<1> USE <1>0
<1>1. /\ node' = [node EXCEPT ![n] = nd1] /\ Placed(x, p, n, node[n].free)
      /\ nextNode' = nextNode /\ prevNode' = prevNode
      /\ live' = live /\ chainHead' = chainHead
  BY DEF PlacedIn
<1>2. OneToOne(cp, live)
  BY DEF LinksOK, OneToOne
<1>3. /\ Holds(node', live, index', levelOf', head', tail', cp, RankFor(rk, x, K))
      /\ Rests(x, p)
  <2>1. TakesOrder(q, r, cp, rk, live, x, p, n, k, nd1, K)
    BY <1>1, <1>2 DEF TakesOrder
  <2> QED BY <2>1, PlacedJoins
<1>4. \A l \in live : ~ IsEmpty(node'[l])
  <2>1. live \subseteq Nodes /\ node = [l \in Nodes |-> node[l]]
        /\ NodeIs(node[n], q[n], r[n])
    BY DEF NodesOK
  <2>2. node'[n] = nd1 /\ \A l \in live : l # n => node'[l] = node[l]
    BY <1>1, <2>1
  <2>3. node[n].size \in 0 .. N
    BY <2>1, NodeFields
  <2>4. nd1.size # 0
    BY <2>3, NA
  <2> QED BY <2>2, <2>4 DEF IsEmpty
<1> QED BY <1>1, <1>3, <1>4 DEF Settled

-----------------------------------------------------------------------------
(* The invariant, action by action.                                        *)

LEMMA InvIs == IInv <=> \E q, r, cp, rk : Sound(q, r, cp, rk) /\ CascadeOK(cp, rk)
  BY DEF IInv, Represents, Sound

LEMMA SettledNext ==
  ASSUME NEW rk, Settled(rk)', pc' = "idle", order' = NoInsert, path' = <<>>, hops' = 0
  PROVE  IInv' /\ Ranked(rk)'
<1>1. PICK cp : /\ LinksOK(nextNode', prevNode', chainHead', live', cp)
                /\ Holds(node', live', index', levelOf', head', tail', cp, rk)
  BY DEF Settled
<1>2. PICK q, r : /\ NodesOK(node', live', q, r) /\ PlacesOK(node', live', index')
                  /\ RanksOK(index', q, cp, rk)
                  /\ LevelsOK(index', levelOf', head', tail', rk)
  BY <1>1 DEF Holds
<1>3. CascadeOK(cp, rk)'
  BY DEF CascadeOK, IdleOK, Settled
<1>4. Represents(q, r, cp, rk)'
  BY <1>1, <1>2, <1>3 DEF Represents
<1>5. Sound(q, r, cp, rk)'
  BY <1>1, <1>2 DEF Sound
<1> QED BY <1>4, <1>5 DEF IInv, Ranked

\* An insert that is done.
LEMMA ArrivesIs ==
  ASSUME NEW q, NEW r, NEW cp, NEW rk, NEW x, NEW p, NEW K \in Nat,
         Sound(q, r, cp, rk), index[x] = NoLoc,
         Splits(index, levelOf, rk, p, K),
         Settled(RankFor(rk, x, K))', Rests(x, p),
         pc' = "idle", order' = NoInsert, path' = <<>>, hops' = 0
  PROVE  IInv' /\ Arrives(x, p)
<1>1. IInv' /\ Ranked(RankFor(rk, x, K))'
  BY SettledNext
<1>2. Ranked(rk)
  BY DEF Ranked
<1> QED BY <1>1, <1>2 DEF Arrives

\* A step of a cascade.
LEMMA StaysIs ==
  ASSUME NEW q, NEW r, NEW cp, NEW rk, NEW q1, NEW r1, NEW cp1,
         Sound(q, r, cp, rk), Sound(q1, r1, cp1, rk)', CascadeOK(cp1, rk)'
  PROVE  IInv' /\ Stays
<1>1. Represents(q1, r1, cp1, rk)'
  BY DEF Sound, Represents
<1>2. Ranked(rk) /\ Ranked(rk)'
  BY DEF Ranked
<1> QED BY <1>1, <1>2 DEF IInv, Stays

\* An erase: the ranks of the others stay.
LEMMA LeavesIs ==
  ASSUME NEW q, NEW r, NEW cp, NEW rk, Sound(q, r, cp, rk), Settled(rk)',
         pc' = "idle", order' = NoInsert, path' = <<>>, hops' = 0
  PROVE  IInv' /\ Stays
<1>1. IInv' /\ Ranked(rk)'
  BY SettledNext
<1>2. Ranked(rk)
  BY DEF Ranked
<1> QED BY <1>1, <1>2 DEF Stays

LEMMA InitInv == ASSUME Init PROVE IInv
<1> DEFINE q == [n \in Nodes |-> FreshQ]
           r == [n \in Nodes |-> FreshR]
           cp == [n \in Nodes |-> 0]
           rk == [x \in Ids |-> 0]
<1> USE DEF Init
<1>1. NodesOK(node, live, q, r)
  BY FreshIs DEF NodesOK
<1>2. LinksOK(nextNode, prevNode, chainHead, live, cp)
  BY DEF LinksOK
<1>3. \A s \in Slots : FreshNode.slot[s] = NoOrder
  BY DEF FreshNode
<1>4. PlacesOK(node, live, index)
  BY <1>3 DEF PlacesOK, Locs
<1>5. RanksOK(index, q, cp, rk)
  BY DEF RanksOK
<1>6. LevelsOK(index, levelOf, head, tail, rk)
  BY DEF LevelsOK, EndsOK, InLevel, Locs
<1>7. CascadeOK(cp, rk)
  BY DEF CascadeOK, IdleOK
<1> HIDE DEF q, r, cp, rk
<1> QED BY <1>1, <1>2, <1>4, <1>5, <1>6, <1>7 DEF IInv, Represents

\* What Sound says, for use one part at a time.
LEMMA SoundParts ==
  ASSUME NEW q, NEW r, NEW cp, NEW rk, Sound(q, r, cp, rk)
  PROVE  /\ NodesOK(node, live, q, r)
         /\ LinksOK(nextNode, prevNode, chainHead, live, cp)
         /\ PlacesOK(node, live, index)
         /\ RanksOK(index, q, cp, rk)
         /\ LevelsOK(index, levelOf, head, tail, rk)
         /\ OneToOne(cp, live)
         /\ rk \in [Ids -> Nat] /\ index \in [Ids -> Locs]
         /\ live \subseteq Nodes
         /\ \A n \in live : NodeIs(node[n], q[n], r[n])
         /\ \A y \in Ids : index[y] # NoLoc =>
              /\ index[y].node \in live /\ index[y].node \in Nodes
              /\ index[y].slot \in Slots
              /\ index[y] = [node |-> index[y].node, slot |-> index[y].slot]
              /\ node[index[y].node].slot[index[y].slot] = y
              /\ q[index[y].node][index[y].slot] \in 1 .. node[index[y].node].size
              /\ node[index[y].node].size \in 1 .. N
         /\ \A y, z \in Ids :
              index[y] # NoLoc /\ index[z] # NoLoc /\ rk[y] = rk[z] => y = z
<1>1. /\ NodesOK(node, live, q, r)
      /\ LinksOK(nextNode, prevNode, chainHead, live, cp)
      /\ PlacesOK(node, live, index)
      /\ RanksOK(index, q, cp, rk)
      /\ LevelsOK(index, levelOf, head, tail, rk)
  BY DEF Sound
<1>2. OneToOne(cp, live)
  BY <1>1 DEF LinksOK, OneToOne
<1>3. rk \in [Ids -> Nat] /\ index \in [Ids -> Locs]
  BY <1>1 DEF RanksOK, PlacesOK
<1>4. live \subseteq Nodes /\ \A n \in live : NodeIs(node[n], q[n], r[n])
  BY <1>1 DEF NodesOK
<1>5. \A y \in Ids : index[y] # NoLoc =>
              /\ index[y].node \in live /\ index[y].node \in Nodes
              /\ index[y].slot \in Slots
              /\ index[y] = [node |-> index[y].node, slot |-> index[y].slot]
              /\ node[index[y].node].slot[index[y].slot] = y
              /\ q[index[y].node][index[y].slot] \in 1 .. node[index[y].node].size
              /\ node[index[y].node].size \in 1 .. N
  BY <1>1, AllPlaces
<1>6. \A y, z \in Ids :
         index[y] # NoLoc /\ index[z] # NoLoc /\ rk[y] = rk[z] => y = z
  BY <1>1, <1>2, RankUnique
<1> QED BY <1>1, <1>2, <1>3, <1>4, <1>5, <1>6

\* An order goes behind order z, in the node of z.
LEMMA BehindAnchor ==
  ASSUME NEW q, NEW r, NEW cp, NEW rk, Sound(q, r, cp, rk),
         NEW x \in Ids, index[x] = NoLoc, NEW p \in Prices,
         NEW z \in Ids, index[z] # NoLoc,
         Splits(index, levelOf, rk, p, rk[z] + 1),
         NEW n, n = index[z].node, ~ IsFull(node[n]),
         NEW s, s = index[z].slot,
         \A l \in live : l # n => ~ IsEmpty(node[l])
  PROVE  RoomFor(q, r, cp, rk, x, p, n, NodeInsertAfter(node[n], s, x),
                 q[n][s] + 1, rk[z] + 1)
<1>1. /\ n \in live /\ s \in Slots /\ node[n].slot[s] = z
      /\ q[n][s] \in 1 .. node[n].size /\ node[n].size \in 1 .. N
      /\ NodeIs(node[n], q[n], r[n]) /\ node[n].size # N /\ z # NoOrder
      /\ rk[z] \in Nat
  <2>1. /\ index[z].node \in live /\ index[z].slot \in Slots
        /\ node[index[z].node].slot[index[z].slot] = z
        /\ q[index[z].node][index[z].slot] \in 1 .. node[index[z].node].size
        /\ node[index[z].node].size \in 1 .. N
    BY SoundParts
  <2>2. rk \in [Ids -> Nat] /\ NodeIs(node[n], q[n], r[n])
    BY <2>1, SoundParts
  <2>3. node[n].size # N /\ z # NoOrder
    BY NA DEF IsFull
  <2> QED BY <2>1, <2>2, <2>3
<1> DEFINE nd1 == NodeInsertAfter(node[n], s, x)
<1>2. /\ NodeIs(nd1, JoinQ(q[n], node[n].free, q[n][s] + 1, node[n].size),
                JoinR(r[n], q[n][s] + 1, node[n].size))
      /\ nd1.slot = [node[n].slot EXCEPT ![node[n].free] = x]
      /\ nd1.size = node[n].size + 1
  BY <1>1, InsertAfterIs
<1>3. CountsAhead(index, q, cp, rk, rk[z] + 1, n, q[n][s] + 1)
  <2>1. \A y \in Ids : index[y] # NoLoc =>
           (rk[y] < rk[z] + 1 <=>
              Ahead(index, q, cp, y, index[z].node,
                    q[index[z].node][index[z].slot] + 1))
    BY SoundParts, UpTo
  <2> QED BY <2>1 DEF CountsAhead
<1>4. q[n][s] + 1 \in 1 .. node[n].size + 1 /\ rk[z] + 1 \in Nat
  BY <1>1, NA
<1> QED BY <1>1, <1>2, <1>3, <1>4 DEF RoomFor

\* Orders up to the last of a node are those ahead of the head of the next.
LEMMA UpToNext ==
  ASSUME NEW q, NEW r, NEW cp, NEW rk, Sound(q, r, cp, rk),
         NEW z \in Ids, index[z] # NoLoc,
         index[z].slot = node[index[z].node].tail,
         NEW n, n = nextNode[index[z].node], n # NoNode
  PROVE  n \in live /\ CountsAhead(index, q, cp, rk, rk[z] + 1, n, 1)
<1>1. index[z].node \in live
  BY SoundParts
<1> DEFINE m == index[z].node
<1>2. /\ n \in live /\ cp[m] < cp[n]
      /\ \A l \in live : cp[l] <= cp[m] \/ cp[n] <= cp[l]
      /\ cp \in [Nodes -> Nat] /\ live \subseteq Nodes
  BY <1>1, SoundParts DEF LinksOK
<1>3. \A y \in Ids : index[y] # NoLoc =>
        (rk[y] < rk[z] + 1 <=> cp[index[y].node] <= cp[index[z].node])
  BY SoundParts, UpToTail
<1>4. \A y \in Ids : index[y] # NoLoc =>
        (Ahead(index, q, cp, y, n, 1) <=> cp[index[y].node] < cp[n])
  BY SoundParts, AheadOfHead
<1>5. \A l \in live : cp[l] <= cp[m] <=> cp[l] < cp[n]
  <2>1. \A l \in live : cp[l] \in Nat
    BY <1>2
  <2> QED BY <1>1, <1>2, <2>1
<1>6. \A y \in Ids : index[y] # NoLoc => index[y].node \in live
  BY SoundParts
<1> QED BY <1>2, <1>3, <1>4, <1>5, <1>6 DEF CountsAhead

\* It goes behind order z, the last of its node, to the head of the next one.
LEMMA IntoNext ==
  ASSUME NEW q, NEW r, NEW cp, NEW rk, Sound(q, r, cp, rk),
         NEW x \in Ids, index[x] = NoLoc, NEW p \in Prices,
         NEW z \in Ids, index[z] # NoLoc,
         Splits(index, levelOf, rk, p, rk[z] + 1),
         index[z].slot = node[index[z].node].tail,
         NEW n, n = nextNode[index[z].node], n # NoNode, ~ IsFull(node[n]),
         \A l \in live : l # n => ~ IsEmpty(node[l])
  PROVE  RoomFor(q, r, cp, rk, x, p, n, NodePrepend(node[n], x), 1, rk[z] + 1)
<1>1. n \in live /\ CountsAhead(index, q, cp, rk, rk[z] + 1, n, 1)
  BY UpToNext
<1>2. NodeIs(node[n], q[n], r[n]) /\ node[n].size # N /\ rk[z] \in Nat
  BY <1>1, SoundParts DEF IsFull
<1> DEFINE nd1 == NodePrepend(node[n], x)
<1>3. /\ NodeIs(nd1, JoinQ(q[n], node[n].free, 1, node[n].size),
                JoinR(r[n], 1, node[n].size))
      /\ nd1.slot = [node[n].slot EXCEPT ![node[n].free] = x]
      /\ nd1.size = node[n].size + 1
  BY <1>2, PrependIs
<1>4. 1 \in 1 .. node[n].size + 1 /\ rk[z] + 1 \in Nat
  <2>1. node[n].size \in 0 .. N
    BY <1>2, NodeFields
  <2> QED BY <1>2, <2>1, NA
<1> HIDE DEF nd1
<1>5. RoomFor(q, r, cp, rk, x, p, n, nd1, 1, rk[z] + 1)
  BY <1>1, <1>2, <1>3, <1>4 DEF RoomFor
<1> QED BY <1>5 DEF nd1

LEMMA FirstInv ==
  ASSUME IInv, NEW x \in Ids, NEW p \in Prices, InsertFirst(x, p)
  PROVE  IInv' /\ Arrives(x, p)
<1>1. PICK q, r, cp, rk : Sound(q, r, cp, rk) /\ CascadeOK(cp, rk)
  BY InvIs
<1>2. /\ pc = "idle" /\ index[x] = NoLoc /\ chainHead = NoNode
      /\ PlacedInFresh(x, p, NoNode, NoNode) /\ UNCHANGED <<pc, roomVars>>
  BY DEF InsertFirst, New
<1>3. IdleOK
  BY <1>1, <1>2 DEF CascadeOK
<1>4. live = {}
  BY <1>1, <1>2, SoundParts DEF LinksOK
<1>5. \A y \in Ids : index[y] = NoLoc
  BY <1>1, <1>4, SoundParts
<1>6. Splits(index, levelOf, rk, p, 0)
  BY <1>5 DEF Splits
<1>7. GapFor(q, r, cp, rk, x, p, NoNode, NoNode, 0)
  BY <1>1, <1>2, <1>4, <1>5, <1>6 DEF GapFor
<1>8. Settled(RankFor(rk, x, 0))' /\ Rests(x, p)
  BY <1>2, <1>7, FreshPlaced
<1> QED BY <1>1, <1>2, <1>3, <1>6, <1>8, ArrivesIs DEF IdleOK, roomVars

LEMMA HeadInv ==
  ASSUME IInv, NEW x \in Ids, NEW p \in Prices, InsertHead(x, p)
  PROVE  IInv' /\ Arrives(x, p)
<1>1. PICK q, r, cp, rk : Sound(q, r, cp, rk) /\ CascadeOK(cp, rk)
  BY InvIs
<1>2. /\ pc = "idle" /\ index[x] = NoLoc /\ chainHead # NoNode
      /\ p \notin Levels /\ BetterLevels(p) = {} /\ UNCHANGED <<pc, roomVars>>
      /\ IF IsFull(node[chainHead])
         THEN PlacedInFresh(x, p, NoNode, chainHead)
         ELSE PlacedIn(x, p, chainHead, NodePrepend(node[chainHead], x))
  BY DEF InsertHead, New
<1>3. IdleOK
  BY <1>1, <1>2 DEF CascadeOK
<1>4. /\ chainHead \in live /\ \A m \in live : cp[chainHead] <= cp[m]
      /\ cp \in [Nodes -> Nat] /\ live \subseteq Nodes
      /\ \A y \in Ids : index[y] # NoLoc => index[y].node \in live
      /\ NodeIs(node[chainHead], q[chainHead], r[chainHead])
      /\ rk \in [Ids -> Nat]
  <2>1. chainHead \in live /\ \A m \in live : cp[chainHead] <= cp[m]
        /\ cp \in [Nodes -> Nat]
    BY <1>1, <1>2, SoundParts DEF LinksOK
  <2>2. live \subseteq Nodes /\ rk \in [Ids -> Nat]
        /\ \A n \in live : NodeIs(node[n], q[n], r[n])
    BY <1>1, SoundParts
  <2>3. \A y \in Ids : index[y] # NoLoc => index[y].node \in live
    BY <1>1, SoundParts
  <2> QED BY <2>1, <2>2, <2>3
<1>5. Splits(index, levelOf, rk, p, 0)
  BY <1>1, <1>2, <1>4, SoundParts, HeadIs
<1>6. \A y \in Ids : index[y] # NoLoc => ~ (rk[y] < 0)
  BY <1>4
<1>7. CASE IsFull(node[chainHead])
  <2>1. GapFor(q, r, cp, rk, x, p, NoNode, chainHead, 0)
    BY <1>1, <1>2, <1>3, <1>5, <1>6 DEF GapFor, IdleOK
  <2>2. Settled(RankFor(rk, x, 0))' /\ Rests(x, p)
    BY <1>2, <1>7, <2>1, FreshPlaced
  <2> QED BY <1>1, <1>2, <1>3, <1>5, <2>2, ArrivesIs DEF IdleOK, roomVars
<1>8. CASE ~ IsFull(node[chainHead])
  <2> DEFINE n == chainHead
             nd1 == NodePrepend(node[n], x)
  <2>1. \A y \in Ids : index[y] # NoLoc =>
           (Ahead(index, q, cp, y, n, 1) <=> cp[index[y].node] < cp[n])
    BY <1>1, SoundParts, AheadOfHead
  <2>2. CountsAhead(index, q, cp, rk, 0, n, 1)
    BY <1>4, <1>6, <2>1 DEF CountsAhead
  <2>3. node[n].size # N
    BY <1>8 DEF IsFull
  <2>4. /\ NodeIs(nd1, JoinQ(q[n], node[n].free, 1, node[n].size),
                  JoinR(r[n], 1, node[n].size))
        /\ nd1.slot = [node[n].slot EXCEPT ![node[n].free] = x]
        /\ nd1.size = node[n].size + 1
    BY <1>4, <2>3, PrependIs
  <2>5. 1 \in 1 .. node[n].size + 1
    <3>1. node[n].size \in 0 .. N
      BY <1>4, NodeFields
    <3> QED BY <3>1, NA
  <2> HIDE DEF nd1
  <2>6. RoomFor(q, r, cp, rk, x, p, n, nd1, 1, 0)
    BY <1>1, <1>2, <1>3, <1>4, <1>5, <2>2, <2>3, <2>4, <2>5 DEF RoomFor, IdleOK
  <2>7. Settled(RankFor(rk, x, 0))' /\ Rests(x, p)
    BY <1>2, <1>8, <2>6, PlacedInJoins DEF nd1
  <2> QED BY <1>1, <1>2, <1>3, <1>5, <2>7, ArrivesIs DEF IdleOK, roomVars
<1> QED BY <1>7, <1>8

LEMMA AfterInv ==
  ASSUME IInv, NEW x \in Ids, NEW p \in Prices, InsertAfter(x, p)
  PROVE  IInv' /\ Arrives(x, p)
<1>1. PICK q, r, cp, rk : Sound(q, r, cp, rk) /\ CascadeOK(cp, rk)
  BY InvIs
<1> DEFINE a == Anchor(p)
           nX == a.node
           next == nextNode[nX]
<1>2. /\ pc = "idle" /\ index[x] = NoLoc /\ HasAnchor(p)
      /\ UNCHANGED <<pc, roomVars>>
      /\ \/ /\ ~IsFull(node[nX])
            /\ PlacedIn(x, p, nX, NodeInsertAfter(node[nX], a.slot, x))
         \/ /\ a.slot = node[nX].tail /\ next = NoNode
            /\ PlacedInFresh(x, p, nX, NoNode)
         \/ /\ a.slot = node[nX].tail /\ next # NoNode /\ ~IsFull(node[next])
            /\ PlacedIn(x, p, next, NodePrepend(node[next], x))
  BY DEF InsertAfter, New, AtNodeTail
<1>3. IdleOK
  BY <1>1, <1>2 DEF CascadeOK
<1>4. PICK z \in Ids : /\ index[z] # NoLoc /\ a = index[z]
                       /\ Splits(index, levelOf, rk, p, rk[z] + 1)
  BY <1>1, <1>2, SoundParts, AnchorIs
<1>5. \A l \in live : ~ IsEmpty(node[l])
  BY <1>3 DEF IdleOK
<1> HIDE DEF a
<1>6. ASSUME Settled(RankFor(rk, x, rk[z] + 1))', Rests(x, p)
      PROVE  IInv' /\ Arrives(x, p)
  <2>1. rk[z] + 1 \in Nat
    BY <1>1, SoundParts
  <2> QED BY <1>1, <1>2, <1>3, <1>4, <1>6, <2>1, ArrivesIs DEF IdleOK, roomVars
<1>7. CASE /\ ~IsFull(node[nX])
           /\ PlacedIn(x, p, nX, NodeInsertAfter(node[nX], a.slot, x))
  <2>1. RoomFor(q, r, cp, rk, x, p, nX, NodeInsertAfter(node[nX], a.slot, x),
                q[nX][a.slot] + 1, rk[z] + 1)
    BY <1>1, <1>2, <1>4, <1>5, <1>7, BehindAnchor
  <2> QED BY <1>6, <1>7, <2>1, PlacedInJoins
<1>8. CASE /\ a.slot = node[nX].tail /\ next = NoNode
           /\ PlacedInFresh(x, p, nX, NoNode)
  <2>1. \A y \in Ids : index[y] # NoLoc =>
          (rk[y] < rk[z] + 1 <=> cp[index[y].node] <= cp[index[z].node])
    BY <1>1, <1>4, <1>8, SoundParts, UpToTail
  <2>2. nX \in live /\ rk[z] + 1 \in Nat /\ nX # NoNode
    <3>1. index[z].node \in live /\ live \subseteq Nodes /\ rk \in [Ids -> Nat]
      BY <1>1, <1>4, SoundParts
    <3> QED BY <1>4, <3>1, NodeIds
  <2>3. GapFor(q, r, cp, rk, x, p, nX, NoNode, rk[z] + 1)
    BY <1>1, <1>2, <1>4, <1>5, <1>8, <2>1, <2>2 DEF GapFor
  <2> QED BY <1>6, <1>8, <2>3, FreshPlaced
<1>9. CASE /\ a.slot = node[nX].tail /\ next # NoNode /\ ~IsFull(node[next])
           /\ PlacedIn(x, p, next, NodePrepend(node[next], x))
  <2>1. RoomFor(q, r, cp, rk, x, p, next, NodePrepend(node[next], x), 1, rk[z] + 1)
    BY <1>1, <1>2, <1>4, <1>5, <1>9, IntoNext
  <2> QED BY <1>6, <1>9, <2>1, PlacedInJoins
<1> QED BY <1>2, <1>7, <1>8, <1>9

LEMMA PlaceInv ==
  ASSUME IInv, Place
  PROVE  /\ IInv'
         /\ \E x \in Ids, p \in Prices :
              x = order.id /\ p = order.price /\ Arrives(x, p)
<1>1. PICK q, r, cp, rk : Sound(q, r, cp, rk) /\ CascadeOK(cp, rk)
  BY InvIs
<1>a. PICK n, x, p, a : /\ n = path[1] /\ x = order.id /\ p = order.price
                        /\ a = order.anchor
  OBVIOUS
<1>2. /\ pc = "ripple" /\ Len(path) = 1
      /\ IF order.atTail THEN PlacedIn(x, p, n, NodePrepend(node[n], x))
         ELSE PlacedIn(x, p, n, NodeInsertAfter(node[n], a.slot, x))
      /\ pc' = "idle" /\ order' = NoInsert /\ path' = <<>> /\ hops' = 0
  BY <1>a DEF Place
<1>3. RippleOK /\ PathOK(cp) /\ InsertOK(rk)
  BY <1>1, <1>2 DEF CascadeOK
<1>4. /\ ~ IsFull(node[n]) /\ n \in live
      /\ \A l \in live : l # n => ~ IsEmpty(node[l])
  BY <1>a, <1>2, <1>3 DEF RippleOK, Far, PathOK
<1>5. /\ x \in Ids /\ p \in Prices /\ index[x] = NoLoc
      /\ IF order.atTail
         THEN nextNode[a.node] = n /\ a.slot = node[a.node].tail
         ELSE a.node = n
  BY <1>a, <1>3 DEF InsertOK
<1>6. PICK z \in Ids : /\ index[z] # NoLoc /\ a = index[z]
                       /\ Splits(index, levelOf, rk, p, rk[z] + 1)
  BY <1>a, <1>3 DEF InsertOK
<1>7. n # NoNode
  BY <1>1, <1>4, NodeIds, SoundParts
<1>8. Settled(RankFor(rk, x, rk[z] + 1))' /\ Rests(x, p)
  <2>1. CASE order.atTail
    <3>1. RoomFor(q, r, cp, rk, x, p, n, NodePrepend(node[n], x), 1, rk[z] + 1)
      BY <1>1, <1>4, <1>5, <1>6, <1>7, <2>1, IntoNext
    <3> QED BY <1>2, <2>1, <3>1, PlacedInJoins
  <2>2. CASE ~ order.atTail
    <3>1. RoomFor(q, r, cp, rk, x, p, n, NodeInsertAfter(node[n], a.slot, x),
                  q[n][a.slot] + 1, rk[z] + 1)
      BY <1>1, <1>4, <1>5, <1>6, <2>2, BehindAnchor
    <3> QED BY <1>2, <2>2, <3>1, PlacedInJoins
  <2> QED BY <2>1, <2>2
<1>9. rk[z] + 1 \in Nat
  BY <1>1, SoundParts
<1>10. IInv' /\ Arrives(x, p)
  BY <1>1, <1>2, <1>5, <1>6, <1>8, <1>9, ArrivesIs
<1> QED BY <1>a, <1>5, <1>10

LEMMA RoomInv ==
  ASSUME IInv, NEW x \in Ids, NEW p \in Prices, MakeRoom(x, p)
  PROVE  IInv' /\ Stays
<1>1. PICK q, r, cp, rk : Sound(q, r, cp, rk) /\ CascadeOK(cp, rk)
  BY InvIs
<1> DEFINE a == Anchor(p)
           X == IF a.slot = node[a.node].tail THEN nextNode[a.node] ELSE a.node
<1>2. /\ pc = "idle" /\ index[x] = NoLoc /\ HasAnchor(p) /\ Free # {}
      /\ X # NoNode
      /\ order' = [id |-> x, price |-> p, anchor |-> a,
                   atTail |-> a.slot = node[a.node].tail]
      /\ path' = <<X>> /\ hops' = 0 /\ pc' = "walk"
      /\ UNCHANGED <<nodeVars, levelVars>>
  BY DEF MakeRoom, New, AtNodeTail, NodeLeft
<1>3. IdleOK
  BY <1>1, <1>2 DEF CascadeOK
<1>4. PICK z \in Ids : /\ index[z] # NoLoc /\ a = index[z]
                       /\ Splits(index, levelOf, rk, p, rk[z] + 1)
  BY <1>1, <1>2, SoundParts, AnchorIs
<1>5. index[z].node \in live /\ live \subseteq Nodes /\ index[z] \in Locs
  BY <1>1, <1>4, SoundParts
<1>6. X \in live
  BY <1>1, <1>2, <1>4, <1>5, SoundParts DEF LinksOK
<1> HIDE DEF a
<1>7. Sound(q, r, cp, rk)'
  BY <1>1, <1>2 DEF Sound, nodeVars, levelVars
<1> DEFINE t == a.slot = node[a.node].tail
<1>8. InsertOK(rk)'
  <2>1. order' \in [id : Ids, price : Prices, anchor : Locs, atTail : BOOLEAN]
    BY <1>2, <1>4, <1>5
  <2>2. /\ order'.id = x /\ order'.price = p /\ order'.anchor = a
        /\ order'.atTail = t /\ path'[1] = X
    BY <1>2
  <2>3. Splits(index', levelOf', rk, p, rk[z] + 1)
    BY <1>2, <1>4 DEF levelVars
  <2>4. /\ index' = index /\ node' = node /\ nextNode' = nextNode
    BY <1>2 DEF levelVars, nodeVars
  <2> HIDE DEF X
  <2>5. \E y \in Ids : /\ index'[y] # NoLoc /\ order'.anchor = index'[y]
                       /\ Splits(index', levelOf', rk, order'.price, rk[y] + 1)
    BY <1>4, <2>2, <2>3, <2>4
  <2>6. IF t THEN nextNode[a.node] = X ELSE a.node = X
    BY DEF X
  <2> QED BY <1>2, <2>1, <2>2, <2>4, <2>5, <2>6 DEF InsertOK
<1> HIDE DEF X
<1>9. PathOK(cp)'
  <2>1. path' \in Seq(Nodes) /\ path' # <<>> /\ Len(path') = 1 /\ path'[1] = X
    BY <1>2, <1>5, <1>6
  <2>2. live' = live
    BY <1>2 DEF nodeVars
  <2> QED BY <1>6, <2>1, <2>2 DEF PathOK
<1>10. WalkOK'
  BY <1>2, <1>3, ChainAssumption DEF WalkOK, IdleOK, nodeVars, Free, IsEmpty
<1>11. CascadeOK(cp, rk)'
  BY <1>2, <1>8, <1>9, <1>10 DEF CascadeOK
<1> QED BY <1>1, <1>7, <1>11, StaysIs

LEMMA PathIs ==
  ASSUME NEW cp \in [Nodes -> Nat], PathOK(cp), live \subseteq Nodes
  PROVE  /\ path \in Seq(Nodes) /\ path # <<>> /\ Len(path) \in Nat \ {0}
         /\ Far = path[Len(path)] /\ Far \in live
         /\ \A i \in 1 .. Len(path) : path[i] \in live /\ cp[path[i]] <= cp[Far]
<1>1. path \in Seq(Nodes) /\ path # <<>> /\ Len(path) \in Nat \ {0}
  BY DEF PathOK
<1>2. \A i \in 1 .. Len(path) : path[i] \in live
  BY DEF PathOK
<1>3. Far = path[Len(path)] /\ Far \in live
  BY <1>1, <1>2 DEF Far
<1>4. ASSUME NEW i \in 1 .. Len(path) PROVE cp[path[i]] <= cp[Far]
  <2>1. CASE i = Len(path)
    BY <1>3, <2>1
  <2>2. CASE i # Len(path)
    <3>1. i < Len(path) /\ Len(path) \in 1 .. Len(path)
      BY <1>1, <2>2
    <3>2. cp[path[i]] < cp[path[Len(path)]]
      BY <3>1 DEF PathOK
    <3>3. cp[path[i]] \in Nat /\ cp[Far] \in Nat
      BY <1>2, <1>3
    <3> QED BY <1>3, <3>2, <3>3
  <2> QED BY <2>1, <2>2
<1> QED BY <1>1, <1>2, <1>3, <1>4

LEMMA WalkInv ==
  ASSUME IInv, Walk
  PROVE  IInv' /\ Stays
<1>1. PICK q, r, cp, rk : Sound(q, r, cp, rk) /\ CascadeOK(cp, rk)
  BY InvIs
<1> DEFINE m == nextNode[Far]
<1>2. /\ pc = "walk" /\ pc' = "walk"
      /\ IsFull(node[Far]) /\ hops < MaxHops /\ m # NoNode
      /\ path' = Append(path, m) /\ hops' = hops + 1
      /\ UNCHANGED <<nodeVars, levelVars, order>>
  BY DEF Walk, Walking
<1>3. WalkOK /\ PathOK(cp) /\ InsertOK(rk)
  BY <1>1, <1>2 DEF CascadeOK
<1>4. /\ path \in Seq(Nodes) /\ path # <<>> /\ Len(path) \in Nat \ {0}
      /\ Far = path[Len(path)] /\ Far \in live
      /\ \A i \in 1 .. Len(path) : path[i] \in live /\ cp[path[i]] <= cp[Far]
  BY <1>1, <1>3, SoundParts, PathIs DEF OneToOne
<1>5. m \in live /\ m \in Nodes /\ cp[Far] < cp[m] /\ cp \in [Nodes -> Nat]
      /\ live \subseteq Nodes
  BY <1>1, <1>2, <1>4, SoundParts DEF LinksOK
<1>6. Sound(q, r, cp, rk)'
  BY <1>1, <1>2 DEF Sound, nodeVars, levelVars
<1> HIDE DEF m
<1>7. /\ path' \in Seq(Nodes) /\ Len(path') = Len(path) + 1 /\ path' # <<>>
      /\ path'[Len(path')] = m
      /\ \A i \in 1 .. Len(path) : path'[i] = path[i]
  BY <1>2, <1>4, <1>5
<1>8. PathOK(cp)'
  <2>1. ASSUME NEW i \in 1 .. Len(path') PROVE path'[i] \in live
    <3>1. i \in 1 .. Len(path) \/ i = Len(path')
      BY <1>4, <1>7
    <3> QED BY <1>4, <1>5, <1>7, <3>1
  <2>2. ASSUME NEW i \in 1 .. Len(path') - 1
        PROVE  nextNode[path'[i]] = path'[i + 1] /\ IsFull(node[path'[i]])
    <3>1. CASE i = Len(path)
      BY <1>2, <1>4, <1>7, <3>1 DEF m
    <3>2. CASE i # Len(path)
      <4>1. i \in 1 .. Len(path) - 1 /\ i \in 1 .. Len(path) /\ i + 1 \in 1 .. Len(path)
        BY <1>4, <1>7, <3>2
      <4> QED BY <1>3, <1>7, <4>1 DEF PathOK
    <3> QED BY <3>1, <3>2
  <2>3. ASSUME NEW i \in 1 .. Len(path'), NEW j \in 1 .. Len(path'), i < j
        PROVE  cp[path'[i]] < cp[path'[j]]
    <3>1. i \in 1 .. Len(path) /\ path[i] \in live
      BY <1>3, <1>4, <1>7, <2>3 DEF PathOK
    <3>2. CASE j = Len(path')
      <4>1. cp[path[i]] <= cp[Far]
        BY <1>4, <3>1
      <4> QED BY <1>4, <1>5, <1>7, <3>1, <3>2, <4>1
    <3>3. CASE j # Len(path')
      <4>1. j \in 1 .. Len(path)
        BY <1>4, <1>7, <3>3
      <4> QED BY <1>3, <1>7, <2>3, <3>1, <4>1 DEF PathOK
    <3> QED BY <3>2, <3>3
  <2>4. live' = live /\ nextNode' = nextNode /\ node' = node
    BY <1>2 DEF nodeVars
  <2> QED BY <1>7, <2>1, <2>2, <2>3, <2>4 DEF PathOK, IsFull
<1>9. InsertOK(rk)'
  <2>1. /\ index' = index /\ node' = node /\ nextNode' = nextNode
        /\ order' = order /\ levelOf' = levelOf /\ path'[1] = path[1]
    BY <1>2, <1>4, <1>7 DEF levelVars, nodeVars
  <2> QED BY <1>2, <1>3, <2>1 DEF InsertOK
<1>10. WalkOK'
  <2>1. hops \in Nat /\ hops' = Len(path') - 1 /\ hops' <= MaxHops
    BY <1>2, <1>3, <1>4, <1>7, ChainAssumption DEF WalkOK
  <2> QED BY <1>2, <1>3, <2>1 DEF WalkOK, nodeVars, Free, IsEmpty
<1>11. CascadeOK(cp, rk)'
  BY <1>2, <1>8, <1>9, <1>10 DEF CascadeOK
<1> QED BY <1>1, <1>6, <1>11, StaysIs

LEMMA WalkEndInv ==
  ASSUME IInv, WalkEnd
  PROVE  IInv' /\ Stays
<1>1. PICK q, r, cp, rk : Sound(q, r, cp, rk) /\ CascadeOK(cp, rk)
  BY InvIs
<1>2. /\ pc = "walk" /\ pc' = "ripple" /\ ~ Walking
      /\ UNCHANGED <<chainHead, levelVars, order, hops>>
  BY DEF WalkEnd
<1>3. WalkOK /\ PathOK(cp) /\ InsertOK(rk)
  BY <1>1, <1>2 DEF CascadeOK
<1>4. cp \in [Nodes -> Nat] /\ live \subseteq Nodes
  BY <1>1, SoundParts DEF OneToOne
<1>5. /\ path \in Seq(Nodes) /\ path # <<>> /\ Len(path) \in Nat \ {0}
      /\ Far = path[Len(path)] /\ Far \in live
      /\ \A i \in 1 .. Len(path) : path[i] \in live /\ cp[path[i]] <= cp[Far]
  BY <1>3, <1>4, PathIs
<1>6. /\ hops \in 0 .. MaxHops /\ Len(path) = hops + 1
      /\ MaxHops \in Nat /\ \A n \in live : ~ IsEmpty(node[n])
  BY <1>3, <1>5, ChainAssumption DEF WalkOK
<1>7. CASE ~ IsFull(node[Far])
  <2>1. UNCHANGED <<node, nextNode, prevNode, live, path>>
    BY <1>7 DEF WalkEnd
  <2>2. Sound(q, r, cp, rk)'
    BY <1>1, <1>2, <2>1 DEF Sound, levelVars
  <2>3. PathOK(cp)' /\ InsertOK(rk)'
    BY <1>2, <1>3, <2>1 DEF PathOK, InsertOK, levelVars
  <2>4. RippleOK'
    BY <1>2, <1>6, <1>7, <2>1 DEF RippleOK, Far
  <2>5. CascadeOK(cp, rk)'
    BY <1>2, <2>3, <2>4 DEF CascadeOK
  <2> QED BY <1>1, <2>2, <2>5, StaysIs
<1>8. CASE IsFull(node[Far])
  <2> DEFINE m == Fresh
             b == nextNode[Far]
  <2>1. /\ node' = [node EXCEPT ![m] = FreshNode]
        /\ nextNode' = [nextNode EXCEPT ![m] = b, ![Far] = m]
        /\ prevNode' = [n \in Nodes |-> IF n = m THEN Far
                                         ELSE IF n = b THEN m ELSE prevNode[n]]
        /\ live' = live \union {m} /\ path' = Append(path, m)
    BY <1>8 DEF WalkEnd
  <2>2. m \in Nodes /\ m \notin live
    BY <1>3, FreshFree DEF WalkOK, NodeLeft
  <2> HIDE DEF m
  <2>3. /\ node[m] = FreshNode /\ node = [n \in Nodes |-> node[n]]
        /\ nextNode \in [Nodes -> Nodes \union {NoNode}]
        /\ LinksOK(nextNode, prevNode, chainHead, live, cp)
        /\ NodesOK(node, live, q, r) /\ PlacesOK(node, live, index)
        /\ RanksOK(index, q, cp, rk) /\ LevelsOK(index, levelOf, head, tail, rk)
    BY <1>1, <2>2 DEF Sound, NodesOK, LinksOK
  <2>4. node' = node
    BY <2>1, <2>3
  <2>5. /\ nextNode' = NextWith(nextNode, m, Far, b)
        /\ prevNode' = PrevWith(prevNode, m, Far, b)
    <3>1. m # Far
      BY <1>5, <2>2
    <3> QED BY <2>1, <2>3, <3>1 DEF NextWith, PrevWith
  <2>6. Far \in Nodes /\ Far # NoNode
    BY <1>4, <1>5, NodeIds
  <2>7. CanLink(nextNode, prevNode, chainHead, live, cp, m, Far, b)
    BY <1>4, <1>5, <2>2, <2>3 DEF CanLink
  <2>8. HasLinked(nextNode, prevNode, chainHead, live, cp, m, Far, b)
    BY <2>7, LinkIn
  <2>9. PICK cp1 :
        /\ LinksOK(nextNode', prevNode', chainHead', live', cp1)
        /\ \A n, l \in live : cp1[n] < cp1[l] <=> cp[n] < cp[l]
        /\ \A n \in live : cp1[n] < cp1[m] <=> cp[n] <= cp[Far]
    <3>1. /\ LinksOK(nextNode', prevNode', chainHead', live',
                     RankWith(cp, m, RankBehind(cp, Far)))
          /\ \A n, l \in live : RankWith(cp, m, RankBehind(cp, Far))[n]
                                 < RankWith(cp, m, RankBehind(cp, Far))[l]
                               <=> cp[n] < cp[l]
          /\ \A n \in live : RankWith(cp, m, RankBehind(cp, Far))[n]
                              < RankWith(cp, m, RankBehind(cp, Far))[m]
                            <=> cp[n] <= cp[Far]
      BY <1>2, <2>1, <2>5, <2>6, <2>8 DEF HasLinked
    <3> QED BY <3>1
  <2> HIDE DEF b
  <2>10. /\ NodesOK(node, live \union {m}, q, r)
         /\ PlacesOK(node, live \union {m}, index) /\ RanksOK(index, q, cp1, rk)
    BY <2>2, <2>3, <2>9, AddNode
  <2>11. Sound(q, r, cp1, rk)'
    BY <1>2, <2>1, <2>3, <2>4, <2>9, <2>10 DEF Sound, levelVars
  <2>12. /\ path' \in Seq(Nodes) /\ Len(path') = Len(path) + 1 /\ path' # <<>>
         /\ path'[Len(path')] = m
         /\ \A i \in 1 .. Len(path) : path'[i] = path[i]
    BY <1>5, <2>1, <2>2
  <2>13. nextNode'[Far] = m /\ \A n \in live : n # Far => nextNode'[n] = nextNode[n]
    BY <1>4, <1>5, <2>2, <2>5 DEF NextWith
  <2>14. PathOK(cp1)'
    <3>1. ASSUME NEW i \in 1 .. Len(path') PROVE path'[i] \in live'
      <4>1. i \in 1 .. Len(path) \/ i = Len(path')
        BY <1>5, <2>12
      <4> QED BY <1>5, <2>1, <2>12, <4>1
    <3>2. ASSUME NEW i \in 1 .. Len(path') - 1
          PROVE  nextNode'[path'[i]] = path'[i + 1] /\ IsFull(node'[path'[i]])
      <4>1. CASE i = Len(path)
        BY <1>5, <1>8, <2>4, <2>12, <2>13, <4>1
      <4>2. CASE i # Len(path)
        <5>1. i \in 1 .. Len(path) - 1 /\ i \in 1 .. Len(path) /\ i + 1 \in 1 .. Len(path)
          BY <1>5, <2>12, <4>2
        <5>2. i < Len(path) /\ Len(path) \in 1 .. Len(path)
          BY <1>5, <5>1
        <5>3. cp[path[i]] < cp[path[Len(path)]]
          BY <1>3, <5>1, <5>2 DEF PathOK
        <5>4. path[i] # Far /\ path[i] \in live
          BY <1>4, <1>5, <5>1, <5>3
        <5>5. nextNode[path[i]] = path[i + 1] /\ IsFull(node[path[i]])
          BY <1>3, <5>1 DEF PathOK
        <5> QED BY <2>4, <2>12, <2>13, <5>1, <5>4, <5>5
      <4> QED BY <4>1, <4>2
    <3>3. ASSUME NEW i \in 1 .. Len(path'), NEW j \in 1 .. Len(path'), i < j
          PROVE  cp1[path'[i]] < cp1[path'[j]]
      <4>1. i \in 1 .. Len(path) /\ path[i] \in live /\ path'[i] = path[i]
        BY <1>5, <2>12, <3>3
      <4>2. CASE j = Len(path')
        BY <1>5, <2>9, <2>12, <4>1, <4>2
      <4>3. CASE j # Len(path')
        <5>1. j \in 1 .. Len(path)
          BY <1>5, <2>12, <4>3
        <5>2. cp[path[i]] < cp[path[j]] /\ path[j] \in live
          BY <1>3, <3>3, <4>1, <5>1 DEF PathOK
        <5> QED BY <2>9, <2>12, <4>1, <5>1, <5>2
      <4> QED BY <4>2, <4>3
    <3> QED BY <2>12, <3>1, <3>2, <3>3 DEF PathOK
  <2>15. ASSUME order.atTail
         PROVE  nextNode'[order.anchor.node] = nextNode[order.anchor.node]
    <3>1. PICK z \in Ids : index[z] # NoLoc /\ order.anchor = index[z]
      BY <1>3 DEF InsertOK
    <3>2. index[z].node \in live
      BY <1>1, <3>1, SoundParts
    <3>3. nextNode[index[z].node] = path[1] /\ path[1] \in live
          /\ cp[path[1]] <= cp[Far]
      <4>1. 1 \in 1 .. Len(path)
        BY <1>5
      <4> QED BY <1>3, <1>5, <2>15, <3>1, <4>1 DEF InsertOK
    <3>4. cp[index[z].node] < cp[path[1]]
      <4>1. path[1] # NoNode
        BY <1>4, <3>3, NodeIds
      <4> QED BY <2>3, <3>2, <3>3, <4>1 DEF LinksOK
    <3>5. index[z].node # Far
      <4>1. cp[path[1]] \in Nat /\ cp[Far] \in Nat
        BY <1>4, <2>6, <3>3
      <4> QED BY <3>3, <3>4, <4>1
    <3> QED BY <2>13, <3>1, <3>2, <3>5
  <2>16. InsertOK(rk)'
    <3>1. /\ index' = index /\ node' = node /\ order' = order
          /\ levelOf' = levelOf /\ path'[1] = path[1]
      BY <1>2, <1>5, <2>4, <2>12 DEF levelVars
    <3> QED BY <1>2, <1>3, <2>15, <3>1 DEF InsertOK
  <2>17. RippleOK'
    <3>1. Far' = m
      BY <2>12 DEF Far
    <3>2. ~ IsFull(node'[m])
      BY <2>3, <2>4, NA DEF IsFull, FreshNode
    <3>3. \A n \in live' : n # m => ~ IsEmpty(node'[n])
      BY <1>6, <2>1, <2>4
    <3>4. hops' \in 0 .. MaxHops /\ Len(path') <= MaxHops + 2
      BY <1>2, <1>6, <2>12
    <3> QED BY <3>1, <3>2, <3>3, <3>4 DEF RippleOK
  <2>18. CascadeOK(cp1, rk)'
    BY <1>2, <2>14, <2>16, <2>17 DEF CascadeOK
  <2> QED BY <1>1, <2>11, <2>18, StaysIs
<1> QED BY <1>7, <1>8

\* The last slot of a node that is not empty.
LEMMA LastSlot ==
  ASSUME NEW nd, NEW q, NEW r, NodeIs(nd, q, r), ~ IsEmpty(nd)
  PROVE  /\ nd.tail \in Slots /\ nd.tail = r[nd.size] /\ q[nd.tail] = nd.size
         /\ nd.slot[nd.tail] # NoOrder /\ nd.size \in 1 .. N
<1>1. nd.tail = r[nd.size] /\ nd.size \in 1 .. N
  BY NodeFields, NA DEF IsEmpty
<1>2. r \in [1 .. N -> Slots] /\ \A i \in 1 .. N : q[r[i]] = i
  BY NodeFields
<1>3. \A s \in Slots : nd.slot[s] # NoOrder <=> q[s] <= nd.size
  BY NodeFields
<1>4. nd.tail \in Slots /\ q[nd.tail] = nd.size
  BY <1>1, <1>2
<1> QED BY <1>1, <1>3, <1>4, NA

LEMMA SoundApart ==
  ASSUME NEW q, NEW r, NEW cp, NEW rk, Sound(q, r, cp, rk)
  PROVE  Apart(index, rk)
<1>1. \A y, z \in Ids : index[y] # NoLoc /\ index[y] = index[z] => y = z
  BY SoundParts, PlaceUnique
<1>2. \A y, z \in Ids :
         index[y] # NoLoc /\ index[z] # NoLoc /\ rk[y] = rk[z] => y = z
  BY SoundParts
<1> QED BY <1>1, <1>2 DEF Apart

\* The last order of the full node src moves to the head of the next node.
MovesOver(q, r, cp, rk, src, dst, s0, x) ==
  /\ Sound(q, r, cp, rk)
  /\ src \in live /\ dst = nextNode[src] /\ dst # NoNode
  /\ IsFull(node[src]) /\ ~ IsFull(node[dst])
  /\ s0 = node[src].tail /\ x = node[src].slot[s0]
  /\ node' = [node EXCEPT ![src] = NodeErase(@, s0),
                          ![dst] = NodePrepend(@, x)]
  /\ Moved(x, [node |-> src, slot |-> s0],
           [node |-> dst, slot |-> node[dst].free])
  /\ UNCHANGED <<nextNode, prevNode, live, chainHead, levelOf>>
\* Nothing else does.
HasMovedOver(cp, rk, src, dst, s0, x) ==
  /\ \E q1, r1 : Sound(q1, r1, cp, rk)'
  /\ x \in Ids /\ index[x] = [node |-> src, slot |-> s0] /\ index[x] # NoLoc
  /\ index' = [index EXCEPT ![x] = [node |-> dst, slot |-> node[dst].free]]
  /\ index'[x] # NoLoc
  /\ dst \in live /\ src # dst
  /\ node'[src].size = N - 1 /\ node'[dst].size = node[dst].size + 1
  /\ node[dst].size \in 0 .. N
  /\ \A n \in live : n # src /\ n # dst => node'[n] = node[n]

LEMMA MovesOn ==
  ASSUME NEW q, NEW r, NEW cp, NEW rk, NEW src, NEW dst, NEW s0, NEW x,
         MovesOver(q, r, cp, rk, src, dst, s0, x)
  PROVE  HasMovedOver(cp, rk, src, dst, s0, x)
<1>0. /\ Sound(q, r, cp, rk)
      /\ src \in live /\ dst = nextNode[src] /\ dst # NoNode
      /\ IsFull(node[src]) /\ ~ IsFull(node[dst])
      /\ s0 = node[src].tail /\ x = node[src].slot[s0]
      /\ node' = [node EXCEPT ![src] = NodeErase(@, s0),
                              ![dst] = NodePrepend(@, x)]
      /\ Moved(x, [node |-> src, slot |-> s0],
               [node |-> dst, slot |-> node[dst].free])
      /\ UNCHANGED <<nextNode, prevNode, live, chainHead, levelOf>>
  BY DEF MovesOver
<1> USE <1>0
<1> DEFINE old == [node |-> src, slot |-> s0]
           new == [node |-> dst, slot |-> node[dst].free]
<1>1. /\ NodesOK(node, live, q, r) /\ PlacesOK(node, live, index)
      /\ LinksOK(nextNode, prevNode, chainHead, live, cp)
      /\ RanksOK(index, q, cp, rk) /\ LevelsOK(index, levelOf, head, tail, rk)
      /\ OneToOne(cp, live) /\ rk \in [Ids -> Nat] /\ index \in [Ids -> Locs]
      /\ live \subseteq Nodes
  BY SoundParts
<1>2. /\ dst \in live /\ src # dst /\ src \in Nodes /\ dst \in Nodes
      /\ node = [n \in Nodes |-> node[n]] /\ q = [n \in Nodes |-> q[n]]
      /\ NodeIs(node[src], q[src], r[src]) /\ NodeIs(node[dst], q[dst], r[dst])
  <2>1. dst \in live /\ cp[src] < cp[dst]
    BY <1>1 DEF LinksOK
  <2>2. src # dst
    BY <1>1, <2>1 DEF OneToOne
  <2> QED BY <1>1, <2>1, <2>2 DEF NodesOK
<1>3. /\ s0 = r[src][N] /\ s0 \in Slots /\ N \in 1 .. node[src].size
      /\ node[src].size = N /\ node[src].slot[s0] # NoOrder
  <2>1. node[src].size = N /\ N \in 1 .. node[src].size /\ ~ IsEmpty(node[src])
    BY NA DEF IsFull, IsEmpty
  <2>2. /\ node[src].tail \in Slots /\ node[src].tail = r[src][node[src].size]
        /\ node[src].slot[node[src].tail] # NoOrder
    BY <1>2, <2>1, LastSlot
  <2> QED BY <2>1, <2>2
<1>4. x \in Ids /\ index[x] = old /\ index[x] # NoLoc
  <2>1. \E y \in Ids : /\ index[y] = [node |-> src, slot |-> r[src][N]]
                       /\ index[y] # NoLoc /\ y = node[src].slot[r[src][N]]
                       /\ r[src][N] \in Slots /\ q[src][r[src][N]] = N
    BY <1>1, <1>2, <1>3, Occupant
  <2> QED BY <1>3, <2>1
<1>5. index[x].node = src /\ index[x].slot = s0
  BY <1>4
\* It leaves ...
<1> DEFINE nds1 == [node EXCEPT ![src] = NodeErase(node[src], s0)]
           ix1 == [index EXCEPT ![x] = NoLoc]
<1>6. \E q1, r1 : /\ NodesOK(nds1, live, q1, r1) /\ PlacesOK(nds1, live, ix1)
                  /\ RanksOK(ix1, q1, cp, rk)
  <2> DEFINE q1 == [q EXCEPT ![src] = LeaveQ(q[src], s0, q[src][s0], node[src].size)]
             r1 == [r EXCEPT ![src] = LeaveR(r[src], q[src][s0], node[src].size)]
  <2>1. CanLeave(node, live, q, r, index, cp, rk, x, src, s0)
    BY <1>1, <1>4, <1>5 DEF CanLeave
  <2>2. HasLeft(node, live, q, r, index, cp, rk, x, src, s0)
    BY <2>1, LeaveNode
  <2>3. /\ NodesOK(nds1, live, q1, r1) /\ PlacesOK(nds1, live, ix1)
        /\ RanksOK(ix1, q1, cp, rk)
    BY <2>2 DEF HasLeft
  <2> HIDE DEF q1, r1, nds1, ix1
  <2> QED BY <2>3
<1>7. PICK q1, r1 : /\ NodesOK(nds1, live, q1, r1) /\ PlacesOK(nds1, live, ix1)
                    /\ RanksOK(ix1, q1, cp, rk)
  BY <1>6
<1>8. /\ nds1[dst] = node[dst] /\ nds1[src] = NodeErase(node[src], s0)
      /\ nds1 = [n \in Nodes |-> nds1[n]]
      /\ \A n \in Nodes : n # src => nds1[n] = node[n]
      /\ ix1[x] = NoLoc /\ \A y \in Ids : y # x => ix1[y] = index[y]
  BY <1>1, <1>2, <1>4
<1> HIDE DEF nds1, ix1
\* ... and joins.
<1>9. Comes(ix1, q1, cp, rk, x, dst, 1)
  <2>1. CountsAhead(index, q, cp, rk, rk[x] + 1, dst, 1)
    BY <1>4, <1>5, UpToNext
  <2>2. \A y \in Ids : index[y] # NoLoc =>
           (Ahead(index, q, cp, y, dst, 1) <=> cp[index[y].node] < cp[dst])
    BY <1>1, AheadOfHead
  <2>3. \A y \in Ids : ix1[y] # NoLoc =>
           (Ahead(ix1, q1, cp, y, dst, 1) <=> cp[ix1[y].node] < cp[dst])
    BY <1>7, AheadOfHead
  <2>4. ASSUME NEW y \in Ids, ix1[y] # NoLoc
        PROVE  /\ rk[y] < rk[x] <=> Ahead(ix1, q1, cp, y, dst, 1)
               /\ rk[x] < rk[y] <=> ~ Ahead(ix1, q1, cp, y, dst, 1)
    <3>1. y # x /\ ix1[y] = index[y] /\ index[y] # NoLoc
      BY <1>8, <2>4
    <3>2. rk[y] # rk[x]
      BY <1>4, <3>1, SoundParts
    <3>3. rk[y] < rk[x] + 1 <=> Ahead(ix1, q1, cp, y, dst, 1)
      BY <2>1, <2>2, <2>3, <2>4, <3>1 DEF CountsAhead
    <3>4. rk[y] \in Nat /\ rk[x] \in Nat
      BY <1>1, <1>4
    <3> QED BY <3>2, <3>3, <3>4
  <2> QED BY <2>4 DEF Comes
<1> DEFINE nd1 == NodePrepend(nds1[dst], x)
<1>10. /\ NodeIs(nds1[dst], q1[dst], r1[dst]) /\ nds1[dst].size # N
       /\ nds1[dst].size \in 0 .. N /\ 1 \in 1 .. nds1[dst].size + 1
  <2>1. NodeIs(nds1[dst], q1[dst], r1[dst]) /\ nds1[dst].size # N
    BY <1>2, <1>7, <1>8 DEF NodesOK, IsFull
  <2>2. nds1[dst].size \in 0 .. N
    BY <2>1, NodeFields
  <2> QED BY <2>1, <2>2, NA
<1>11. /\ NodeIs(nd1, JoinQ(q1[dst], nds1[dst].free, 1, nds1[dst].size),
                 JoinR(r1[dst], 1, nds1[dst].size))
       /\ nd1.slot = [nds1[dst].slot EXCEPT ![nds1[dst].free] = x]
       /\ nd1.size = nds1[dst].size + 1
  BY <1>4, <1>10, PrependIs
<1> HIDE DEF nd1
<1>12. CanJoin(nds1, live, q1, r1, ix1, cp, rk, x, dst, 1, nd1, rk)
  <2>1. SameOrder(ix1, rk, rk)
    BY <1>1 DEF SameOrder
  <2> QED BY <1>1, <1>2, <1>4, <1>7, <1>8, <1>9, <1>10, <1>11, <2>1 DEF CanJoin
<1>13. HasJoined(nds1, live, q1, r1, ix1, cp, x, dst, 1, nd1, rk)
  BY <1>12, JoinNode
<1>14. /\ node' = [nds1 EXCEPT ![dst] = nd1]
       /\ index' = [index EXCEPT ![x] = new]
       /\ index' = [ix1 EXCEPT ![x] = [node |-> dst, slot |-> nds1[dst].free]]
  <2>1. node' = [nds1 EXCEPT ![dst] = nd1]
    BY <1>2, <1>8 DEF nds1, nd1
  <2>2. index' = [index EXCEPT ![x] = new]
    BY DEF Moved
  <2>3. [ix1 EXCEPT ![x] = new] = [index EXCEPT ![x] = new]
    BY <1>1, <1>4 DEF ix1
  <2> QED BY <1>8, <2>1, <2>2, <2>3
<1>15. \E q2, r2 : /\ NodesOK(node', live, q2, r2) /\ PlacesOK(node', live, index')
                   /\ RanksOK(index', q2, cp, rk)
  <2> DEFINE q2 == [q1 EXCEPT ![dst] =
                      JoinQ(q1[dst], nds1[dst].free, 1, nds1[dst].size)]
             r2 == [r1 EXCEPT ![dst] = JoinR(r1[dst], 1, nds1[dst].size)]
  <2>1. /\ NodesOK(node', live, q2, r2) /\ PlacesOK(node', live, index')
        /\ RanksOK(index', q2, cp, rk)
    BY <1>13, <1>14 DEF HasJoined
  <2> HIDE DEF q2, r2
  <2> QED BY <2>1
<1>16. PICK q2, r2 : /\ NodesOK(node', live, q2, r2) /\ PlacesOK(node', live, index')
                     /\ RanksOK(index', q2, cp, rk)
  BY <1>15
<1>17. index'[x] # NoLoc
  BY <1>13, <1>14 DEF HasJoined
<1>18. new \in Locs /\ new # NoLoc
  <2>1. index'[x] = new
    BY <1>1, <1>4, <1>14
  <2>2. index' \in [Ids -> Locs]
    BY <1>16 DEF PlacesOK
  <2> QED BY <1>4, <1>17, <2>1, <2>2
<1>19. LevelsOK(index', levelOf', head', tail', rk)
  <2>1. Apart(index, rk)
    BY SoundApart
  <2> HIDE DEF old, new
  <2>2. LevelsMoved(index, levelOf, head, tail, rk, x, old, new)
    BY <1>1, <1>4, <1>18, <2>1, LevelsMove
  <2> QED BY <2>2 DEF LevelsMoved, Moved, old, new
<1>20. Sound(q2, r2, cp, rk)'
  BY <1>1, <1>16, <1>19 DEF Sound
<1>21. node'[src].size = N - 1 /\ node'[dst].size = node[dst].size + 1
  <2>1. NodeErase(node[src], s0).size = node[src].size - 1
    BY <1>2, <1>3, EraseIs
  <2>2. node'[dst] = nd1 /\ node'[src] = nds1[src]
    BY <1>2, <1>8, <1>14
  <2> QED BY <1>3, <1>8, <1>11, <2>1, <2>2
<1>22. \A n \in live : n # src /\ n # dst => node'[n] = node[n]
  BY <1>1, <1>2, <1>8, <1>14
<1>23. node[dst].size \in 0 .. N
  BY <1>8, <1>10
<1> QED BY <1>2, <1>4, <1>14, <1>17, <1>20, <1>21, <1>22, <1>23 DEF HasMovedOver

LEMMA RelocateInv ==
  ASSUME IInv, Relocate
  PROVE  IInv' /\ Stays
<1>1. PICK q, r, cp, rk : Sound(q, r, cp, rk) /\ CascadeOK(cp, rk)
  BY InvIs
<1> DEFINE len == Len(path)
           src == path[len - 1]
           dst == path[len]
           s0 == node[src].tail
           x == node[src].slot[s0]
<1>2. /\ pc = "ripple" /\ pc' = "ripple" /\ len > 1
      /\ node' = [node EXCEPT ![src] = NodeErase(@, s0),
                              ![dst] = NodePrepend(@, x)]
      /\ Moved(x, [node |-> src, slot |-> s0],
               [node |-> dst, slot |-> node[dst].free])
      /\ path' = SubSeq(path, 1, len - 1)
      /\ UNCHANGED <<nextNode, prevNode, live, chainHead, levelOf, order, hops>>
  BY DEF Relocate, Far
<1>3. RippleOK /\ PathOK(cp) /\ InsertOK(rk)
  BY <1>1, <1>2 DEF CascadeOK
<1>4. cp \in [Nodes -> Nat] /\ live \subseteq Nodes
  BY <1>1, SoundParts DEF OneToOne
<1>5. /\ path \in Seq(Nodes) /\ len \in Nat /\ Far = dst
      /\ len - 1 \in 1 .. len - 1 /\ len - 1 \in 1 .. len
      /\ (len - 1) + 1 = len /\ len \in 1 .. len
  <2>1. path \in Seq(Nodes) /\ len \in Nat \ {0} /\ Far = dst
    BY <1>3, <1>4, PathIs
  <2> QED BY <1>2, <2>1
<1>6. /\ src \in live /\ dst \in live /\ dst = nextNode[src] /\ dst # NoNode
      /\ IsFull(node[src]) /\ ~ IsFull(node[dst]) /\ cp[src] < cp[dst]
  <2>1. /\ src \in live /\ dst \in live /\ dst = nextNode[src]
        /\ IsFull(node[src])
    BY <1>3, <1>5 DEF PathOK
  <2>2. ~ IsFull(node[dst])
    BY <1>3, <1>5 DEF RippleOK
  <2>3. dst # NoNode
    BY <1>4, <2>1, NodeIds
  <2>4. cp[src] < cp[dst]
    BY <1>1, <2>1, <2>3, SoundParts DEF LinksOK
  <2> QED BY <2>1, <2>2, <2>3, <2>4
<1> HIDE DEF src, dst, s0, x, len
<1>7. /\ \E q1, r1 : Sound(q1, r1, cp, rk)'
      /\ x \in Ids /\ index[x] = [node |-> src, slot |-> s0] /\ index[x] # NoLoc
      /\ index' = [index EXCEPT ![x] = [node |-> dst, slot |-> node[dst].free]]
      /\ index'[x] # NoLoc
      /\ src # dst
      /\ node'[src].size = N - 1 /\ node'[dst].size = node[dst].size + 1
      /\ node[dst].size \in 0 .. N
      /\ \A n \in live : n # src /\ n # dst => node'[n] = node[n]
  <2>1. s0 = node[src].tail /\ x = node[src].slot[s0]
    BY DEF s0, x
  <2>2. MovesOver(q, r, cp, rk, src, dst, s0, x)
    BY <1>1, <1>2, <1>6, <2>1 DEF MovesOver
  <2>3. HasMovedOver(cp, rk, src, dst, s0, x)
    BY <2>2, MovesOn
  <2> QED BY <2>3 DEF HasMovedOver
<1>8. PICK q1, r1 : Sound(q1, r1, cp, rk)'
  BY <1>7
<1>9. /\ path' \in Seq(Nodes) /\ path' # <<>> /\ Len(path') = len - 1
      /\ \A i \in 1 .. len - 1 : path'[i] = path[i]
  <2>1. len = Len(path) /\ len - 1 \in 1 .. Len(path)
    BY <1>5 DEF len
  <2>2. \A i \in 1 .. len - 1 : path[i] \in Nodes
    BY <1>5, <2>1
  <2>3. /\ path' \in Seq(Nodes)
        /\ Len(path') = IF 1 <= len - 1 THEN (len - 1) - 1 + 1 ELSE 0
        /\ \A i \in 1 .. (len - 1) - 1 + 1 : path'[i] = path[1 + i - 1]
    BY <1>2, <1>5, <2>2, SubSeqProperties
  <2> QED BY <1>5, <2>3
<1>10. /\ \A i \in 1 .. len - 1 : path[i] \in live /\ cp[path[i]] <= cp[src]
       /\ \A i \in 1 .. len - 2 : path[i] # src /\ path[i] # dst
  <2>1. ASSUME NEW i \in 1 .. len - 1
        PROVE  /\ path[i] \in live /\ cp[path[i]] <= cp[src]
               /\ i # len - 1 => cp[path[i]] < cp[src]
    <3>1. i \in 1 .. len /\ i <= len - 1
      BY <1>5
    <3>2. path[i] \in live
      BY <1>3, <3>1 DEF PathOK, len
    <3>3. i < len - 1 => cp[path[i]] < cp[path[len - 1]]
      BY <1>3, <1>5, <3>1 DEF PathOK, len
    <3>4. cp[path[i]] \in Nat /\ cp[src] \in Nat
      BY <1>4, <1>6, <3>2
    <3>5. i = len - 1 \/ i < len - 1
      BY <1>5, <3>1
    <3> QED BY <3>2, <3>3, <3>4, <3>5 DEF src
  <2>2. ASSUME NEW i \in 1 .. len - 2 PROVE path[i] # src /\ path[i] # dst
    <3>1. i \in 1 .. len - 1 /\ i # len - 1
      BY <1>5
    <3>2. path[i] \in live /\ cp[path[i]] < cp[src]
      BY <2>1, <3>1
    <3>3. cp[path[i]] \in Nat /\ cp[src] \in Nat /\ cp[dst] \in Nat
      BY <1>4, <1>6, <3>2
    <3> QED BY <1>6, <3>2, <3>3
  <2> QED BY <2>1, <2>2
<1>11. PathOK(cp)'
  <2>1. \A i \in 1 .. Len(path') : path'[i] \in live'
    BY <1>2, <1>9, <1>10
  <2>2. ASSUME NEW i \in 1 .. Len(path') - 1
        PROVE  nextNode'[path'[i]] = path'[i + 1] /\ IsFull(node'[path'[i]])
    <3>1. /\ i \in 1 .. len - 2 /\ i \in 1 .. len - 1 /\ i + 1 \in 1 .. len - 1
      BY <1>5, <1>9
    <3>2. nextNode[path[i]] = path[i + 1] /\ IsFull(node[path[i]])
      BY <1>3, <3>1 DEF PathOK, len
    <3>3. node'[path[i]] = node[path[i]]
      BY <1>7, <1>10, <3>1
    <3> QED BY <1>2, <1>9, <3>1, <3>2, <3>3
  <2>3. ASSUME NEW i \in 1 .. Len(path'), NEW j \in 1 .. Len(path'), i < j
        PROVE  cp[path'[i]] < cp[path'[j]]
    <3>1. i \in 1 .. len - 1 /\ j \in 1 .. len - 1 /\ i \in 1 .. len /\ j \in 1 .. len
      BY <1>5, <1>9
    <3>2. cp[path[i]] < cp[path[j]]
      BY <1>3, <2>3, <3>1 DEF PathOK, len
    <3> QED BY <1>9, <3>1, <3>2
  <2> QED BY <1>9, <2>1, <2>2, <2>3 DEF PathOK
<1>12. \A y \in Ids : y # x => index'[y] = index[y]
  BY <1>1, <1>7, SoundParts
<1>13. \A y \in Ids : index'[y] # NoLoc <=> index[y] # NoLoc
  BY <1>7, <1>12
<1>14. PICK z \in Ids : /\ index[z] # NoLoc /\ order.anchor = index[z]
                        /\ Splits(index, levelOf, rk, order.price, rk[z] + 1)
  BY <1>3 DEF InsertOK
<1>15. path[1] \in live /\ path'[1] = path[1] /\ cp[path[1]] <= cp[src]
  <2>1. 1 \in 1 .. len - 1
    BY <1>5
  <2> QED BY <1>9, <1>10, <2>1
<1>16. order.atTail => /\ index[z].node # src /\ index[z].node # dst
                       /\ index[z].node \in live
  <2>1. SUFFICES ASSUME order.atTail
                 PROVE  /\ index[z].node # src /\ index[z].node # dst
                        /\ index[z].node \in live
    OBVIOUS
  <2>2. index[z].node \in live /\ nextNode[index[z].node] = path[1]
    BY <1>1, <1>3, <1>14, <2>1, SoundParts DEF InsertOK
  <2>3. path[1] # NoNode
    BY <1>4, <1>15, NodeIds
  <2>4. cp[index[z].node] < cp[path[1]]
    BY <1>1, <2>2, <2>3, SoundParts DEF LinksOK
  <2>5. /\ cp[index[z].node] \in Nat /\ cp[path[1]] \in Nat
        /\ cp[src] \in Nat /\ cp[dst] \in Nat
    BY <1>4, <1>6, <1>15, <2>2
  <2> QED BY <1>6, <1>15, <2>2, <2>4, <2>5
<1>17. z # x
  <2>1. SUFFICES ASSUME z = x PROVE FALSE
    OBVIOUS
  <2>2. index[z].node = src /\ index[z].slot = s0
    BY <1>7, <2>1
  <2>3. ~ order.atTail
    BY <1>16, <2>2
  <2>4. src = path[1] /\ order.anchor.slot # node[path[1]].tail
    BY <1>2, <1>3, <1>14, <2>2, <2>3 DEF InsertOK, len
  <2> QED BY <1>14, <2>2, <2>4 DEF s0
<1>18. InsertOK(rk)'
  <2>1. index'[order.id] = NoLoc
    BY <1>3, <1>13 DEF InsertOK
  <2>2. index'[z] # NoLoc /\ order.anchor = index'[z]
    BY <1>12, <1>13, <1>14, <1>17
  <2>3. Splits(index', levelOf', rk, order.price, rk[z] + 1)
    BY <1>2, <1>13, <1>14 DEF Splits
  <2>4. ASSUME order.atTail
        PROVE  /\ nextNode[order.anchor.node] = path[1]
               /\ order.anchor.slot = node'[order.anchor.node].tail
    BY <1>3, <1>7, <1>14, <1>16, <2>4 DEF InsertOK
  <2>5. ASSUME ~ order.atTail
        PROVE  /\ order.anchor.node = path[1]
               /\ Len(path') > 1 => order.anchor.slot # node'[path[1]].tail
    <3>1. order.anchor.node = path[1] /\ order.anchor.slot # node[path[1]].tail
      BY <1>2, <1>3, <2>5 DEF InsertOK, len
    <3>2. Len(path') > 1 => 1 \in 1 .. len - 2
      BY <1>5, <1>9
    <3>3. Len(path') > 1 => node'[path[1]] = node[path[1]]
      BY <1>7, <1>10, <1>15, <3>2
    <3> QED BY <3>1, <3>3
  <2>6. order' = order /\ nextNode' = nextNode /\ pc' # "walk"
    BY <1>2
  <2>7. order' \in [id : Ids, price : Prices, anchor : Locs, atTail : BOOLEAN]
    BY <1>3, <2>6 DEF InsertOK
  <2>8. \E y \in Ids : /\ index'[y] # NoLoc /\ order'.anchor = index'[y]
                       /\ Splits(index', levelOf', rk, order'.price, rk[y] + 1)
    BY <2>2, <2>3, <2>6
  <2> QED BY <1>15, <2>1, <2>4, <2>5, <2>6, <2>7, <2>8 DEF InsertOK
<1>19. RippleOK'
  <2>1. Far' = src
    BY <1>5, <1>9 DEF Far, src
  <2>2. ~ IsFull(node'[src])
    BY <1>7, NA DEF IsFull
  <2>3. ASSUME NEW n \in live', n # src PROVE ~ IsEmpty(node'[n])
    <3>1. CASE n = dst
      BY <1>7, <3>1 DEF IsEmpty
    <3>2. CASE n # dst
      BY <1>2, <1>3, <1>5, <1>7, <2>3, <3>2 DEF RippleOK
    <3> QED BY <3>1, <3>2
  <2>4. hops' \in 0 .. MaxHops /\ Len(path') <= MaxHops + 2
    <3>1. len <= MaxHops + 2 /\ MaxHops \in Nat /\ hops \in 0 .. MaxHops
      BY <1>3, ChainAssumption DEF RippleOK, len
    <3> QED BY <1>2, <1>5, <1>9, <3>1
  <2> QED BY <2>1, <2>2, <2>3, <2>4 DEF RippleOK
<1>20. CascadeOK(cp, rk)'
  BY <1>2, <1>11, <1>18, <1>19 DEF CascadeOK
<1> QED BY <1>1, <1>8, <1>20, StaysIs

LEMMA EraseInv ==
  ASSUME IInv, NEW x \in Ids, Erase(x)
  PROVE  IInv' /\ Stays
<1>1. PICK q, r, cp, rk : Sound(q, r, cp, rk) /\ CascadeOK(cp, rk)
  BY InvIs
<1> DEFINE loc == index[x]
           n == loc.node
           s0 == loc.slot
           p == levelOf[x]
           first == head[p] = loc
           last == tail[p] = loc
           erased == NodeErase(node[n], s0)
<1>2. /\ pc = "idle" /\ index[x] # NoLoc /\ UNCHANGED <<pc, roomVars>>
      /\ index' = [index EXCEPT ![x] = NoLoc]
      /\ levelOf' = [levelOf EXCEPT ![x] = 0]
      /\ head' = [head EXCEPT ![p] = IF first /\ last THEN NoLoc
                                     ELSE IF first THEN GlobalNext(loc) ELSE @]
      /\ tail' = [tail EXCEPT ![p] = IF first /\ last THEN NoLoc
                                     ELSE IF last THEN GlobalPrev(loc) ELSE @]
      /\ IF erased.size = 0
         THEN /\ node' = [node EXCEPT ![n] = FreshNode]
              /\ live' = live \ {n}
              /\ nextNode' = NextWithout(nextNode, prevNode, n)
              /\ prevNode' = PrevWithout(nextNode, prevNode, n)
              /\ chainHead' = IF prevNode[n] = NoNode THEN nextNode[n]
                              ELSE chainHead
         ELSE /\ node' = [node EXCEPT ![n] = erased]
              /\ UNCHANGED <<nextNode, prevNode, live, chainHead>>
  BY DEF Erase, IsEmpty, NextWithout, PrevWithout
<1>3. IdleOK
  BY <1>1, <1>2 DEF CascadeOK
<1>4. \A m \in live : ~ IsEmpty(node[m])
  BY <1>3 DEF IdleOK
<1>5. /\ NodesOK(node, live, q, r) /\ PlacesOK(node, live, index)
      /\ LinksOK(nextNode, prevNode, chainHead, live, cp)
      /\ RanksOK(index, q, cp, rk) /\ LevelsOK(index, levelOf, head, tail, rk)
      /\ rk \in [Ids -> Nat] /\ index \in [Ids -> Locs] /\ live \subseteq Nodes
      /\ node = [m \in Nodes |-> node[m]]
  BY <1>1, SoundParts DEF NodesOK
<1>6. n \in live /\ n \in Nodes
  BY <1>1, <1>2, SoundParts
\* The level.
<1>7. LevelsOK(index', levelOf', head', tail', rk)
  <2>1. Apart(index, rk)
    BY <1>1, SoundApart
  <2>2. IsNext(index, rk, x, GlobalNext(index[x]))
    BY <1>2, <1>4, <1>5, GlobalNextIs
  <2>3. IsPrev(index, rk, x, GlobalPrev(index[x]))
    BY <1>2, <1>4, <1>5, GlobalPrevIs
  <2> HIDE DEF loc
  <2>4. LevelsLeft(index, levelOf, head, tail, rk, x, GlobalNext(index[x]),
                   GlobalPrev(index[x]))
    BY <1>2, <1>5, <2>1, <2>2, <2>3, LevelsLeave
  <2> QED BY <1>2, <2>4 DEF LevelsLeft, loc
\* The node.
<1> DEFINE nds1 == [node EXCEPT ![n] = erased]
<1>8. \E q1, r1 : /\ NodesOK(nds1, live, q1, r1) /\ PlacesOK(nds1, live, index')
                  /\ RanksOK(index', q1, cp, rk)
  <2> DEFINE q1 == [q EXCEPT ![n] = LeaveQ(q[n], s0, q[n][s0], node[n].size)]
             r1 == [r EXCEPT ![n] = LeaveR(r[n], q[n][s0], node[n].size)]
  <2>1. CanLeave(node, live, q, r, index, cp, rk, x, n, s0)
    BY <1>2, <1>5 DEF CanLeave
  <2>2. HasLeft(node, live, q, r, index, cp, rk, x, n, s0)
    BY <2>1, LeaveNode
  <2>3. /\ NodesOK(nds1, live, q1, r1) /\ PlacesOK(nds1, live, index')
        /\ RanksOK(index', q1, cp, rk)
    BY <1>2, <2>2 DEF HasLeft
  <2> HIDE DEF q1, r1, nds1
  <2> QED BY <2>3
<1>9. PICK q1, r1 : /\ NodesOK(nds1, live, q1, r1) /\ PlacesOK(nds1, live, index')
                    /\ RanksOK(index', q1, cp, rk)
  BY <1>8
<1>10. nds1[n] = erased /\ \A m \in live : m # n => nds1[m] = node[m]
  BY <1>5, <1>6
<1>11. CASE erased.size = 0
  <2>1. CanDrop(nds1, live, q1, r1, index', cp, rk, n)
    BY <1>6, <1>9, <1>10, <1>11 DEF CanDrop
  <2>2. HasDropped(nds1, live, q1, r1, index', cp, rk, n)
    BY <2>1, DropNode
  <2>3. node' = [nds1 EXCEPT ![n] = FreshNode]
    BY <1>2, <1>5, <1>6, <1>11
  <2>4. \E q2, r2 : /\ NodesOK(node', live', q2, r2) /\ PlacesOK(node', live', index')
                    /\ RanksOK(index', q2, cp, rk)
    <3> DEFINE q2 == [q1 EXCEPT ![n] = FreshQ]
               r2 == [r1 EXCEPT ![n] = FreshR]
    <3>1. /\ NodesOK(node', live', q2, r2) /\ PlacesOK(node', live', index')
          /\ RanksOK(index', q2, cp, rk)
      BY <1>2, <1>11, <2>2, <2>3 DEF HasDropped
    <3> HIDE DEF q2, r2
    <3> QED BY <3>1
  <2>5. LinksOK(nextNode', prevNode', chainHead', live', cp)
    <3>1. LinksOK(NextWithout(nextNode, prevNode, n),
                  PrevWithout(nextNode, prevNode, n),
                  IF prevNode[n] = NoNode THEN nextNode[n] ELSE chainHead,
                  live \ {n}, cp)
      <4> HIDE DEF n
      <4> QED BY <1>5, <1>6, LinkOut
    <3> QED BY <1>2, <1>11, <3>1
  <2>6. \A m \in live' : ~ IsEmpty(node'[m])
    BY <1>2, <1>4, <1>5, <1>10, <1>11, <2>3 DEF IsEmpty
  <2>7. Holds(node', live', index', levelOf', head', tail', cp, rk)
    BY <1>7, <2>4 DEF Holds
  <2>8. Settled(rk)'
    BY <2>5, <2>6, <2>7 DEF Settled
  <2> QED BY <1>1, <1>2, <1>3, <2>8, LeavesIs DEF IdleOK, roomVars
<1>12. CASE erased.size # 0
  <2>1. /\ node' = nds1
        /\ UNCHANGED <<nextNode, prevNode, live, chainHead>>
    BY <1>2, <1>12
  <2>2. Holds(node', live', index', levelOf', head', tail', cp, rk)
    BY <1>7, <1>9, <2>1 DEF Holds
  <2>3. \A m \in live' : ~ IsEmpty(node'[m])
    BY <1>4, <1>10, <1>12, <2>1 DEF IsEmpty
  <2>4. Settled(rk)'
    BY <1>5, <2>1, <2>2, <2>3 DEF Settled
  <2> QED BY <1>1, <1>2, <1>3, <2>4, LeavesIs DEF IdleOK, roomVars
<1> QED BY <1>11, <1>12

LEMMA InvTypes == ASSUME IInv PROVE TypeOK
<1>1. PICK q, r, cp, rk : Sound(q, r, cp, rk) /\ CascadeOK(cp, rk)
  BY InvIs
<1>2. /\ NodesOK(node, live, q, r) /\ PlacesOK(node, live, index)
      /\ LinksOK(nextNode, prevNode, chainHead, live, cp)
      /\ LevelsOK(index, levelOf, head, tail, rk)
  BY <1>1 DEF Sound
<1>3. ASSUME NEW n \in Nodes PROVE NodeOK(node[n])
  <2>1. NodeIs(node[n], q[n], r[n])
    BY <1>2 DEF NodesOK
  <2> DEFINE nd == node[n]
  <2>2. /\ nd.slot \in [Slots -> Ids \union {NoOrder}]
        /\ nd.next \in [Slots -> Slots \union {npos}]
        /\ nd.prev \in [Slots -> Slots \union {npos}]
        /\ nd.size \in 0 .. N /\ r[n] \in [1 .. N -> Slots]
        /\ nd.head = IF nd.size = 0 THEN npos ELSE r[n][1]
        /\ nd.tail = IF nd.size = 0 THEN npos ELSE r[n][nd.size]
        /\ nd.free = IF nd.size = N THEN npos ELSE r[n][nd.size + 1]
    <3> HIDE DEF nd
    <3>1. NodeIs(nd, q[n], r[n])
      BY <2>1 DEF nd
    <3> QED BY <3>1, NodeFields
  <2> HIDE DEF nd
  <2>3. nd.head \in Slots \union {npos}
    BY <2>2, NA
  <2>4. nd.tail \in Slots \union {npos}
    BY <2>2, NA
  <2>5. nd.free \in Slots \union {npos}
    <3>1. nd.size # N => nd.size + 1 \in 1 .. N
      BY <2>2, NA
    <3> QED BY <2>2, <3>1
  <2> QED BY <2>2, <2>3, <2>4, <2>5 DEF NodeOK, nd
<1>4. live \subseteq Nodes
  BY <1>2 DEF NodesOK
<1>5. /\ nextNode \in [Nodes -> Nodes \union {NoNode}]
      /\ prevNode \in [Nodes -> Nodes \union {NoNode}]
      /\ chainHead \in Nodes \union {NoNode} /\ cp \in [Nodes -> Nat]
  BY <1>2, <1>4 DEF LinksOK
<1>6. index \in [Ids -> Locs]
  BY <1>2 DEF PlacesOK
<1>7. /\ levelOf \in [Ids -> Prices \union {0}]
      /\ head \in [Prices -> Locs] /\ tail \in [Prices -> Locs]
  BY <1>2 DEF LevelsOK
<1>8. /\ pc \in {"idle", "walk", "ripple"}
      /\ order.id \in Ids \union {NoOrder} /\ order.anchor \in Locs
      /\ path \in Seq(Nodes) /\ Len(path) <= MaxHops + 2
      /\ hops \in 0 .. MaxHops
  <2>1. CASE pc = "idle" /\ IdleOK
    <3>1. path = <<>> /\ hops = 0 /\ order.id = NoOrder /\ order.anchor = NoLoc
      BY <2>1 DEF IdleOK, NoInsert
    <3>2. NoLoc \in Locs
      BY DEF Locs
    <3> QED BY <2>1, <3>1, <3>2, ChainAssumption
  <2>2. CASE /\ PathOK(cp) /\ InsertOK(rk)
             /\ (pc = "walk" /\ WalkOK) \/ (pc = "ripple" /\ RippleOK)
    <3>1. order.id \in Ids /\ order.anchor \in Locs
      BY <2>2 DEF InsertOK
    <3>2. path \in Seq(Nodes) /\ Len(path) \in Nat \ {0}
      BY <2>2 DEF PathOK
    <3>3. Len(path) <= MaxHops + 2 /\ hops \in 0 .. MaxHops
      BY <2>2, <3>2, ChainAssumption DEF WalkOK, RippleOK
    <3> QED BY <2>2, <3>1, <3>2, <3>3
  <2>3. \/ pc = "idle" /\ IdleOK
        \/ /\ PathOK(cp) /\ InsertOK(rk)
           /\ (pc = "walk" /\ WalkOK) \/ (pc = "ripple" /\ RippleOK)
    BY <1>1 DEF CascadeOK
  <2> QED BY <2>1, <2>2, <2>3
<1> QED BY <1>3, <1>4, <1>5, <1>6, <1>7, <1>8 DEF TypeOK

LEMMA InvRoom == ASSUME IInv PROVE RoomToPlace
<1>1. PICK q, r, cp, rk : Sound(q, r, cp, rk) /\ CascadeOK(cp, rk)
  BY InvIs
<1>2. SUFFICES ASSUME pc = "ripple"
               PROVE  /\ ~ IsFull(node[Far])
                      /\ ~ order.atTail =>
                           node[path[1]].slot[order.anchor.slot] # NoOrder
  BY DEF RoomToPlace
<1>3. RippleOK /\ InsertOK(rk)
  BY <1>1, <1>2 DEF CascadeOK
<1>4. PICK z \in Ids : index[z] # NoLoc /\ order.anchor = index[z]
  BY <1>3 DEF InsertOK
<1>5. node[index[z].node].slot[index[z].slot] = z /\ z # NoOrder
  BY <1>1, <1>4, SoundParts, NA
<1>6. ~ order.atTail => index[z].node = path[1]
  BY <1>3, <1>4 DEF InsertOK
<1> QED BY <1>3, <1>4, <1>5, <1>6 DEF RippleOK

LEMMA StepInv == ASSUME IInv, [Next]_vars PROVE IInv'
<1>1. ASSUME NEW x \in Ids, Erase(x) PROVE IInv'
  BY <1>1, EraseInv
<1>2. ASSUME NEW x \in Ids, NEW p \in Prices, Insert(x, p) PROVE IInv'
  BY <1>2, FirstInv, HeadInv, AfterInv, RoomInv DEF Insert
<1>3. ASSUME Cascade PROVE IInv'
  BY <1>3, WalkInv, WalkEndInv, RelocateInv, PlaceInv DEF Cascade
<1>4. ASSUME UNCHANGED vars PROVE IInv'
  <2>1. PICK q, r, cp, rk : Represents(q, r, cp, rk)
    BY DEF IInv
  <2>2. Represents(q, r, cp, rk)'
    BY <1>4, <2>1 DEF vars, nodeVars, levelVars, roomVars, Represents, CascadeOK,
       IdleOK, WalkOK, RippleOK, PathOK, InsertOK, Free, Far
  <2> QED BY <2>2 DEF IInv
<1> QED BY <1>1, <1>2, <1>3, <1>4 DEF Next

-----------------------------------------------------------------------------
(* Theorems.                                                               *)

\* After every insert and erase, and between any two moves of a cascade, there
\* are positions, node ranks and order ranks that the state represents.
THEOREM Invariant == Spec => []IInv
  BY InitInv, StepInv, PTL DEF Spec

\* Every variable keeps its type, and the path of a cascade never outgrows the
\* array of kMaxCascadeHops + 2 it is kept in.
THEOREM ChainTypes == Spec => []TypeOK
  BY Invariant, InvTypes, PTL

\* A cascade always leads to a node with a free slot, one a move or the insert
\* can use, and never moves the order the new one is placed behind.
THEOREM RoomForEveryMove == Spec => []RoomToPlace
  BY Invariant, InvRoom, PTL

LEMMA StepKeeps ==
  ASSUME IInv, IInv', [Next]_vars, pc # "ripple",
         NEW n \in Nodes, NEW s \in Slots, node[n].slot[s] # NoOrder,
         index'[node[n].slot[s]] # NoLoc
  PROVE  node'[n].slot[s] = node[n].slot[s]
<1> DEFINE x == node[n].slot[s]
<1>1. PICK q, r, cp, rk : Sound(q, r, cp, rk)
  BY InvIs
<1>2. PICK q1, r1, cp1, rk1 : Represents(q1, r1, cp1, rk1)'
  BY DEF IInv
<1>3. PlacesOK(node, live, index) /\ index \in [Ids -> Locs]
      /\ node[n].slot[s] \in Ids \union {NoOrder}
  <2>1. NodeIs(node[n], q[n], r[n])
    BY <1>1, SoundParts DEF NodesOK
  <2>2. node[n].slot \in [Slots -> Ids \union {NoOrder}]
    BY <2>1, NodeFields
  <2> QED BY <1>1, <2>2, SoundParts
<1>4. PlacesOK(node', live', index')
  BY <1>2 DEF Represents
<1>5. x \in Ids /\ index[x] = [node |-> n, slot |-> s]
  BY <1>3 DEF PlacesOK
<1>6. index[x] # NoLoc
  BY <1>5, NodeIds DEF NoLoc
<1> HIDE DEF x
<1>7. index'[x] = index[x]
  <2>1. ASSUME NEW y \in Ids, Erase(y) PROVE index'[x] = index[x]
    <3>1. index' = [index EXCEPT ![y] = NoLoc]
      BY <2>1 DEF Erase
    <3> QED BY <1>3, <1>5, <3>1 DEF x
  <2>2. ASSUME NEW y \in Ids, NEW p \in Prices, Insert(y, p)
        PROVE  index'[x] = index[x]
    <3>1. index[y] = NoLoc
      BY <2>2 DEF Insert, InsertFirst, InsertHead, InsertAfter, MakeRoom, New
    <3>2. index' = index \/ \E l : index' = [index EXCEPT ![y] = l]
      BY <2>2 DEF Insert, InsertFirst, InsertHead, InsertAfter, MakeRoom,
         PlacedInFresh, PlacedIn, Placed, levelVars
    <3> QED BY <1>3, <1>5, <1>6, <3>1, <3>2
  <2>3. ASSUME Cascade PROVE index' = index
    BY <2>3 DEF Cascade, Walk, WalkEnd, Relocate, Place, levelVars
  <2>4. ASSUME UNCHANGED vars PROVE index' = index
    BY <2>4 DEF vars, levelVars
  <2> QED BY <2>1, <2>2, <2>3, <2>4 DEF Next
<1> QED BY <1>4, <1>5, <1>6, <1>7 DEF PlacesOK, x

\* Outside a cascade no order changes its place, whatever is inserted or
\* erased beside it: the matching loop may hold the place of the next maker
\* across the erase of a filled one.
THEOREM PlacesStay == Spec => PlacesKept
<1>1. IInv /\ IInv' /\ [Next]_vars =>
        [pc # "ripple" =>
           \A n \in Nodes : \A s \in Slots :
             LET x == node[n].slot[s] IN
             x # NoOrder /\ index'[x] # NoLoc => node'[n].slot[s] = x]_vars
  BY StepKeeps
<1> QED BY <1>1, Invariant, PTL DEF Spec, PlacesKept

\* The recursive function of Along, and that there is one.
IsAlong(f, visit, nxt, first, n) ==
  f = [k \in 0 .. n |->
        [p \in DOMAIN nxt \union Range(nxt) \union {first} |->
           IF k = 0 \/ p \notin DOMAIN nxt THEN <<>>
           ELSE visit[p] \o f[k - 1][nxt[p]]]]

LEMMA AlongExists ==
  ASSUME NEW visit, NEW nxt, NEW first, NEW n \in Nat
  PROVE  \E f : IsAlong(f, visit, nxt, first, n)
<1> DEFINE D == DOMAIN nxt \union Range(nxt) \union {first}
           Row(g) == [p \in D |-> IF p \notin DOMAIN nxt THEN <<>>
                                  ELSE visit[p] \o g[nxt[p]]]
           Row0 == [p \in D |-> <<>>]
           Works(j, f) ==
             /\ f = [k \in 0 .. n |-> f[k]]
             /\ f[0] = Row0
             /\ \A k \in 1 .. j : f[k] = Row(f[k - 1])
           Bad == {j \in 0 .. n : ~ \E f : Works(j, f)}
<1>1. Bad = {}
  <2> HIDE DEF Row, Row0
  <2> SUFFICES ASSUME Bad # {} PROVE FALSE
    OBVIOUS
  <2>1. PICK j \in Bad : \A k \in Bad : j <= k
    <3>1. Bad \in SUBSET Nat
      OBVIOUS
    <3> QED BY <3>1, Least
  <2>2. CASE j = 0
    <3> DEFINE f == [k \in 0 .. n |-> Row0]
    <3>1. Works(0, f)
      OBVIOUS
    <3> QED BY <3>1, <2>1, <2>2
  <2>3. CASE j # 0
    <3>1. j \in 1 .. n /\ j - 1 \in 0 .. n /\ j - 1 \notin Bad
      BY <2>1, <2>3
    <3>2. PICK g : Works(j - 1, g)
      BY <3>1
    <3> DEFINE f == [k \in 0 .. n |-> IF k = j THEN Row(g[j - 1]) ELSE g[k]]
    <3>3. /\ f = [k \in 0 .. n |-> f[k]]
          /\ f[0] = Row0 /\ f[j] = Row(g[j - 1])
          /\ \A k \in 0 .. j - 1 : f[k] = g[k]
      BY <3>1, <3>2
    <3> HIDE DEF f
    <3>4. ASSUME NEW k \in 1 .. j PROVE f[k] = Row(f[k - 1])
      <4>0. k - 1 \in 0 .. j - 1
        BY <3>1
      <4>1. f[k - 1] = g[k - 1]
        BY <3>3, <4>0
      <4>2. CASE k = j
        BY <4>1, <4>2, <3>3
      <4>3. CASE k # j
        <5>1. k \in 1 .. j - 1 /\ k \in 0 .. j - 1
          BY <4>3, <3>1
        <5>2. g[k] = Row(g[k - 1])
          BY <5>1, <3>2
        <5> QED BY <5>1, <5>2, <4>1, <3>3
      <4> QED BY <4>2, <4>3
    <3>5. Works(j, f)
      BY <3>3, <3>4
    <3> QED BY <3>5, <2>1
  <2> QED BY <2>2, <2>3
<1>2. PICK f : Works(n, f)
  <2> HIDE DEF Works
  <2>1. \A j \in 0 .. n : \E f : Works(j, f)
    BY <1>1
  <2>2. n \in 0 .. n
    OBVIOUS
  <2> QED BY <2>1, <2>2
<1>3. ASSUME NEW k \in 0 .. n
      PROVE  f[k] = [p \in D |-> IF k = 0 \/ p \notin DOMAIN nxt THEN <<>>
                                 ELSE visit[p] \o f[k - 1][nxt[p]]]
  <2>1. CASE k = 0
    BY <2>1, <1>2
  <2>2. CASE k # 0
    <3>1. k \in 1 .. n
      BY <2>2
    <3>2. f[k] = Row(f[k - 1])
      BY <3>1, <1>2
    <3> QED BY <3>2, <2>2
  <2> QED BY <2>1, <2>2
<1>4. f = [k \in 0 .. n |->
            [p \in D |-> IF k = 0 \/ p \notin DOMAIN nxt THEN <<>>
                         ELSE visit[p] \o f[k - 1][nxt[p]]]]
  <2>1. f = [k \in 0 .. n |-> f[k]]
    BY <1>2
  <2> HIDE DEF D
  <2> QED BY <2>1, <1>3
<1>5. IsAlong(f, visit, nxt, first, n)
  BY <1>4 DEF IsAlong
<1> QED BY <1>5

LEMMA AlongIs ==
  ASSUME NEW visit, NEW nxt, NEW first, NEW n \in Nat
  PROVE  \E f : /\ IsAlong(f, visit, nxt, first, n)
                /\ Along(visit, nxt, first, n) = f[n][first]
<1> DEFINE g == CHOOSE f : IsAlong(f, visit, nxt, first, n)
<1>1. IsAlong(g, visit, nxt, first, n)
  BY AlongExists
<1>2. Along(visit, nxt, first, n) = g[n][first]
  BY DEF Along, IsAlong
<1> QED BY <1>1, <1>2

\* An enumeration of S by the ranks key.
Enumerates(s, S, key) ==
  /\ s \in Seq(S)
  /\ \A x \in S : \E i \in 1 .. Len(s) : s[i] = x
  /\ \A i, j \in 1 .. Len(s) : i < j => key[s[i]] < key[s[j]]

LEMMA EnumNone ==
  ASSUME NEW key PROVE Enumerates(<<>>, {}, key)
BY DEF Enumerates

LEMMA EnumJoin ==
  ASSUME NEW s, NEW S, NEW t, NEW T, NEW key,
         Enumerates(s, S, key), Enumerates(t, T, key),
         \A x \in S, y \in T : key[x] < key[y]
  PROVE  Enumerates(s \o t, S \union T, key)
<1> DEFINE u == s \o t
<1>1. s \in Seq(S) /\ t \in Seq(T)
  BY DEF Enumerates
<1>2. s \in Seq(S \union T) /\ t \in Seq(S \union T)
  BY <1>1
<1>3. /\ u \in Seq(S \union T) /\ Len(u) = Len(s) + Len(t)
      /\ Len(s) \in Nat /\ Len(t) \in Nat
      /\ \A i \in 1 .. Len(u) :
           u[i] = IF i <= Len(s) THEN s[i] ELSE t[i - Len(s)]
  BY <1>2, ConcatProperties, LenProperties
<1> HIDE DEF u
<1>4. ASSUME NEW x \in S \union T PROVE \E i \in 1 .. Len(u) : u[i] = x
  <2>1. CASE x \in S
    <3>1. PICK i \in 1 .. Len(s) : s[i] = x
      BY <2>1 DEF Enumerates
    <3>2. i \in 1 .. Len(u) /\ u[i] = x
      BY <3>1, <1>3
    <3> QED BY <3>2
  <2>2. CASE x \in T
    <3>1. PICK i \in 1 .. Len(t) : t[i] = x
      BY <2>2 DEF Enumerates
    <3>2. i + Len(s) \in 1 .. Len(u) /\ u[i + Len(s)] = x
      BY <3>1, <1>3
    <3> QED BY <3>2
  <2> QED BY <1>4, <2>1, <2>2
<1>5. ASSUME NEW i \in 1 .. Len(u), NEW j \in 1 .. Len(u), i < j
      PROVE  key[u[i]] < key[u[j]]
  <2>1. CASE j <= Len(s)
    <3>1. i \in 1 .. Len(s) /\ j \in 1 .. Len(s)
      BY <2>1, <1>3, <1>5
    <3>2. key[s[i]] < key[s[j]]
      BY <3>1, <1>5 DEF Enumerates
    <3> QED BY <3>1, <3>2, <1>3
  <2>2. CASE i <= Len(s) /\ ~ (j <= Len(s))
    <3>1. i \in 1 .. Len(s) /\ j - Len(s) \in 1 .. Len(t)
      BY <2>2, <1>3
    <3>2. s[i] \in S /\ t[j - Len(s)] \in T
      BY <3>1, <1>1
    <3> QED BY <3>1, <3>2, <2>2, <1>3
  <2>3. CASE ~ (i <= Len(s))
    <3>1. /\ i - Len(s) \in 1 .. Len(t) /\ j - Len(s) \in 1 .. Len(t)
          /\ i - Len(s) < j - Len(s)
      BY <2>3, <1>3, <1>5
    <3>2. key[t[i - Len(s)]] < key[t[j - Len(s)]]
      BY <3>1 DEF Enumerates
    <3>3. ~ (j <= Len(s))
      BY <2>3, <1>5, <1>3
    <3> QED BY <3>2, <3>3, <2>3, <1>3
  <2> QED BY <2>1, <2>2, <2>3
<1> QED BY <1>3, <1>4, <1>5 DEF Enumerates, u

LEMMA EnumPrefix ==
  ASSUME NEW S, NEW key, NEW s, NEW t,
         Enumerates(s, S, key), Enumerates(t, S, key),
         \A x \in S : key[x] \in Int,
         NEW i \in 1 .. Len(s),
         \A j \in 1 .. i - 1 : j <= Len(t) /\ s[j] = t[j]
  PROVE  i <= Len(t) /\ key[t[i]] <= key[s[i]]
<1>1. s \in Seq(S) /\ t \in Seq(S) /\ Len(s) \in Nat /\ Len(t) \in Nat
  BY LenProperties DEF Enumerates
<1>2. s[i] \in S
  BY <1>1
<1>3. PICK k \in 1 .. Len(t) : t[k] = s[i]
  BY <1>2 DEF Enumerates
<1>4. k >= i
  <2> SUFFICES ASSUME k < i PROVE FALSE
    BY <1>1
  <2>1. k \in 1 .. i - 1 /\ k \in 1 .. Len(s)
    BY <1>1
  <2>2. s[k] = s[i]
    BY <2>1, <1>3
  <2>3. key[s[k]] < key[s[i]]
    BY <2>1 DEF Enumerates
  <2> QED BY <2>2, <2>3, <1>2
<1>5. i <= Len(t) /\ i \in 1 .. Len(t)
  BY <1>1, <1>4
<1>6. CASE k = i
  BY <1>6, <1>5, <1>3, <1>2
<1>7. CASE k > i
  <2>1. key[t[i]] < key[t[k]]
    BY <1>7, <1>5 DEF Enumerates
  <2>2. t[i] \in S
    BY <1>1, <1>5
  <2> QED BY <2>1, <2>2, <1>3, <1>5, <1>2
<1> QED BY <1>4, <1>6, <1>7, <1>1

LEMMA EnumUnique ==
  ASSUME NEW S, NEW key, NEW s, NEW t,
         Enumerates(s, S, key), Enumerates(t, S, key),
         \A x \in S : key[x] \in Int,
         \A x, y \in S : key[x] = key[y] => x = y
  PROVE  s = t
<1> DEFINE Same(i) == i <= Len(s) /\ i <= Len(t) /\ s[i] = t[i]
           Bad == {i \in Nat \ {0} : (i <= Len(s) \/ i <= Len(t)) /\ ~ Same(i)}
<1>1. s \in Seq(S) /\ t \in Seq(S) /\ Len(s) \in Nat /\ Len(t) \in Nat
  BY LenProperties DEF Enumerates
<1>2. Bad = {}
  <2> SUFFICES ASSUME Bad # {} PROVE FALSE
    OBVIOUS
  <2>1. PICK i \in Bad : \A j \in Bad : i <= j
    <3>1. Bad \in SUBSET Nat
      OBVIOUS
    <3> QED BY <3>1, Least
  <2>2. i \in Nat \ {0} /\ (i <= Len(s) \/ i <= Len(t)) /\ ~ Same(i)
    BY <2>1
  <2>3. ASSUME NEW j \in 1 .. i - 1 PROVE Same(j)
    <3>1. j \in Nat \ {0} /\ j < i
      BY <2>2
    <3>2. j \notin Bad
      BY <3>1, <2>1, <2>2
    <3>3. j <= Len(s) \/ j <= Len(t)
      BY <3>1, <2>2, <1>1
    <3> QED BY <3>1, <3>2, <3>3
  <2>4. i \in 1 .. Len(s) => i <= Len(t) /\ key[t[i]] <= key[s[i]]
    BY <2>3, EnumPrefix
  <2>5. i \in 1 .. Len(t) => i <= Len(s) /\ key[s[i]] <= key[t[i]]
    BY <2>3, EnumPrefix
  <2>6. i \in 1 .. Len(s) /\ i \in 1 .. Len(t)
    BY <2>2, <2>4, <2>5, <1>1
  <2>7. s[i] \in S /\ t[i] \in S
    BY <2>6, <1>1
  <2>8. key[s[i]] = key[t[i]]
    BY <2>4, <2>5, <2>6, <2>7
  <2>9. s[i] = t[i]
    BY <2>7, <2>8
  <2> QED BY <2>9, <2>6, <2>2
<1>3. \A i \in Nat \ {0} : (i <= Len(s) \/ i <= Len(t)) => Same(i)
  BY <1>2
<1>4. Len(s) <= Len(t) /\ Len(t) <= Len(s)
  BY <1>3, <1>1
<1>5. Len(s) = Len(t)
  BY <1>4, <1>1
<1>6. \A i \in 1 .. Len(s) : s[i] = t[i]
  BY <1>3, <1>1
<1> QED BY <1>1, <1>5, <1>6, SeqEqual

\* The links nxt lead from first through S by the ranks key, and then out.
Threads(nxt, first, S, key) ==
  /\ IsFiniteSet(S) /\ S \subseteq DOMAIN nxt
  /\ \A x \in S : key[x] \in Int
  /\ \A x, y \in S : key[x] = key[y] => x = y
  /\ IF S = {} THEN first \notin DOMAIN nxt
     ELSE first \in S /\ \A x \in S : key[first] <= key[x]
  /\ \A x \in S :
       IF nxt[x] \notin DOMAIN nxt THEN \A y \in S : key[y] <= key[x]
       ELSE /\ nxt[x] \in S /\ key[x] < key[nxt[x]]
            /\ \A y \in S : key[y] <= key[x] \/ key[nxt[x]] <= key[y]

\* visit enumerates items[x] at every x of S, and those of the x ranked lower
\* by key come before those of the others by rank.
Visits(visit, S, key, items, rank) ==
  /\ \A x \in S : Enumerates(visit[x], items[x], rank)
  /\ \A x, y \in S : key[x] < key[y] =>
       \A u \in items[x], w \in items[y] : rank[u] < rank[w]

From(S, key, x) == {y \in S : key[x] <= key[y]}
Items(items, S) == UNION {items[x] : x \in S}

LEMMA FromNext ==
  ASSUME NEW nxt, NEW first, NEW S, NEW key, Threads(nxt, first, S, key),
         NEW x \in S
  PROVE  /\ IsFiniteSet(From(S, key, x)) /\ Cardinality(From(S, key, x)) \in Nat \ {0}
         /\ IF nxt[x] \notin DOMAIN nxt THEN From(S, key, x) = {x}
            ELSE /\ nxt[x] \in S /\ x \notin From(S, key, nxt[x])
                 /\ From(S, key, x) = {x} \union From(S, key, nxt[x])
                 /\ Cardinality(From(S, key, nxt[x]))
                      = Cardinality(From(S, key, x)) - 1
<1> DEFINE F == From(S, key, x)
<1>0. /\ IsFiniteSet(S) /\ \A y \in S : key[y] \in Int
      /\ \A y, z \in S : key[y] = key[z] => y = z
  BY DEF Threads
<1>1. F \subseteq S /\ x \in F
  BY <1>0 DEF From
<1>2. IsFiniteSet(F) /\ Cardinality(F) \in Nat
  BY <1>0, <1>1, FS_Subset, FS_CardinalityType
<1>3. Cardinality(F) # 0
  BY <1>1, <1>2, FS_EmptySet
<1>4. CASE nxt[x] \notin DOMAIN nxt
  <2>1. \A y \in S : key[y] <= key[x]
    BY <1>4 DEF Threads
  <2>2. F = {x}
    BY <2>1, <1>0 DEF From
  <2> QED BY <2>2, <1>2, <1>3, <1>4
<1>5. CASE nxt[x] \in DOMAIN nxt
  <2> DEFINE G == From(S, key, nxt[x])
  <2>1. /\ nxt[x] \in S /\ key[x] < key[nxt[x]]
        /\ \A y \in S : key[y] <= key[x] \/ key[nxt[x]] <= key[y]
    BY <1>5 DEF Threads
  <2>2. x \notin G
    BY <2>1, <1>0 DEF From
  <2>3. F = {x} \union G
    BY <2>1, <1>0 DEF From
  <2>4. G = F \ {x}
    BY <2>2, <2>3
  <2>5. Cardinality(G) = Cardinality(F) - 1
    BY <2>4, <1>1, <1>2, FS_RemoveElement
  <2> QED BY <2>1, <2>2, <2>3, <2>5, <1>2, <1>3, <1>5
<1> QED BY <1>4, <1>5

\* A walk along such links visits everything, in the order of the ranks.
LEMMA AlongEnumerates ==
  ASSUME NEW visit, NEW nxt, NEW first, NEW n \in Nat,
         NEW S, NEW key, NEW items, NEW rank,
         Threads(nxt, first, S, key), Visits(visit, S, key, items, rank),
         Cardinality(S) <= n
  PROVE  Enumerates(Along(visit, nxt, first, n), Items(items, S), rank)
<1> DEFINE D == DOMAIN nxt \union Range(nxt) \union {first}
           F(x) == From(S, key, x)
<1>1. PICK f : /\ IsAlong(f, visit, nxt, first, n)
               /\ Along(visit, nxt, first, n) = f[n][first]
  BY AlongIs
<1>2. \A k \in 0 .. n : \A p \in D :
        f[k][p] = IF k = 0 \/ p \notin DOMAIN nxt THEN <<>>
                  ELSE visit[p] \o f[k - 1][nxt[p]]
  <2>1. f = [k \in 0 .. n |->
              [p \in D |-> IF k = 0 \/ p \notin DOMAIN nxt THEN <<>>
                           ELSE visit[p] \o f[k - 1][nxt[p]]]]
    BY <1>1 DEF IsAlong
  <2> HIDE DEF D
  <2> TAKE k \in 0 .. n
  <2>2. f[k] = [p \in D |-> IF k = 0 \/ p \notin DOMAIN nxt THEN <<>>
                            ELSE visit[p] \o f[k - 1][nxt[p]]]
    BY <2>1
  <2> QED BY <2>2
<1>3. S \subseteq DOMAIN nxt /\ (\A p \in DOMAIN nxt : p \in D /\ nxt[p] \in D) /\ first \in D
  BY DEF Threads, Range
<1> HIDE DEF D
<1> DEFINE Good(x) == \A k \in 0 .. n : Cardinality(F(x)) <= k =>
                        Enumerates(f[k][x], Items(items, F(x)), rank)
           Bad == {c \in Nat : \E x \in S : Cardinality(F(x)) = c /\ ~ Good(x)}
<1>4. Bad = {}
  <2> SUFFICES ASSUME Bad # {} PROVE FALSE
    OBVIOUS
  <2>1. PICK c \in Bad : \A b \in Bad : c <= b
    <3>1. Bad \in SUBSET Nat
      OBVIOUS
    <3> QED BY <3>1, Least
  <2>2. PICK x \in S : Cardinality(F(x)) = c /\ ~ Good(x)
    BY <2>1
  <2>3. PICK k \in 0 .. n : /\ Cardinality(F(x)) <= k
                            /\ ~ Enumerates(f[k][x], Items(items, F(x)), rank)
    BY <2>2
  <2>4. c \in Nat \ {0} /\ k # 0
    BY <2>2, <2>3, FromNext
  <2>5. f[k][x] = visit[x] \o f[k - 1][nxt[x]] /\ k - 1 \in 0 .. n
    <3>1. x \in DOMAIN nxt /\ x \in D
      BY <1>3
    <3>2. f[k][x] = IF k = 0 \/ x \notin DOMAIN nxt THEN <<>>
                    ELSE visit[x] \o f[k - 1][nxt[x]]
      BY <1>2, <3>1
    <3>3. k - 1 \in 0 .. n
      BY <2>4
    <3>4. f[k][x] = visit[x] \o f[k - 1][nxt[x]]
      BY <3>1, <3>2, <2>4, Zenon
    <3> QED BY <3>3, <3>4
  <2>6. Enumerates(visit[x], items[x], rank)
    BY DEF Visits
  <2>7. CASE nxt[x] \notin DOMAIN nxt
    <3>1. F(x) = {x}
      BY <2>7, FromNext
    <3>2. Items(items, F(x)) = items[x] \union {}
      BY <3>1 DEF Items
    <3>3. nxt[x] \in D
      BY <1>3
    <3>4. f[k - 1][nxt[x]] = <<>>
      BY <2>5, <2>7, <1>2, <3>3
    <3>5. Enumerates(visit[x] \o <<>>, items[x] \union {}, rank)
      BY <2>6, EnumNone, EnumJoin
    <3> QED BY <3>2, <3>4, <3>5, <2>3, <2>5
  <2>8. CASE nxt[x] \in DOMAIN nxt
    <3> DEFINE y == nxt[x]
    <3>1. /\ y \in S /\ F(x) = {x} \union F(y)
          /\ Cardinality(F(y)) = Cardinality(F(x)) - 1
      BY <2>8, FromNext
    <3>2. c - 1 \in Nat /\ Cardinality(F(y)) = c - 1
      BY <3>1, <2>2, <2>4
    <3>3. c - 1 \notin Bad
      BY <3>2, <2>1
    <3>4. Good(y)
      BY <3>1, <3>2, <3>3
    <3>5. Enumerates(f[k - 1][y], Items(items, F(y)), rank)
      BY <3>4, <3>2, <2>2, <2>3, <2>5
    <3>6. Items(items, F(x)) = items[x] \union Items(items, F(y))
      BY <3>1 DEF Items
    <3>7. \A u \in items[x], w \in Items(items, F(y)) : rank[u] < rank[w]
      <4> TAKE u \in items[x], w \in Items(items, F(y))
      <4>1. PICK z \in F(y) : w \in items[z]
        BY DEF Items
      <4>2. z \in S /\ key[x] < key[z]
        <5>1. z \in S /\ key[y] <= key[z]
          BY DEF From
        <5>2. key[x] < key[y]
          BY <2>8 DEF Threads
        <5>3. key[x] \in Int /\ key[y] \in Int /\ key[z] \in Int
          BY <3>1, <5>1 DEF Threads
        <5> QED BY <5>1, <5>2, <5>3
      <4> QED BY <4>1, <4>2 DEF Visits
    <3>8. Enumerates(visit[x] \o f[k - 1][y], items[x] \union Items(items, F(y)), rank)
      BY <2>6, <3>5, <3>7, EnumJoin
    <3> QED BY <3>6, <3>8, <2>3, <2>5
  <2> QED BY <2>7, <2>8
<1>5. n \in 0 .. n
  OBVIOUS
<1>6. CASE S = {}
  <2>1. first \notin DOMAIN nxt
    BY <1>6 DEF Threads
  <2>2. f[n][first] = <<>>
    BY <2>1, <1>2, <1>3, <1>5
  <2>3. Items(items, S) = {}
    BY <1>6 DEF Items
  <2> QED BY <2>2, <2>3, <1>1, EnumNone
<1>7. CASE S # {}
  <2>1. first \in S /\ F(first) = S
    BY <1>7 DEF Threads, From
  <2>2. Cardinality(S) \in Nat
    BY FS_CardinalityType DEF Threads
  <2>3. Cardinality(S) \notin Bad
    BY <1>4
  <2>4. Good(first)
    BY <2>1, <2>2, <2>3
  <2>5. Enumerates(f[n][first], Items(items, F(first)), rank)
    BY <2>4, <2>1, <1>5
  <2> QED BY <2>5, <2>1, <1>1
<1> QED BY <1>6, <1>7

LEMMA EnumOne ==
  ASSUME NEW x, NEW key, key[x] \in Int PROVE Enumerates(<<x>>, {x}, key)
BY DEF Enumerates

\* The places themselves.
LEMMA FollowEnumerates ==
  ASSUME NEW nxt, NEW first, NEW n \in Nat, NEW S, NEW key,
         Threads(nxt, first, S, key), Cardinality(S) <= n
  PROVE  Enumerates(Follow(nxt, first, n), S, key)
<1> DEFINE visit == [p \in DOMAIN nxt |-> <<p>>]
           items == [p \in S |-> {p}]
<1>1. S \subseteq DOMAIN nxt /\ \A x \in S : key[x] \in Int
  BY DEF Threads
<1>2. \A x \in S : visit[x] = <<x>> /\ items[x] = {x}
  BY <1>1
<1> HIDE DEF visit, items
<1>3. Visits(visit, S, key, items, key)
  BY <1>1, <1>2, EnumOne DEF Visits
<1>4. Items(items, S) = S
  BY <1>2 DEF Items
<1>5. Enumerates(Along(visit, nxt, first, n), S, key)
  BY <1>3, <1>4, AlongEnumerates
<1> QED BY <1>5 DEF Follow, visit

-----------------------------------------------------------------------------
(* What the walks of OrderChain over a node and over the chain meet.       *)

Occupied(nd, q) == {s \in Slots : q[s] <= nd.size}
Vacant(nd, q) == {s \in Slots : q[s] > nd.size}
Back(q) == [s \in Slots |-> 0 - q[s]]

LEMMA SlotsCount ==
  /\ IsFiniteSet(Slots) /\ Cardinality(Slots) = N /\ npos \notin Slots
  /\ \A S \in SUBSET Slots : IsFiniteSet(S) /\ Cardinality(S) <= N + 1
<1>1. IsFiniteSet(Slots) /\ Cardinality(Slots) = N /\ npos \notin Slots
  <2>1. 0 \in Int /\ N - 1 \in Int /\ 0 <= N - 1
    BY NA
  <2>2. IsFiniteSet(0 .. N - 1) /\ Cardinality(0 .. N - 1) = (N - 1) - 0 + 1
    BY <2>1, FS_Interval
  <2>3. npos \notin Slots /\ (N - 1) - 0 + 1 = N
    BY NA DEF npos, Slots
  <2> QED BY <2>2, <2>3 DEF Slots
<1>2. ASSUME NEW S \in SUBSET Slots PROVE IsFiniteSet(S) /\ Cardinality(S) <= N + 1
  <2>1. IsFiniteSet(S) /\ Cardinality(S) <= Cardinality(Slots) /\ Cardinality(S) \in Nat
    BY <1>1, FS_Subset, FS_CardinalityType
  <2> QED BY <2>1, <1>1, NA
<1> QED BY <1>1, <1>2

LEMMA NodeThreads ==
  ASSUME NEW nd, NEW q, NEW r, NodeIs(nd, q, r)
  PROVE  /\ Threads(nd.next, nd.head, Occupied(nd, q), q)
         /\ Threads(nd.prev, nd.tail, Occupied(nd, q), Back(q))
         /\ Threads(nd.next, nd.free, Vacant(nd, q), q)
<1>1. /\ q \in [Slots -> 1 .. N] /\ r \in [1 .. N -> Slots]
      /\ \A s \in Slots : r[q[s]] = s
      /\ \A i \in 1 .. N : q[r[i]] = i
      /\ nd.size \in 0 .. N /\ N \in Nat \ {0}
  BY NA DEF NodeIs, Perm
<1>2. /\ nd.next = [s \in Slots |-> IF q[s] \in {nd.size, N} THEN npos
                                    ELSE r[q[s] + 1]]
      /\ nd.prev = [s \in Slots |-> IF q[s] = 1 \/ q[s] > nd.size THEN npos
                                    ELSE r[q[s] - 1]]
      /\ nd.head = IF nd.size = 0 THEN npos ELSE r[1]
      /\ nd.tail = IF nd.size = 0 THEN npos ELSE r[nd.size]
      /\ nd.free = IF nd.size = N THEN npos ELSE r[nd.size + 1]
  BY DEF NodeIs, NodeOf
<1>3. DOMAIN nd.next = Slots /\ DOMAIN nd.prev = Slots
  BY <1>2
<1>4. \A s, t \in Slots : q[s] = q[t] => s = t
  BY <1>1
<1>5. \A s \in Slots : q[s] \in 1 .. N /\ Back(q)[s] = 0 - q[s]
  BY <1>1 DEF Back
<1>6. \A i \in 1 .. N : r[i] \in Slots /\ q[r[i]] = i
  BY <1>1
<1> DEFINE S == Occupied(nd, q)
           V == Vacant(nd, q)
<1>7. Threads(nd.next, nd.head, S, q)
  <2>1. IF S = {} THEN nd.head \notin Slots
        ELSE nd.head \in S /\ \A s \in S : q[nd.head] <= q[s]
    <3>1. CASE nd.size = 0
      <4>1. S = {}
        BY <3>1, <1>5 DEF Occupied
      <4> QED BY <4>1, <3>1, <1>2, SlotsCount
    <3>2. CASE nd.size # 0
      <4>1. nd.head \in Slots /\ q[nd.head] = 1
        BY <3>2, <1>2, <1>6, <1>1
      <4>2. nd.head \in S
        BY <4>1, <3>2, <1>1 DEF Occupied
      <4> QED BY <4>1, <4>2, <1>5 DEF Occupied
    <3> QED BY <3>1, <3>2
  <2>2. ASSUME NEW s \in S
        PROVE  IF nd.next[s] \notin Slots THEN \A t \in S : q[t] <= q[s]
               ELSE /\ nd.next[s] \in S /\ q[s] < q[nd.next[s]]
                    /\ \A t \in S : q[t] <= q[s] \/ q[nd.next[s]] <= q[t]
    <3>1. s \in Slots /\ q[s] <= nd.size
      BY DEF Occupied
    <3>2. CASE q[s] = nd.size
      <4>1. nd.next[s] = npos
        BY <3>1, <3>2, <1>2
      <4> QED BY <4>1, <3>2, SlotsCount DEF Occupied
    <3>3. CASE q[s] # nd.size
      <4>1. q[s] + 1 \in 1 .. N /\ q[s] # N /\ q[s] + 1 <= nd.size
        BY <3>1, <3>3, <1>1, <1>5
      <4>2. nd.next[s] = r[q[s] + 1]
        BY <4>1, <3>1, <3>3, <1>2
      <4>3. nd.next[s] \in Slots /\ q[nd.next[s]] = q[s] + 1
        BY <4>1, <4>2, <1>6
      <4>4. nd.next[s] \in S
        BY <4>1, <4>3 DEF Occupied
      <4>5. \A t \in S : q[t] <= q[s] \/ q[s] + 1 <= q[t]
        BY <1>5, <3>1 DEF Occupied
      <4>6. q[s] < q[s] + 1
        BY <1>5, <3>1
      <4> QED BY <4>3, <4>4, <4>5, <4>6
    <3> QED BY <3>2, <3>3
  <2>3. S \in SUBSET Slots
    BY DEF Occupied
  <2>4. IsFiniteSet(S) /\ \A s \in S : q[s] \in Int
    BY <2>3, <1>5, SlotsCount
  <2> QED BY <2>1, <2>2, <2>3, <2>4, <1>3, <1>4 DEF Threads
<1>8. Threads(nd.prev, nd.tail, S, Back(q))
  <2>1. IF S = {} THEN nd.tail \notin Slots
        ELSE nd.tail \in S /\ \A s \in S : 0 - q[nd.tail] <= 0 - q[s]
    <3>1. CASE nd.size = 0
      <4>1. S = {}
        BY <3>1, <1>5 DEF Occupied
      <4> QED BY <4>1, <3>1, <1>2, SlotsCount
    <3>2. CASE nd.size # 0
      <4>1. nd.tail \in Slots /\ q[nd.tail] = nd.size
        BY <3>2, <1>2, <1>6, <1>1
      <4>2. nd.tail \in S
        BY <4>1, <3>2, <1>1 DEF Occupied
      <4>3. \A s \in S : 0 - nd.size <= 0 - q[s]
        BY <1>1, <1>5 DEF Occupied
      <4> QED BY <4>1, <4>2, <4>3
    <3> QED BY <3>1, <3>2
  <2>2. ASSUME NEW s \in S
        PROVE  IF nd.prev[s] \notin Slots THEN \A t \in S : 0 - q[t] <= 0 - q[s]
               ELSE /\ nd.prev[s] \in S /\ 0 - q[s] < 0 - q[nd.prev[s]]
                    /\ \A t \in S : \/ 0 - q[t] <= 0 - q[s]
                                    \/ 0 - q[nd.prev[s]] <= 0 - q[t]
    <3>1. s \in Slots /\ q[s] <= nd.size
      BY DEF Occupied
    <3>2. CASE q[s] = 1
      <4>1. nd.prev[s] = npos
        BY <3>1, <3>2, <1>2
      <4>2. \A t \in S : 0 - q[t] <= 0 - 1
        BY <1>5 DEF Occupied
      <4> QED BY <4>1, <4>2, <3>2, SlotsCount
    <3>3. CASE q[s] # 1
      <4>1. q[s] - 1 \in 1 .. N /\ ~ (q[s] > nd.size) /\ q[s] - 1 <= nd.size
        BY <3>1, <3>3, <1>1, <1>5
      <4>2. nd.prev[s] = r[q[s] - 1]
        BY <4>1, <3>1, <3>3, <1>2
      <4>3. nd.prev[s] \in Slots /\ q[nd.prev[s]] = q[s] - 1
        BY <4>1, <4>2, <1>6
      <4>4. nd.prev[s] \in S
        BY <4>1, <4>3 DEF Occupied
      <4>5. \A t \in S : 0 - q[t] <= 0 - q[s] \/ 0 - (q[s] - 1) <= 0 - q[t]
        BY <1>5, <3>1 DEF Occupied
      <4>6. 0 - q[s] < 0 - (q[s] - 1)
        BY <1>5, <3>1
      <4> QED BY <4>3, <4>4, <4>5, <4>6
    <3> QED BY <3>2, <3>3
  <2>3. S \in SUBSET Slots
    BY DEF Occupied
  <2>4. IsFiniteSet(S) /\ \A s \in S : Back(q)[s] \in Int
    BY <2>3, <1>5, SlotsCount
  <2>5. \A s, t \in S : Back(q)[s] = Back(q)[t] => s = t
    BY <2>3, <1>4, <1>5
  <2>6. \A s \in S : s \in Slots /\ Back(q)[s] = 0 - q[s]
    BY <2>3, <1>5
  <2>7. IF S = {} THEN nd.tail \notin Slots
        ELSE nd.tail \in S /\ \A s \in S : Back(q)[nd.tail] <= Back(q)[s]
    BY <2>1, <2>6
  <2>8. \A s \in S :
          IF nd.prev[s] \notin Slots THEN \A t \in S : Back(q)[t] <= Back(q)[s]
          ELSE /\ nd.prev[s] \in S /\ Back(q)[s] < Back(q)[nd.prev[s]]
               /\ \A t \in S : \/ Back(q)[t] <= Back(q)[s]
                               \/ Back(q)[nd.prev[s]] <= Back(q)[t]
    BY <2>2, <2>6
  <2> QED BY <2>3, <2>4, <2>5, <2>7, <2>8, <1>3 DEF Threads
<1>9. Threads(nd.next, nd.free, V, q)
  <2>1. IF V = {} THEN nd.free \notin Slots
        ELSE nd.free \in V /\ \A s \in V : q[nd.free] <= q[s]
    <3>1. CASE nd.size = N
      <4>1. V = {}
        BY <3>1, <1>5, <1>1 DEF Vacant
      <4> QED BY <4>1, <3>1, <1>2, SlotsCount
    <3>2. CASE nd.size # N
      <4>0. nd.size + 1 \in 1 .. N
        BY <3>2, <1>1
      <4>1. nd.free \in Slots /\ q[nd.free] = nd.size + 1
        BY <4>0, <3>2, <1>2, <1>6
      <4>2. nd.free \in V
        BY <4>1, <3>2, <1>1 DEF Vacant
      <4>3. \A s \in V : nd.size + 1 <= q[s]
        BY <1>5, <1>1 DEF Vacant
      <4> QED BY <4>1, <4>2, <4>3
    <3> QED BY <3>1, <3>2
  <2>2. ASSUME NEW s \in V
        PROVE  IF nd.next[s] \notin Slots THEN \A t \in V : q[t] <= q[s]
               ELSE /\ nd.next[s] \in V /\ q[s] < q[nd.next[s]]
                    /\ \A t \in V : q[t] <= q[s] \/ q[nd.next[s]] <= q[t]
    <3>1. s \in Slots /\ q[s] > nd.size
      BY DEF Vacant
    <3>2. CASE q[s] = N
      <4>1. nd.next[s] = npos
        BY <3>1, <3>2, <1>2
      <4>2. \A t \in V : q[t] <= N
        BY <1>5 DEF Vacant
      <4> QED BY <4>1, <4>2, <3>2, SlotsCount
    <3>3. CASE q[s] # N
      <4>1. q[s] + 1 \in 1 .. N /\ q[s] # nd.size /\ q[s] + 1 > nd.size
        BY <3>1, <3>3, <1>1, <1>5
      <4>2. nd.next[s] = r[q[s] + 1]
        BY <4>1, <3>1, <3>3, <1>2
      <4>3. nd.next[s] \in Slots /\ q[nd.next[s]] = q[s] + 1
        BY <4>1, <4>2, <1>6
      <4>4. nd.next[s] \in V
        BY <4>1, <4>3 DEF Vacant
      <4>5. \A t \in V : q[t] <= q[s] \/ q[s] + 1 <= q[t]
        BY <1>5, <3>1 DEF Vacant
      <4>6. q[s] < q[s] + 1
        BY <1>5, <3>1
      <4> QED BY <4>3, <4>4, <4>5, <4>6
    <3> QED BY <3>2, <3>3
  <2>3. V \in SUBSET Slots
    BY DEF Vacant
  <2>4. IsFiniteSet(V) /\ \A s \in V : q[s] \in Int
    BY <2>3, <1>5, SlotsCount
  <2> QED BY <2>1, <2>2, <2>3, <2>4, <1>3, <1>4 DEF Threads
<1> QED BY <1>7, <1>8, <1>9

LEMMA NodesCount ==
  /\ Cardinality(Nodes) \in Nat /\ NoNode \notin Nodes
  /\ \A L \in SUBSET Nodes : IsFiniteSet(L) /\ Cardinality(L) <= Cardinality(Nodes) + 1
<1>1. IsFiniteSet(Nodes) /\ NoNode \notin Nodes
  BY ChainAssumption DEF NoNode
<1>2. ASSUME NEW L \in SUBSET Nodes
      PROVE  IsFiniteSet(L) /\ Cardinality(L) <= Cardinality(Nodes) + 1
  <2>1. IsFiniteSet(L) /\ Cardinality(L) <= Cardinality(Nodes)
        /\ Cardinality(L) \in Nat /\ Cardinality(Nodes) \in Nat
    BY <1>1, FS_Subset, FS_CardinalityType
  <2> QED BY <2>1
<1>3. Cardinality(Nodes) \in Nat
  BY <1>1, FS_CardinalityType
<1> QED BY <1>1, <1>2, <1>3

LEMMA ChainThreads ==
  ASSUME NEW nx, NEW pv, NEW ch, NEW L \in SUBSET Nodes, NEW cp,
         LinksOK(nx, pv, ch, L, cp)
  PROVE  Threads(nx, ch, L, cp)
<1>1. /\ DOMAIN nx = Nodes /\ IsFiniteSet(L) /\ \A n \in L : cp[n] \in Int
      /\ \A n \in L : nx[n] \in Nodes \union {NoNode}
  BY NodesCount DEF LinksOK
<1>2. ch \in Nodes \union {NoNode}
  BY DEF LinksOK
<1>3. \A n \in L :
       IF nx[n] \notin Nodes THEN \A m \in L : cp[m] <= cp[n]
       ELSE /\ nx[n] \in L /\ cp[n] < cp[nx[n]]
            /\ \A m \in L : cp[m] <= cp[n] \/ cp[nx[n]] <= cp[m]
  <2> TAKE n \in L
  <2>1. nx[n] \notin Nodes <=> nx[n] = NoNode
    BY <1>1, NodesCount
  <2> QED BY <2>1 DEF LinksOK
<1>4. IF L = {} THEN ch \notin Nodes ELSE ch \in L /\ \A m \in L : cp[ch] <= cp[m]
  BY <1>2, NodesCount DEF LinksOK
<1>5. \A m, n \in L : cp[m] = cp[n] => m = n
  BY DEF LinksOK
<1> QED BY <1>1, <1>3, <1>4, <1>5 DEF Threads

\* All that a walk over the orders depends on.
Walkable(nds, nx, pv, ch, L, ix, q, r, cp, rk) ==
  /\ NodesOK(nds, L, q, r) /\ LinksOK(nx, pv, ch, L, cp)
  /\ PlacesOK(nds, L, ix) /\ RanksOK(ix, q, cp, rk)

Rest(ix) == {x \in Ids : ix[x] # NoLoc}

\* The order in an occupied slot.
LEMMA OccupiedIs ==
  ASSUME NEW nds, NEW nx, NEW pv, NEW ch, NEW L, NEW ix, NEW q, NEW r, NEW cp, NEW rk,
         Walkable(nds, nx, pv, ch, L, ix, q, r, cp, rk),
         NEW n \in L, NEW s \in Occupied(nds[n], q[n])
  PROVE  /\ n \in Nodes /\ s \in Slots /\ nds[n].slot[s] \in Rest(ix)
         /\ ix[nds[n].slot[s]] = [node |-> n, slot |-> s]
<1>1. n \in Nodes /\ s \in Slots /\ q[n][s] <= nds[n].size
  BY DEF Walkable, NodesOK, Occupied
<1>2. NodeIs(nds[n], q[n], r[n])
  BY <1>1 DEF Walkable, NodesOK
<1>3. nds[n].slot[s] # NoOrder /\ nds[n].slot[s] \in Ids
  BY <1>1, <1>2 DEF NodeIs
<1>4. ix[nds[n].slot[s]] = [node |-> n, slot |-> s]
  BY <1>1, <1>3 DEF Walkable, PlacesOK
<1>5. ix[nds[n].slot[s]] # NoLoc
  BY <1>1, <1>4, NodesCount DEF NoLoc
<1> QED BY <1>1, <1>3, <1>4, <1>5 DEF Rest

LEMMA RestIs ==
  ASSUME NEW nds, NEW nx, NEW pv, NEW ch, NEW L, NEW ix, NEW q, NEW r, NEW cp, NEW rk,
         Walkable(nds, nx, pv, ch, L, ix, q, r, cp, rk), NEW x \in Rest(ix)
  PROVE  /\ x \in Ids /\ ix[x].node \in L
         /\ ix[x].slot \in Occupied(nds[ix[x].node], q[ix[x].node])
         /\ ix[x] = [node |-> ix[x].node, slot |-> ix[x].slot]
         /\ nds[ix[x].node].slot[ix[x].slot] = x
<1>1. x \in Ids /\ ix[x] # NoLoc /\ ix[x] \in Locs
  BY DEF Walkable, PlacesOK, Rest
<1>2. /\ ix[x].node \in L /\ ix[x].slot \in Slots
      /\ nds[ix[x].node].slot[ix[x].slot] = x
  BY <1>1 DEF Walkable, PlacesOK
<1>3. ix[x].node \in Nodes
  BY <1>2 DEF Walkable, NodesOK
<1>4. NodeIs(nds[ix[x].node], q[ix[x].node], r[ix[x].node])
  BY <1>3 DEF Walkable, NodesOK
<1>5. x # NoOrder
  BY <1>1, NA
<1>6. q[ix[x].node][ix[x].slot] <= nds[ix[x].node].size
  BY <1>2, <1>4, <1>5 DEF NodeIs
<1>7. ix[x] = [node |-> ix[x].node, slot |-> ix[x].slot]
  BY <1>1 DEF Locs
<1> QED BY <1>1, <1>2, <1>6, <1>7 DEF Occupied

\* The rank of the order in a slot is that of the node first, and inside a node
\* that of the slot.
LEMMA RanksFollow ==
  ASSUME NEW nds, NEW nx, NEW pv, NEW ch, NEW L, NEW ix, NEW q, NEW r, NEW cp, NEW rk,
         Walkable(nds, nx, pv, ch, L, ix, q, r, cp, rk),
         NEW m \in L, NEW s \in Occupied(nds[m], q[m]),
         NEW n \in L, NEW t \in Occupied(nds[n], q[n]),
         cp[m] < cp[n] \/ (m = n /\ q[m][s] < q[n][t])
  PROVE  rk[nds[m].slot[s]] < rk[nds[n].slot[t]]
<1> DEFINE x == nds[m].slot[s]
           y == nds[n].slot[t]
<1>1. /\ x \in Rest(ix) /\ ix[x] = [node |-> m, slot |-> s]
      /\ y \in Rest(ix) /\ ix[y] = [node |-> n, slot |-> t]
  BY OccupiedIs
<1> HIDE DEF x, y
<1>2. Ahead(ix, q, cp, x, ix[y].node, q[ix[y].node][ix[y].slot])
  BY <1>1 DEF Ahead
<1>3. rk[x] < rk[y]
  BY <1>1, <1>2 DEF Walkable, RanksOK, Rest
<1> QED BY <1>3 DEF x, y

\* The walk of the definition WalkOver, entry[loc] for Entry(loc).
WalkAlong(nds, nx, ch, entry) ==
  Along([n \in Nodes |->
           Along([s \in Slots |-> <<entry[[node |-> n, slot |-> s]]>>],
                 nds[n].next, nds[n].head, N + 1)],
        nx, ch, Cardinality(Nodes) + 1)

\* It meets every order once, in the order of the ranks.
LEMMA WalkEnumerates ==
  ASSUME NEW nds, NEW nx, NEW pv, NEW ch, NEW L, NEW ix, NEW q, NEW r, NEW cp, NEW rk,
         Walkable(nds, nx, pv, ch, L, ix, q, r, cp, rk),
         NEW entry, NEW rank,
         \A x \in Rest(ix) : rank[entry[ix[x]]] = rk[x]
  PROVE  Enumerates(WalkAlong(nds, nx, ch, entry),
                    {entry[ix[x]] : x \in Rest(ix)}, rank)
<1> DEFINE in(n) == [s \in Slots |-> <<entry[[node |-> n, slot |-> s]]>>]
           visit == [n \in Nodes |-> Along(in(n), nds[n].next, nds[n].head, N + 1)]
           one(n) == [s \in Slots |-> {entry[[node |-> n, slot |-> s]]}]
           items == [n \in Nodes |-> Items(one(n), Occupied(nds[n], q[n]))]
<1>1. L \in SUBSET Nodes /\ rk \in [Ids -> Nat]
  BY DEF Walkable, NodesOK, RanksOK
<1>2. ASSUME NEW n \in L, NEW s \in Occupied(nds[n], q[n])
      PROVE  /\ rank[entry[[node |-> n, slot |-> s]]] = rk[nds[n].slot[s]]
             /\ rk[nds[n].slot[s]] \in Int
  <2>1. /\ nds[n].slot[s] \in Rest(ix)
        /\ ix[nds[n].slot[s]] = [node |-> n, slot |-> s]
    BY OccupiedIs
  <2>2. nds[n].slot[s] \in Ids
    BY <2>1 DEF Rest
  <2> QED BY <2>1, <2>2, <1>1
<1>3. ASSUME NEW n \in L PROVE Enumerates(visit[n], items[n], rank)
  <2> DEFINE S == Occupied(nds[n], q[n])
  <2>1. n \in Nodes
    BY <1>1
  <2>2. NodeIs(nds[n], q[n], r[n])
    BY <2>1 DEF Walkable, NodesOK
  <2>3. Threads(nds[n].next, nds[n].head, S, q[n])
    BY <2>2, NodeThreads
  <2>4. S \in SUBSET Slots
    BY DEF Occupied
  <2>5. Visits(in(n), S, q[n], one(n), rank)
    <3>1. ASSUME NEW s \in S PROVE Enumerates(in(n)[s], one(n)[s], rank)
      <4>1. rank[entry[[node |-> n, slot |-> s]]] \in Int
        BY <1>2
      <4>2. Enumerates(<<entry[[node |-> n, slot |-> s]]>>,
                       {entry[[node |-> n, slot |-> s]]}, rank)
        BY <4>1, EnumOne
      <4> QED BY <4>2, <2>4
    <3>2. ASSUME NEW s \in S, NEW t \in S, q[n][s] < q[n][t],
                 NEW u \in one(n)[s], NEW w \in one(n)[t]
          PROVE  rank[u] < rank[w]
      <4>1. u = entry[[node |-> n, slot |-> s]] /\ w = entry[[node |-> n, slot |-> t]]
        BY <2>4
      <4>2. rk[nds[n].slot[s]] < rk[nds[n].slot[t]]
        BY <3>2, RanksFollow
      <4> QED BY <4>1, <4>2, <1>2
    <3> HIDE DEF in, one, S
    <3> QED BY <3>1, <3>2 DEF Visits
  <2>6. Cardinality(S) <= N + 1 /\ N + 1 \in Nat
    BY <2>4, SlotsCount, NA
  <2> HIDE DEF in, one, S
  <2>7. Enumerates(Along(in(n), nds[n].next, nds[n].head, N + 1), Items(one(n), S), rank)
    BY <2>3, <2>5, <2>6, AlongEnumerates
  <2> QED BY <2>7, <2>1 DEF S
<1>4. ASSUME NEW n \in L, NEW u \in items[n]
      PROVE  \E s \in Occupied(nds[n], q[n]) : u = entry[[node |-> n, slot |-> s]]
  <2>1. Occupied(nds[n], q[n]) \in SUBSET Slots /\ n \in Nodes
    BY <1>1 DEF Occupied
  <2>2. u \in Items(one(n), Occupied(nds[n], q[n]))
    BY <2>1
  <2> QED BY <2>1, <2>2 DEF Items
<1>5. ASSUME NEW n \in L, NEW s \in Occupied(nds[n], q[n])
      PROVE  entry[[node |-> n, slot |-> s]] \in items[n]
  <2>1. Occupied(nds[n], q[n]) \in SUBSET Slots /\ n \in Nodes
    BY <1>1 DEF Occupied
  <2>2. entry[[node |-> n, slot |-> s]] \in one(n)[s]
    BY <2>1
  <2> HIDE DEF one
  <2> QED BY <2>1, <2>2 DEF Items
<1>6. Visits(visit, L, cp, items, rank)
  <2>1. ASSUME NEW m \in L, NEW n \in L, cp[m] < cp[n],
               NEW u \in items[m], NEW w \in items[n]
        PROVE  rank[u] < rank[w]
    <3>1. PICK s \in Occupied(nds[m], q[m]) : u = entry[[node |-> m, slot |-> s]]
      BY <1>4
    <3>2. PICK t \in Occupied(nds[n], q[n]) : w = entry[[node |-> n, slot |-> t]]
      BY <1>4
    <3>3. rk[nds[m].slot[s]] < rk[nds[n].slot[t]]
      BY <2>1, RanksFollow
    <3> QED BY <3>1, <3>2, <3>3, <1>2
  <2> HIDE DEF visit, items
  <2> QED BY <2>1, <1>3 DEF Visits
<1>7. Threads(nx, ch, L, cp)
  BY <1>1, ChainThreads DEF Walkable
<1>8. Cardinality(L) <= Cardinality(Nodes) + 1 /\ Cardinality(Nodes) + 1 \in Nat
  BY <1>1, NodesCount
<1>9. Items(items, L) = {entry[ix[x]] : x \in Rest(ix)}
  <2>1. ASSUME NEW n \in L, NEW u \in items[n] PROVE \E x \in Rest(ix) : u = entry[ix[x]]
    <3>1. PICK s \in Occupied(nds[n], q[n]) : u = entry[[node |-> n, slot |-> s]]
      BY <1>4
    <3>2. /\ nds[n].slot[s] \in Rest(ix)
          /\ ix[nds[n].slot[s]] = [node |-> n, slot |-> s]
      BY OccupiedIs
    <3> QED BY <3>1, <3>2
  <2>2. ASSUME NEW x \in Rest(ix) PROVE \E n \in L : entry[ix[x]] \in items[n]
    <3>1. /\ ix[x].node \in L
          /\ ix[x].slot \in Occupied(nds[ix[x].node], q[ix[x].node])
          /\ ix[x] = [node |-> ix[x].node, slot |-> ix[x].slot]
      BY RestIs
    <3>2. entry[[node |-> ix[x].node, slot |-> ix[x].slot]] \in items[ix[x].node]
      BY <3>1, <1>5
    <3> HIDE DEF items
    <3> QED BY <3>1, <3>2
  <2> HIDE DEF items
  <2> QED BY <2>1, <2>2 DEF Items
<1> HIDE DEF visit, items
<1>10. Enumerates(Along(visit, nx, ch, Cardinality(Nodes) + 1), Items(items, L), rank)
  BY <1>6, <1>7, <1>8, AlongEnumerates
<1> QED BY <1>9, <1>10 DEF WalkAlong, visit

LEMMA SoundWalkable ==
  ASSUME NEW q, NEW r, NEW cp, NEW rk, Sound(q, r, cp, rk)
  PROVE  Walkable(node, nextNode, prevNode, chainHead, live, index, q, r, cp, rk)
BY DEF Sound, Walkable

\* The walk over the places meets those of all orders, in the order of the
\* ranks.
LEMMA LocationsAre ==
  ASSUME NEW q, NEW r, NEW cp, NEW rk, Sound(q, r, cp, rk)
  PROVE  /\ Len(Locations) \in Nat /\ DOMAIN Locations = 1 .. Len(Locations)
         /\ \A i \in DOMAIN Locations :
              /\ At(Locations[i]) \in Rest(index)
              /\ index[At(Locations[i])] = Locations[i]
         /\ \A x \in Rest(index) :
              /\ At(index[x]) = x /\ rk[x] \in Int
              /\ \E i \in DOMAIN Locations : Locations[i] = index[x]
         /\ \A i, j \in DOMAIN Locations :
              i < j <=> rk[At(Locations[i])] < rk[At(Locations[j])]
<1> DEFINE entry == [l \in Locs |-> l]
           rank == [l \in Locs |-> rk[At(l)]]
           w == WalkAlong(node, nextNode, chainHead, entry)
<1>1. Walkable(node, nextNode, prevNode, chainHead, live, index, q, r, cp, rk)
  BY SoundWalkable
<1>2. /\ index \in [Ids -> Locs] /\ rk \in [Ids -> Nat]
      /\ \A x \in Rest(index) : x \in Ids /\ At(index[x]) = x
  BY SoundParts, <1>1, RestIs DEF At, Rest
<1>3. \A x \in Rest(index) : rank[entry[index[x]]] = rk[x] /\ entry[index[x]] = index[x]
  BY <1>2
<1> HIDE DEF rank
<1>4. Locations = w
  <2>1. \A n \in Nodes : \A s \in Slots : [node |-> n, slot |-> s] \in Locs
    BY DEF Locs
  <2>2. \A n \in Nodes : \A s \in Slots :
          entry[[node |-> n, slot |-> s]] = [node |-> n, slot |-> s]
    BY <2>1
  <2> HIDE DEF entry
  <2>3. ASSUME NEW n \in Nodes
        PROVE  [s \in Slots |-> <<entry[[node |-> n, slot |-> s]]>>]
                 = [s \in Slots |-> <<[node |-> n, slot |-> s]>>]
    BY <2>2
  <2>4. [n \in Nodes |->
           Along([s \in Slots |-> <<entry[[node |-> n, slot |-> s]]>>],
                 node[n].next, node[n].head, N + 1)]
          = [n \in Nodes |->
               Along([s \in Slots |-> <<[node |-> n, slot |-> s]>>],
                     node[n].next, node[n].head, N + 1)]
    BY <2>3
  <2> QED BY <2>4 DEF Locations, WalkOver, InNode, WalkAlong
<1> HIDE DEF entry, w
<1>5. Enumerates(w, {entry[index[x]] : x \in Rest(index)}, rank)
  BY <1>1, <1>3, WalkEnumerates DEF w
<1>6. {entry[index[x]] : x \in Rest(index)} = {index[x] : x \in Rest(index)}
  BY <1>3
<1>7. /\ w \in Seq({index[x] : x \in Rest(index)})
      /\ \A x \in Rest(index) : \E i \in 1 .. Len(w) : w[i] = index[x]
      /\ \A i, j \in 1 .. Len(w) : i < j => rank[w[i]] < rank[w[j]]
  BY <1>5, <1>6 DEF Enumerates
<1>8. Len(w) \in Nat /\ DOMAIN w = 1 .. Len(w)
  BY <1>7, LenProperties
<1>9. \A i \in 1 .. Len(w) : \E x \in Rest(index) : w[i] = index[x]
  BY <1>7, <1>8
<1>10. \A i \in 1 .. Len(w) : /\ At(w[i]) \in Rest(index) /\ index[At(w[i])] = w[i]
                              /\ rank[w[i]] = rk[At(w[i])] /\ rk[At(w[i])] \in Int
  <2> TAKE i \in 1 .. Len(w)
  <2>1. PICK x \in Rest(index) : w[i] = index[x]
    BY <1>9
  <2>2. At(w[i]) = x
    BY <2>1, <1>2
  <2> QED BY <2>1, <2>2, <1>2, <1>3
<1>11. \A i, j \in 1 .. Len(w) : i < j <=> rk[At(w[i])] < rk[At(w[j])]
  <2> TAKE i, j \in 1 .. Len(w)
  <2>1. i < j => rk[At(w[i])] < rk[At(w[j])]
    BY <1>7, <1>10
  <2>2. j < i => rk[At(w[j])] < rk[At(w[i])]
    BY <1>7, <1>10
  <2>3. rk[At(w[i])] \in Int /\ rk[At(w[j])] \in Int
    BY <1>10
  <2>4. CASE i = j
    BY <2>3, <2>4
  <2>5. CASE i # j
    <3>1. i < j \/ j < i
      BY <2>5
    <3> QED BY <3>1, <2>1, <2>2, <2>3
  <2> QED BY <2>4, <2>5
<1> QED BY <1>2, <1>4, <1>7, <1>8, <1>10, <1>11

\* Between calls GlobalNext and GlobalPrev lead along that walk.
LEMMA InvSweep == ASSUME IInv PROVE SweepExact
<1>1. PICK q, r, cp, rk : Sound(q, r, cp, rk) /\ CascadeOK(cp, rk)
  BY InvIs
<1> DEFINE locs == Locations
<1>2. SUFFICES ASSUME pc = "idle", NEW i \in DOMAIN locs
               PROVE  /\ GlobalNext(locs[i]) = IF i = Len(locs) THEN NoLoc ELSE locs[i + 1]
                      /\ GlobalPrev(locs[i]) = IF i = 1 THEN NoLoc ELSE locs[i - 1]
  BY DEF SweepExact
<1>3. /\ Len(locs) \in Nat /\ DOMAIN locs = 1 .. Len(locs)
      /\ \A j \in DOMAIN locs : At(locs[j]) \in Rest(index) /\ index[At(locs[j])] = locs[j]
      /\ \A x \in Rest(index) :
           /\ At(index[x]) = x /\ rk[x] \in Int
           /\ \E j \in DOMAIN locs : locs[j] = index[x]
      /\ \A j, k \in DOMAIN locs : j < k <=> rk[At(locs[j])] < rk[At(locs[k])]
  BY <1>1, LocationsAre
<1>4. \A n \in live : ~ IsEmpty(node[n])
  BY <1>1, <1>2 DEF CascadeOK, IdleOK
<1> HIDE DEF locs
<1> DEFINE at(j) == At(locs[j])
<1>5. \A j \in DOMAIN locs : at(j) \in Ids /\ index[at(j)] # NoLoc /\ rk[at(j)] \in Int
  BY <1>3 DEF Rest
<1>6. \A y \in Ids : index[y] # NoLoc =>
        \E j \in DOMAIN locs : y = at(j) /\ index[y] = locs[j]
  <2> TAKE y \in Ids
  <2> HAVE index[y] # NoLoc
  <2>1. y \in Rest(index)
    BY DEF Rest
  <2>2. PICK j \in DOMAIN locs : locs[j] = index[y]
    BY <2>1, <1>3
  <2> QED BY <2>1, <2>2, <1>3
<1>7. locs[i] = index[at(i)]
  BY <1>3
<1>8. \A j, k \in DOMAIN locs : j < k <=> rk[at(j)] < rk[at(k)]
  BY <1>3
<1> HIDE DEF at
<1>9. GlobalNext(locs[i]) = IF i = Len(locs) THEN NoLoc ELSE locs[i + 1]
  <2>1. IsNext(index, rk, at(i), GlobalNext(locs[i]))
    BY <1>1, <1>4, <1>5, <1>7, GlobalNextIs DEF Sound
  <2>2. CASE i = Len(locs)
    <3>1. \A j \in DOMAIN locs : ~ (i < j)
      BY <2>2, <1>3
    <3>2. \A y \in Ids : index[y] # NoLoc => rk[y] <= rk[at(i)]
      BY <3>1, <1>5, <1>6, <1>8
    <3> QED BY <3>2, <2>1, <2>2 DEF IsNext
  <2>3. CASE i # Len(locs)
    <3>1. i + 1 \in DOMAIN locs /\ i < i + 1
      BY <2>3, <1>3
    <3>2. rk[at(i)] < rk[at(i + 1)]
      BY <3>1, <1>8
    <3>3. PICK y \in Ids : /\ index[y] # NoLoc /\ GlobalNext(locs[i]) = index[y]
                           /\ rk[at(i)] < rk[y]
                           /\ \A z \in Ids : index[z] # NoLoc =>
                                rk[z] <= rk[at(i)] \/ rk[y] <= rk[z]
      BY <3>1, <3>2, <2>1, <1>5 DEF IsNext
    <3>4. PICK j \in DOMAIN locs : y = at(j) /\ index[y] = locs[j]
      BY <3>3, <1>6
    <3>5. i < j
      BY <3>3, <3>4, <1>8
    <3>6. ~ (i + 1 < j)
      <4>1. rk[at(j)] <= rk[at(i + 1)]
        BY <3>1, <3>2, <3>3, <3>4, <1>5
      <4> QED BY <4>1, <3>1, <1>5, <1>8
    <3>7. j = i + 1
      BY <3>5, <3>6, <1>3
    <3> QED BY <3>3, <3>4, <3>7, <2>3
  <2> QED BY <2>2, <2>3
<1>10. GlobalPrev(locs[i]) = IF i = 1 THEN NoLoc ELSE locs[i - 1]
  <2>1. IsPrev(index, rk, at(i), GlobalPrev(locs[i]))
    BY <1>1, <1>4, <1>5, <1>7, GlobalPrevIs DEF Sound
  <2>2. CASE i = 1
    <3>1. \A j \in DOMAIN locs : ~ (j < i)
      BY <2>2, <1>3
    <3>2. \A y \in Ids : index[y] # NoLoc => rk[at(i)] <= rk[y]
      BY <3>1, <1>5, <1>6, <1>8
    <3> QED BY <3>2, <2>1, <2>2 DEF IsPrev
  <2>3. CASE i # 1
    <3>1. i - 1 \in DOMAIN locs /\ i - 1 < i
      BY <2>3, <1>3
    <3>2. rk[at(i - 1)] < rk[at(i)]
      BY <3>1, <1>8
    <3>3. PICK y \in Ids : /\ index[y] # NoLoc /\ GlobalPrev(locs[i]) = index[y]
                           /\ rk[y] < rk[at(i)]
                           /\ \A z \in Ids : index[z] # NoLoc =>
                                rk[at(i)] <= rk[z] \/ rk[z] <= rk[y]
      BY <3>1, <3>2, <2>1, <1>5 DEF IsPrev
    <3>4. PICK j \in DOMAIN locs : y = at(j) /\ index[y] = locs[j]
      BY <3>3, <1>6
    <3>5. j < i
      BY <3>3, <3>4, <1>8
    <3>6. ~ (j < i - 1)
      <4>1. rk[at(i - 1)] <= rk[at(j)]
        BY <3>1, <3>2, <3>3, <3>4, <1>5
      <4> QED BY <4>1, <3>1, <1>5, <1>8
    <3>7. j = i - 1
      BY <3>5, <3>6, <1>3
    <3> QED BY <3>3, <3>4, <3>7, <2>3
  <2> QED BY <2>2, <2>3
<1> QED BY <1>9, <1>10

\* The sweep of the matching loop: from any order global_next leads to the one
\* next in priority, and to nothing after the last; global_prev is its inverse.
THEOREM SweepVisitsAll == Spec => []SweepExact
  BY Invariant, InvSweep, PTL

\* A sweep may erase under way: the location of the next maker stays good, and
\* every walk afterwards meets the orders that are left.
THEOREM SweepStaysSafe == Spec => SweepSafe
  BY SweepVisitsAll, PlacesStay DEF SweepSafe

\* What an enumeration says of the set.
LEMMA EnumFacts ==
  ASSUME NEW s, NEW S, NEW key, Enumerates(s, S, key), \A x \in S : key[x] \in Int
  PROVE  /\ Len(s) \in Nat /\ DOMAIN s = 1 .. Len(s) /\ ToSet(s) = S
         /\ \A i \in DOMAIN s : s[i] \in S
         /\ \A i, j \in DOMAIN s : i < j <=> key[s[i]] < key[s[j]]
         /\ \A i, j \in DOMAIN s : s[i] = s[j] => i = j
         /\ IsFiniteSet(S) /\ Cardinality(S) = Len(s)
<1>1. Len(s) \in Nat /\ DOMAIN s = 1 .. Len(s) /\ \A i \in DOMAIN s : s[i] \in S
  BY LenProperties DEF Enumerates
<1>2. ToSet(s) = S
  BY <1>1 DEF Enumerates, ToSet
<1>3. \A i, j \in DOMAIN s : i < j => key[s[i]] < key[s[j]]
  BY <1>1 DEF Enumerates
<1>4. \A i, j \in DOMAIN s : s[i] = s[j] => i = j
  <2> TAKE i, j \in DOMAIN s
  <2> HAVE s[i] = s[j]
  <2>1. key[s[i]] \in Int
    BY <1>1
  <2>2. ~ (i < j) /\ ~ (j < i)
    BY <2>1, <1>3
  <2> QED BY <2>2, <1>1
<1>5. \A i, j \in DOMAIN s : key[s[i]] < key[s[j]] => i < j
  <2> TAKE i, j \in DOMAIN s
  <2> HAVE key[s[i]] < key[s[j]]
  <2>1. key[s[i]] \in Int /\ key[s[j]] \in Int
    BY <1>1
  <2>2. ~ (j < i) /\ i # j
    BY <2>1, <1>3
  <2> QED BY <2>2, <1>1
<1>6. s \in Bijection(1 .. Len(s), S)
  <2>1. s \in [1 .. Len(s) -> S]
    BY <1>1 DEF Enumerates
  <2>2. \A i, j \in 1 .. Len(s) : s[i] = s[j] => i = j
    BY <1>1, <1>4
  <2>3. \A x \in S : \E i \in 1 .. Len(s) : s[i] = x
    BY DEF Enumerates
  <2> QED BY <2>1, <2>2, <2>3 DEF Bijection, Injection, Surjection, IsInjective
<1>7. ExistsBijection(1 .. Len(s), S)
  BY <1>6 DEF ExistsBijection
<1>8. IsFiniteSet(S) /\ Cardinality(S) = Len(s)
  <2>1. IsFiniteSet(1 .. Len(s)) /\ Cardinality(1 .. Len(s)) = Len(s)
    <3>1. 1 \in Int /\ Len(s) \in Int
      BY <1>1
    <3>2. IsFiniteSet(1 .. Len(s))
          /\ Cardinality(1 .. Len(s)) = IF 1 > Len(s) THEN 0 ELSE Len(s) - 1 + 1
      BY <3>1, FS_Interval
    <3> QED BY <3>2, <1>1
  <2> QED BY <2>1, <1>7, FS_Bijection
<1> QED BY <1>1, <1>2, <1>3, <1>4, <1>5, <1>8

LEMMA SeqIs ==
  ASSUME NEW S, NEW k \in Nat, NEW g \in [1 .. k -> S]
  PROVE  g \in Seq(S) /\ Len(g) = k
OBVIOUS

\* The walks over one node.
LEMMA NodeWalks ==
  ASSUME NEW nd, NEW q, NEW r, NodeIs(nd, q, r)
  PROVE  /\ NodeOrder(nd) = [i \in 1 .. nd.size |-> r[i]]
         /\ NodeBack(nd) = [i \in 1 .. nd.size |-> r[nd.size - i + 1]]
         /\ FreeOrder(nd) = [i \in 1 .. N - nd.size |-> r[nd.size + i]]
<1>1. /\ q \in [Slots -> 1 .. N] /\ r \in [1 .. N -> Slots]
      /\ \A s \in Slots : r[q[s]] = s
      /\ \A i \in 1 .. N : q[r[i]] = i
      /\ nd.size \in 0 .. N /\ N \in Nat \ {0}
  BY NA DEF NodeIs, Perm
<1>2. \A s \in Slots : q[s] \in 1 .. N /\ Back(q)[s] = 0 - q[s] /\ Back(q)[s] \in Int
  BY <1>1 DEF Back
<1>3. \A i \in 1 .. N : r[i] \in Slots /\ q[r[i]] = i
  BY <1>1
<1>4. \A s, t \in Slots : q[s] = q[t] \/ Back(q)[s] = Back(q)[t] => s = t
  <2> TAKE s, t \in Slots
  <2>1. Back(q)[s] = Back(q)[t] => q[s] = q[t]
    BY <1>2
  <2>2. q[s] = q[t] => s = t
    BY <1>1
  <2> QED BY <2>1, <2>2
<1> DEFINE S == Occupied(nd, q)
           V == Vacant(nd, q)
<1>5. /\ Threads(nd.next, nd.head, S, q)
      /\ Threads(nd.prev, nd.tail, S, Back(q))
      /\ Threads(nd.next, nd.free, V, q)
  BY NodeThreads
<1>6. /\ S \in SUBSET Slots /\ V \in SUBSET Slots /\ N + 1 \in Nat
      /\ Cardinality(S) <= N + 1 /\ Cardinality(V) <= N + 1
  BY SlotsCount, NA DEF Occupied, Vacant
<1>7. /\ Enumerates(NodeOrder(nd), S, q)
      /\ Enumerates(NodeBack(nd), S, Back(q))
      /\ Enumerates(FreeOrder(nd), V, q)
  BY <1>5, <1>6, FollowEnumerates DEF NodeOrder, NodeBack, FreeOrder
<1> DEFINE o == [i \in 1 .. nd.size |-> r[i]]
           b == [i \in 1 .. nd.size |-> r[nd.size - i + 1]]
           f == [i \in 1 .. N - nd.size |-> r[nd.size + i]]
<1>8. Enumerates(o, S, q)
  <2>1. \A i \in 1 .. nd.size : i \in 1 .. N /\ o[i] = r[i] /\ q[o[i]] = i /\ o[i] \in S
    BY <1>1, <1>3 DEF Occupied
  <2>2. \A s \in S : q[s] \in 1 .. nd.size /\ o[q[s]] = s
    BY <1>1, <1>2 DEF Occupied
  <2>3. o \in Seq(S) /\ Len(o) = nd.size
    <3>1. nd.size \in Nat
      BY <1>1
    <3> HIDE DEF S
    <3>2. o \in [1 .. nd.size -> S]
      BY <2>1
    <3> HIDE DEF o
    <3> QED BY <3>1, <3>2, SeqIs
  <2> HIDE DEF o, S
  <2> QED BY <2>1, <2>2, <2>3 DEF Enumerates
<1>9. Enumerates(b, S, Back(q))
  <2>1. \A i \in 1 .. nd.size : /\ nd.size - i + 1 \in 1 .. N /\ nd.size - i + 1 <= nd.size
                                /\ b[i] = r[nd.size - i + 1]
    BY <1>1
  <2>2. \A i \in 1 .. nd.size : b[i] \in Slots /\ q[b[i]] = nd.size - i + 1
    BY <2>1, <1>3
  <2>3. \A i \in 1 .. nd.size : b[i] \in S /\ Back(q)[b[i]] = 0 - (nd.size - i + 1)
    BY <2>1, <2>2, <1>2 DEF Occupied
  <2>4. ASSUME NEW s \in S PROVE \E i \in 1 .. nd.size : b[i] = s
    <3>1. s \in Slots /\ q[s] \in 1 .. nd.size
      BY <1>1, <1>2 DEF Occupied
    <3>2. /\ nd.size - q[s] + 1 \in 1 .. nd.size
          /\ nd.size - (nd.size - q[s] + 1) + 1 = q[s]
      BY <3>1, <1>1
    <3>3. b[nd.size - q[s] + 1] = r[q[s]]
      BY <3>2
    <3> QED BY <3>1, <3>2, <3>3, <1>1
  <2>5. b \in Seq(S) /\ Len(b) = nd.size
    <3>1. nd.size \in Nat
      BY <1>1
    <3> HIDE DEF S
    <3>2. b \in [1 .. nd.size -> S]
      BY <2>3
    <3> HIDE DEF b
    <3> QED BY <3>1, <3>2, SeqIs
  <2> HIDE DEF b, S
  <2>6. \A i, j \in 1 .. nd.size : i < j => Back(q)[b[i]] < Back(q)[b[j]]
    <3> TAKE i, j \in 1 .. nd.size
    <3>1. Back(q)[b[i]] = 0 - (nd.size - i + 1) /\ Back(q)[b[j]] = 0 - (nd.size - j + 1)
      BY <2>3
    <3>2. i < j => 0 - (nd.size - i + 1) < 0 - (nd.size - j + 1)
      BY <1>1
    <3> QED BY <3>1, <3>2
  <2> QED BY <2>4, <2>5, <2>6 DEF Enumerates
<1>10. Enumerates(f, V, q)
  <2>1. \A i \in 1 .. N - nd.size : /\ nd.size + i \in 1 .. N /\ nd.size + i > nd.size
                                    /\ f[i] = r[nd.size + i]
    BY <1>1
  <2>2. \A i \in 1 .. N - nd.size : f[i] \in Slots /\ q[f[i]] = nd.size + i
    BY <2>1, <1>3
  <2>3. \A i \in 1 .. N - nd.size : f[i] \in V
    BY <2>1, <2>2 DEF Vacant
  <2>4. ASSUME NEW s \in V PROVE \E i \in 1 .. N - nd.size : f[i] = s
    <3>1. s \in Slots /\ q[s] \in nd.size + 1 .. N
      BY <1>1, <1>2 DEF Vacant
    <3>2. q[s] - nd.size \in 1 .. N - nd.size /\ nd.size + (q[s] - nd.size) = q[s]
      BY <3>1, <1>1
    <3>3. f[q[s] - nd.size] = r[q[s]]
      BY <3>2
    <3> QED BY <3>1, <3>2, <3>3, <1>1
  <2>5. f \in Seq(V) /\ Len(f) = N - nd.size
    <3>1. N - nd.size \in Nat
      BY <1>1
    <3> HIDE DEF V
    <3>2. f \in [1 .. N - nd.size -> V]
      BY <2>3
    <3> HIDE DEF f
    <3> QED BY <3>1, <3>2, SeqIs
  <2> HIDE DEF f, V
  <2>6. \A i, j \in 1 .. N - nd.size : i < j => q[f[i]] < q[f[j]]
    BY <2>2, <1>1
  <2> QED BY <2>4, <2>5, <2>6 DEF Enumerates
<1> HIDE DEF o, b, f, S, V
<1>11. NodeOrder(nd) = o /\ NodeBack(nd) = b /\ FreeOrder(nd) = f
  <2>1. /\ \A s \in S : q[s] \in Int /\ Back(q)[s] \in Int
        /\ \A s, t \in S : q[s] = q[t] \/ Back(q)[s] = Back(q)[t] => s = t
        /\ \A s \in V : q[s] \in Int
        /\ \A s, t \in V : q[s] = q[t] => s = t
    BY <1>2, <1>4, <1>6
  <2>2. NodeOrder(nd) = o
    BY <2>1, <1>7, <1>8, EnumUnique
  <2>3. NodeBack(nd) = b
    BY <2>1, <1>7, <1>9, EnumUnique
  <2>4. FreeOrder(nd) = f
    BY <2>1, <1>7, <1>10, EnumUnique
  <2> QED BY <2>2, <2>3, <2>4
<1> QED BY <1>11 DEF o, b, f

LEMMA InvConserves == ASSUME IInv PROVE SlotsConserved
<1>1. PICK q, r, cp, rk : Sound(q, r, cp, rk) /\ CascadeOK(cp, rk)
  BY InvIs
<1>2. /\ LinksOK(nextNode, prevNode, chainHead, live, cp)
      /\ live \in SUBSET Nodes /\ \A n \in live : NodeIs(node[n], q[n], r[n])
  BY <1>1, SoundParts
<1>3. ASSUME NEW n \in live
      PROVE  LET nd == node[n] IN
             /\ Len(NodeOrder(nd)) = nd.size /\ Len(FreeOrder(nd)) = N - nd.size
             /\ NodeBack(nd) = Reverse(NodeOrder(nd))
             /\ ToSet(NodeOrder(nd)) = {s \in Slots : nd.slot[s] # NoOrder}
             /\ ToSet(FreeOrder(nd)) = {s \in Slots : nd.slot[s] = NoOrder}
             /\ pc = "idle" => ~IsEmpty(nd)
  <2> DEFINE nd == node[n]
             p == q[n]
             t == r[n]
  <2>0. NodeIs(nd, p, t)
    BY <1>2
  <2>00. pc = "idle" => ~IsEmpty(nd)
    BY <1>1 DEF CascadeOK, IdleOK
  <2> HIDE DEF nd, p, t
  <2>1. /\ p \in [Slots -> 1 .. N] /\ t \in [1 .. N -> Slots]
        /\ \A s \in Slots : t[p[s]] = s
        /\ \A i \in 1 .. N : p[t[i]] = i
        /\ nd.size \in 0 .. N /\ N \in Nat \ {0}
        /\ \A s \in Slots : nd.slot[s] # NoOrder <=> p[s] <= nd.size
    BY <2>0, NA DEF NodeIs, Perm
  <2>2. /\ NodeOrder(nd) = [i \in 1 .. nd.size |-> t[i]]
        /\ NodeBack(nd) = [i \in 1 .. nd.size |-> t[nd.size - i + 1]]
        /\ FreeOrder(nd) = [i \in 1 .. N - nd.size |-> t[nd.size + i]]
    BY <2>0, NodeWalks
  <2>3. Len(NodeOrder(nd)) = nd.size /\ Len(FreeOrder(nd)) = N - nd.size
    <3>1. nd.size \in Nat /\ N - nd.size \in Nat
      BY <2>1
    <3> QED BY <2>2, <3>1
  <2>4. NodeBack(nd) = Reverse(NodeOrder(nd))
    <3>1. \A i \in 1 .. nd.size : nd.size - i + 1 \in 1 .. nd.size
      BY <2>1
    <3>2. \A i \in 1 .. nd.size :
            NodeOrder(nd)[nd.size - i + 1] = t[nd.size - i + 1]
      BY <3>1, <2>2
    <3> QED BY <3>2, <2>2, <2>3 DEF Reverse
  <2>5. ToSet(NodeOrder(nd)) = {s \in Slots : nd.slot[s] # NoOrder}
    <3>1. ASSUME NEW i \in 1 .. nd.size
          PROVE  t[i] \in Slots /\ nd.slot[t[i]] # NoOrder
      BY <2>1
    <3>2. ASSUME NEW s \in Slots, nd.slot[s] # NoOrder
          PROVE  p[s] \in 1 .. nd.size /\ t[p[s]] = s
      BY <3>2, <2>1
    <3>3. ToSet(NodeOrder(nd)) = {t[i] : i \in 1 .. nd.size}
      BY <2>2 DEF ToSet
    <3> QED BY <3>1, <3>2, <3>3
  <2>6. ToSet(FreeOrder(nd)) = {s \in Slots : nd.slot[s] = NoOrder}
    <3>1. ASSUME NEW i \in 1 .. N - nd.size
          PROVE  t[nd.size + i] \in Slots /\ nd.slot[t[nd.size + i]] = NoOrder
      <4>1. nd.size + i \in 1 .. N /\ ~ (nd.size + i <= nd.size)
        BY <2>1
      <4> QED BY <4>1, <2>1
    <3>2. ASSUME NEW s \in Slots, nd.slot[s] = NoOrder
          PROVE  \E i \in 1 .. N - nd.size : t[nd.size + i] = s
      <4>1. p[s] \in 1 .. N /\ ~ (p[s] <= nd.size)
        BY <3>2, <2>1
      <4>2. p[s] - nd.size \in 1 .. N - nd.size /\ nd.size + (p[s] - nd.size) = p[s]
        BY <4>1, <2>1
      <4>3. t[nd.size + (p[s] - nd.size)] = s
        BY <4>2, <2>1
      <4> QED BY <4>2, <4>3
    <3>3. ToSet(FreeOrder(nd)) = {t[nd.size + i] : i \in 1 .. N - nd.size}
      <4> DEFINE k == N - nd.size
                 f == [i \in 1 .. k |-> t[nd.size + i]]
      <4>1. DOMAIN f = 1 .. k /\ \A i \in 1 .. k : f[i] = t[nd.size + i]
        OBVIOUS
      <4>2. FreeOrder(nd) = f
        BY <2>2
      <4> HIDE DEF f, k
      <4>3. ToSet(FreeOrder(nd)) = {t[nd.size + i] : i \in 1 .. k}
        BY <4>1, <4>2 DEF ToSet
      <4> QED BY <4>3 DEF k
    <3> QED BY <3>1, <3>2, <3>3
  <2> QED BY <2>00, <2>3, <2>4, <2>5, <2>6 DEF nd
<1> DEFINE chain == ChainOrder
<1>4. Enumerates(chain, live, cp)
  BY <1>2, ChainThreads, FollowEnumerates, NodesCount DEF ChainOrder
<1>5. /\ \A n \in live : cp[n] \in Int
      /\ \A m, n \in live : cp[m] = cp[n] => m = n
  BY <1>2 DEF LinksOK
<1> HIDE DEF chain
<1>6. /\ Len(chain) \in Nat /\ DOMAIN chain = 1 .. Len(chain) /\ ToSet(chain) = live
      /\ \A i \in DOMAIN chain : chain[i] \in live
      /\ \A i, j \in DOMAIN chain : i < j <=> cp[chain[i]] < cp[chain[j]]
      /\ Cardinality(live) = Len(chain)
      /\ \A n \in live : \E i \in DOMAIN chain : chain[i] = n
  BY <1>4, <1>5, EnumFacts DEF Enumerates
<1>7. ASSUME NEW i \in DOMAIN chain
      PROVE  prevNode[chain[i]] = IF i = 1 THEN NoNode ELSE chain[i - 1]
  <2> DEFINE n == chain[i]
             m == prevNode[n]
  <2>1. n \in live
    BY <1>6
  <2>2. IF m = NoNode THEN \A l \in live : cp[n] <= cp[l]
        ELSE /\ m \in live /\ cp[m] < cp[n]
             /\ \A l \in live : cp[l] <= cp[m] \/ cp[n] <= cp[l]
    BY <2>1, <1>2 DEF LinksOK
  <2>3. CASE i = 1
    <3>1. ASSUME m # NoNode PROVE FALSE
      <4>1. PICK j \in DOMAIN chain : chain[j] = m
        BY <3>1, <2>2, <1>6
      <4>2. j < i
        BY <4>1, <3>1, <2>2, <1>6
      <4> QED BY <4>2, <2>3, <1>6
    <3> QED BY <3>1, <2>3
  <2>4. CASE i # 1
    <3>1. i - 1 \in DOMAIN chain /\ i - 1 < i
      BY <2>4, <1>6
    <3>2. cp[chain[i - 1]] < cp[n] /\ chain[i - 1] \in live
      BY <3>1, <1>6
    <3>3. m # NoNode
      BY <3>2, <2>1, <2>2, <1>5
    <3>4. PICK j \in DOMAIN chain : chain[j] = m
      BY <3>3, <2>2, <1>6
    <3>5. j < i
      BY <3>4, <3>3, <2>2, <1>6
    <3>6. ~ (j < i - 1)
      <4>1. cp[chain[i - 1]] <= cp[m]
        BY <3>2, <3>3, <2>1, <2>2, <1>5
      <4>2. cp[m] \in Int /\ cp[chain[i - 1]] \in Int
        BY <3>2, <3>3, <2>2, <1>5
      <4> QED BY <4>1, <4>2, <3>1, <3>4, <1>6
    <3>7. j = i - 1
      BY <3>5, <3>6, <1>6
    <3> QED BY <3>4, <3>7, <2>4
  <2> QED BY <2>3, <2>4
<1> QED BY <1>3, <1>6, <1>7 DEF SlotsConserved, chain

LEMMA InvIndexed == ASSUME IInv PROVE IndexExact
<1>1. PICK q, r, cp, rk : Sound(q, r, cp, rk)
  BY InvIs
<1>2. /\ \A i \in DOMAIN Locations :
           /\ At(Locations[i]) \in Rest(index)
           /\ index[At(Locations[i])] = Locations[i]
      /\ \A x \in Rest(index) :
           /\ At(index[x]) = x
           /\ \E i \in DOMAIN Locations : Locations[i] = index[x]
  BY <1>1, LocationsAre
<1>3. Rest(index) = {y \in Ids : index[y] # NoLoc}
  BY DEF Rest
<1>4. ToSet(Locations) = {index[x] : x \in Rest(index)}
  BY <1>2 DEF ToSet
<1> QED BY <1>2, <1>3, <1>4 DEF IndexExact

LEMMA InvEnds == ASSUME IInv PROVE LevelEnds
<1>1. PICK q, r, cp, rk : Sound(q, r, cp, rk)
  BY InvIs
<1> DEFINE locs == Locations
           own(p) == {i \in DOMAIN locs : levelOf[At(locs[i])] = p}
<1>2. /\ Len(locs) \in Nat /\ DOMAIN locs = 1 .. Len(locs)
      /\ \A j \in DOMAIN locs : At(locs[j]) \in Rest(index) /\ index[At(locs[j])] = locs[j]
      /\ \A x \in Rest(index) :
           /\ At(index[x]) = x /\ rk[x] \in Int
           /\ \E j \in DOMAIN locs : locs[j] = index[x]
      /\ \A j, k \in DOMAIN locs : j < k <=> rk[At(locs[j])] < rk[At(locs[k])]
  BY <1>1, LocationsAre
<1> HIDE DEF locs
<1>3. ASSUME NEW p \in Prices
      PROVE  IF own(p) = {} THEN head[p] = NoLoc /\ tail[p] = NoLoc
             ELSE \E f, l \in own(p) : /\ own(p) \subseteq f .. l
                                       /\ head[p] = locs[f] /\ tail[p] = locs[l]
  <2>1. EndsOK(index, levelOf, head, tail, rk, p)
    BY <1>1 DEF Sound, LevelsOK
  <2>2. ASSUME NEW x \in InLevel(index, levelOf, p)
        PROVE  \E j \in own(p) : At(locs[j]) = x /\ locs[j] = index[x] /\ rk[x] \in Int
    <3>1. x \in Rest(index) /\ levelOf[x] = p
      BY DEF InLevel, Rest
    <3>2. PICK j \in DOMAIN locs : locs[j] = index[x]
      BY <3>1, <1>2
    <3> QED BY <3>1, <3>2, <1>2
  <2>3. ASSUME NEW j \in own(p)
        PROVE  At(locs[j]) \in InLevel(index, levelOf, p) /\ j \in 1 .. Len(locs)
    BY <1>2 DEF InLevel, Rest
  <2>4. CASE own(p) = {}
    <3>1. InLevel(index, levelOf, p) = {}
      BY <2>2, <2>4
    <3> QED BY <3>1, <2>1, <2>4 DEF EndsOK
  <2>5. CASE own(p) # {}
    <3>1. InLevel(index, levelOf, p) # {}
      BY <2>3, <2>5
    <3>2. PICK x \in InLevel(index, levelOf, p) :
            head[p] = index[x] /\ \A y \in InLevel(index, levelOf, p) : rk[x] <= rk[y]
      BY <3>1, <2>1 DEF EndsOK
    <3>3. PICK z \in InLevel(index, levelOf, p) :
            tail[p] = index[z] /\ \A y \in InLevel(index, levelOf, p) : rk[y] <= rk[z]
      BY <3>1, <2>1 DEF EndsOK
    <3>4. PICK f \in own(p) : At(locs[f]) = x /\ locs[f] = index[x] /\ rk[x] \in Int
      BY <2>2
    <3>5. PICK l \in own(p) : At(locs[l]) = z /\ locs[l] = index[z] /\ rk[z] \in Int
      BY <2>2
    <3>6. ASSUME NEW j \in own(p) PROVE j \in f .. l
      <4>1. rk[x] <= rk[At(locs[j])] /\ rk[At(locs[j])] <= rk[z]
        BY <2>3, <3>2, <3>3
      <4>2. rk[At(locs[j])] \in Int
        BY <1>2
      <4>3. ~ (j < f) /\ ~ (l < j)
        BY <4>1, <4>2, <3>4, <3>5, <1>2
      <4> QED BY <4>3, <2>3
    <3> QED BY <3>2, <3>3, <3>4, <3>5, <3>6, <2>5
  <2> QED BY <2>4, <2>5
<1> QED BY <1>3 DEF LevelEnds, locs

\* The nodes, the chain, the index and the ends of the levels tell of the same
\* orders in the same places, in every state of every cascade: no order is lost,
\* linked twice or left behind in the index, and no slot or node leaks.
THEOREM ChainAgrees == Spec => []ChainSound
<1>1. IInv => ChainSound
  BY InvConserves, InvIndexed, InvEnds DEF ChainSound
<1> QED BY <1>1, Invariant, PTL

-----------------------------------------------------------------------------
(* The orders as a list.                                                   *)

\* A part of an enumeration.
LEMMA EnumSub ==
  ASSUME NEW s, NEW S, NEW key, Enumerates(s, S, key),
         NEW a \in Nat, NEW b \in Nat, 1 <= a, b <= Len(s)
  PROVE  Enumerates(SubSeq(s, a, b), {s[i] : i \in a .. b}, key)
<1> DEFINE T == {s[i] : i \in a .. b}
           u == SubSeq(s, a, b)
<1>1. /\ u \in Seq(T) /\ Len(u) = (IF a <= b THEN b - a + 1 ELSE 0)
      /\ \A i \in 1 .. b - a + 1 : u[i] = s[a + i - 1]
  <2>1. a \in Int /\ b \in Int /\ \A i \in a .. b : s[i] \in T
    OBVIOUS
  <2> HIDE DEF T
  <2> QED BY <2>1, SubSeqProperties
<1>2. /\ Len(s) \in Nat
      /\ \A i, j \in 1 .. Len(s) : i < j => key[s[i]] < key[s[j]]
  BY LenProperties DEF Enumerates
<1> HIDE DEF u
<1>3. ASSUME NEW x \in T PROVE \E i \in 1 .. Len(u) : u[i] = x
  <2>1. PICK j \in a .. b : x = s[j]
    OBVIOUS
  <2>2. a <= b /\ j - a + 1 \in 1 .. b - a + 1
    BY <2>1
  <2>3. j - a + 1 \in 1 .. Len(u)
    BY <2>2, <1>1
  <2>4. a + (j - a + 1) - 1 = j
    BY <2>1
  <2>5. u[j - a + 1] = x
    BY <2>1, <2>2, <2>4, <1>1
  <2> QED BY <2>3, <2>5
<1>4. ASSUME NEW i \in 1 .. Len(u), NEW j \in 1 .. Len(u), i < j
      PROVE  key[u[i]] < key[u[j]]
  <2>1. i \in 1 .. b - a + 1 /\ j \in 1 .. b - a + 1
    BY <1>1
  <2>2. a + i - 1 \in 1 .. Len(s) /\ a + j - 1 \in 1 .. Len(s)
        /\ a + i - 1 < a + j - 1
    BY <2>1, <1>2, <1>4
  <2> QED BY <2>1, <2>2, <1>1, <1>2
<1> QED BY <1>1, <1>3, <1>4 DEF Enumerates, u

\* An element less: it is taken out of the list.
LEMMA EnumLess ==
  ASSUME NEW s, NEW S, NEW t, NEW key, NEW e \in S,
         Enumerates(s, S, key), Enumerates(t, S \ {e}, key),
         \A x \in S : key[x] \in Int,
         \A x, y \in S : key[x] = key[y] => x = y
  PROVE  \E i \in DOMAIN s : t = RemoveAt(s, i)
<1>1. /\ Len(s) \in Nat /\ DOMAIN s = 1 .. Len(s)
      /\ \A i \in DOMAIN s : s[i] \in S
      /\ \A i, j \in DOMAIN s : i < j <=> key[s[i]] < key[s[j]]
      /\ \A i, j \in DOMAIN s : s[i] = s[j] => i = j
  BY EnumFacts
<1>2. \A x \in S : \E i \in 1 .. Len(s) : s[i] = x
  BY DEF Enumerates
<1>3. PICK i \in 1 .. Len(s) : s[i] = e
  BY <1>2
<1> DEFINE A == {s[j] : j \in 1 .. i - 1}
           B == {s[j] : j \in i + 1 .. Len(s)}
<1>4. /\ 1 \in Nat /\ i - 1 \in Nat /\ i - 1 <= Len(s)
      /\ i + 1 \in Nat /\ 1 <= i + 1 /\ 1 <= 1 /\ Len(s) <= Len(s)
  BY <1>1, <1>3
<1>5. Enumerates(SubSeq(s, 1, i - 1), A, key)
  BY <1>4, EnumSub
<1>6. Enumerates(SubSeq(s, i + 1, Len(s)), B, key)
  BY <1>1, <1>4, EnumSub
<1>7. \A x \in A, y \in B : key[x] < key[y]
  <2> TAKE x \in A, y \in B
  <2>1. PICK j \in 1 .. i - 1 : x = s[j]
    OBVIOUS
  <2>2. PICK k \in i + 1 .. Len(s) : y = s[k]
    OBVIOUS
  <2>3. j \in DOMAIN s /\ k \in DOMAIN s /\ j < k
    BY <1>1, <1>3, <2>1, <2>2
  <2> QED BY <2>1, <2>2, <2>3, <1>1
<1>8. A \union B = S \ {e}
  <2>1. ASSUME NEW j \in 1 .. Len(s), j # i PROVE s[j] \in S \ {e}
    BY <1>1, <1>3, <2>1
  <2>2. ASSUME NEW x \in S \ {e} PROVE x \in A \union B
    <3>1. PICK j \in 1 .. Len(s) : s[j] = x
      BY <1>2
    <3>2. j # i
      BY <3>1, <1>3
    <3>3. j \in 1 .. i - 1 \/ j \in i + 1 .. Len(s)
      BY <3>2, <1>1, <1>3
    <3> QED BY <3>1, <3>3
  <2>3. A \subseteq S \ {e}
    <3>1. \A j \in 1 .. i - 1 : j \in 1 .. Len(s) /\ j # i
      BY <1>1, <1>3
    <3> QED BY <3>1, <2>1
  <2>4. B \subseteq S \ {e}
    <3>1. \A j \in i + 1 .. Len(s) : j \in 1 .. Len(s) /\ j # i
      BY <1>1, <1>3
    <3> QED BY <3>1, <2>1
  <2> HIDE DEF A, B
  <2> QED BY <2>2, <2>3, <2>4
<1> HIDE DEF A, B
<1>9. Enumerates(SubSeq(s, 1, i - 1) \o SubSeq(s, i + 1, Len(s)), S \ {e}, key)
  BY <1>5, <1>6, <1>7, <1>8, EnumJoin
<1>10. RemoveAt(s, i) = t
  <2> DEFINE U == S \ {e}
  <2>1. /\ \A x \in U : key[x] \in Int
        /\ \A x, y \in U : key[x] = key[y] => x = y
    OBVIOUS
  <2>2. Enumerates(RemoveAt(s, i), U, key) /\ Enumerates(t, U, key)
    BY <1>9 DEF RemoveAt
  <2> HIDE DEF U
  <2> QED BY <2>1, <2>2, EnumUnique
<1> QED BY <1>1, <1>3, <1>10

\* An element more: it is put behind those ranked lower.
LEMMA EnumMore ==
  ASSUME NEW s, NEW S, NEW t, NEW key, NEW e, e \notin S,
         Enumerates(s, S, key), Enumerates(t, S \union {e}, key),
         \A x \in S \union {e} : key[x] \in Int,
         \A x, y \in S \union {e} : key[x] = key[y] => x = y
  PROVE  \E k \in 0 .. Len(s) :
           /\ \A i \in DOMAIN s : i <= k <=> key[s[i]] < key[e]
           /\ t = InsertAt(s, k + 1, e)
<1>1. /\ Len(s) \in Nat /\ DOMAIN s = 1 .. Len(s)
      /\ \A i \in DOMAIN s : s[i] \in S
      /\ \A i, j \in DOMAIN s : i < j <=> key[s[i]] < key[s[j]]
  <2>1. \A x \in S : key[x] \in Int
    OBVIOUS
  <2> QED BY <2>1, EnumFacts
<1>2. \A x \in S : \E i \in 1 .. Len(s) : s[i] = x
  BY DEF Enumerates
<1>3. key[e] \in Int /\ \A i \in 1 .. Len(s) : key[s[i]] \in Int /\ key[s[i]] # key[e]
  <2>1. \A x \in S : x # e /\ key[x] \in Int
    OBVIOUS
  <2>2. \A i \in 1 .. Len(s) : s[i] \in S
    BY <1>1
  <2> QED BY <2>1, <2>2
<1> DEFINE Above == {k \in Nat : \A i \in 1 .. Len(s) : i > k => ~ (key[s[i]] < key[e])}
<1>4. PICK k \in Above : \A m \in Above : k <= m
  <2>1. Above \in SUBSET Nat
    OBVIOUS
  <2>2. Len(s) \in Above
    BY <1>1
  <2> HIDE DEF Above
  <2> QED BY <2>1, <2>2, Least
<1>5. /\ k \in Nat /\ k <= Len(s)
      /\ \A i \in 1 .. Len(s) : i > k => ~ (key[s[i]] < key[e])
  <2>1. Len(s) \in Above
    BY <1>1
  <2> QED BY <2>1, <1>4
<1>6. \A i \in 1 .. Len(s) : i <= k => key[s[i]] < key[e]
  <2> TAKE i \in 1 .. Len(s)
  <2> HAVE i <= k
  <2>1. k - 1 \in Nat /\ ~ (k <= k - 1)
    BY <1>1, <1>5
  <2>2. k - 1 \notin Above
    BY <2>1, <1>4
  <2>3. PICK j \in 1 .. Len(s) : j > k - 1 /\ key[s[j]] < key[e]
    BY <2>1, <2>2
  <2>4. j = k
    BY <2>3, <1>5, <1>1
  <2>5. CASE i = k
    BY <2>3, <2>4, <2>5
  <2>6. CASE i < k
    <3>1. key[s[i]] < key[s[k]]
      BY <2>3, <2>4, <2>6, <1>1
    <3> QED BY <3>1, <2>3, <2>4, <1>3
  <2> QED BY <2>5, <2>6, <1>1, <1>5
<1> DEFINE A == {s[j] : j \in 1 .. k}
           B == {s[j] : j \in k + 1 .. Len(s)}
<1> HIDE DEF Above
<1>7. 1 \in Nat /\ 1 <= 1 /\ k + 1 \in Nat /\ 1 <= k + 1 /\ Len(s) <= Len(s)
  BY <1>1, <1>5
<1>8. Enumerates(SubSeq(s, 1, (k + 1) - 1), A, key)
  <2>1. (k + 1) - 1 = k
    BY <1>5
  <2>2. Enumerates(SubSeq(s, 1, k), A, key)
    BY <1>5, <1>7, EnumSub
  <2> QED BY <2>1, <2>2
<1>9. Enumerates(SubSeq(s, k + 1, Len(s)), B, key)
  BY <1>1, <1>7, EnumSub
<1>10. \A x \in A : key[x] < key[e]
  <2>1. \A j \in 1 .. k : j \in 1 .. Len(s) /\ j <= k
    BY <1>1, <1>5
  <2> QED BY <2>1, <1>6
<1>11. \A x \in B : key[e] < key[x]
  <2>1. \A j \in k + 1 .. Len(s) : j \in 1 .. Len(s) /\ j > k
    BY <1>1, <1>5
  <2> TAKE x \in B
  <2>2. PICK j \in k + 1 .. Len(s) : x = s[j]
    OBVIOUS
  <2>3. /\ ~ (key[s[j]] < key[e]) /\ key[s[j]] # key[e]
        /\ key[s[j]] \in Int /\ key[e] \in Int
    BY <2>1, <2>2, <1>3, <1>5
  <2> QED BY <2>2, <2>3
<1>12. A \union B = S
  <2>1. A \subseteq S /\ B \subseteq S
    <3>1. /\ \A j \in 1 .. k : j \in 1 .. Len(s)
          /\ \A j \in k + 1 .. Len(s) : j \in 1 .. Len(s)
      BY <1>1, <1>5
    <3> QED BY <3>1, <1>1
  <2>2. ASSUME NEW x \in S PROVE x \in A \union B
    <3>1. PICK j \in 1 .. Len(s) : s[j] = x
      BY <1>2
    <3>2. j \in 1 .. k \/ j \in k + 1 .. Len(s)
      BY <1>1, <1>5
    <3> QED BY <3>1, <3>2
  <2> HIDE DEF A, B
  <2> QED BY <2>1, <2>2
<1>13. \A x \in A \union {e}, y \in B : key[x] < key[y]
  <2> TAKE x \in A \union {e}, y \in B
  <2>1. x \in S \union {e} /\ y \in S \union {e}
    BY <1>12
  <2>2. key[x] \in Int /\ key[y] \in Int /\ key[e] \in Int /\ key[e] < key[y]
    BY <2>1, <1>11, <1>3
  <2>3. x = e \/ key[x] < key[e]
    BY <1>10
  <2> QED BY <2>2, <2>3
<1> HIDE DEF A, B
<1>14. Enumerates(<<e>>, {e}, key)
  BY <1>3, EnumOne
<1>15. Enumerates(SubSeq(s, 1, (k + 1) - 1) \o <<e>>, A \union {e}, key)
  BY <1>8, <1>10, <1>14, EnumJoin
<1>16. Enumerates((SubSeq(s, 1, (k + 1) - 1) \o <<e>>) \o SubSeq(s, k + 1, Len(s)),
                  (A \union {e}) \union B, key)
  BY <1>9, <1>13, <1>15, EnumJoin
<1>17. (A \union {e}) \union B = S \union {e}
  BY <1>12
<1>18. InsertAt(s, k + 1, e) = t
  <2>1. Enumerates(InsertAt(s, k + 1, e), S \union {e}, key)
    BY <1>16, <1>17 DEF InsertAt
  <2> QED BY <2>1, EnumUnique
<1>19. k \in 0 .. Len(s)
  BY <1>1, <1>5
<1>20. \A i \in DOMAIN s : i <= k <=> key[s[i]] < key[e]
  <2> TAKE i \in DOMAIN s
  <2>1. i \in 1 .. Len(s)
    BY <1>1
  <2> QED BY <2>1, <1>1, <1>5, <1>6
<1> QED BY <1>18, <1>19, <1>20

\* What the list says of the resting orders, and their ranks in it.
Entries(ix, lo) == {[id |-> x, price |-> lo[x]] : x \in Rest(ix)}
ByRank(rk) == [e \in [id : Ids, price : Prices \union {0}] |-> rk[e.id]]

\* The list l holds the orders of the index by their ranks.
Lists(l, ix, lo, rk) ==
  /\ rk \in [Ids -> Nat] /\ lo \in [Ids -> Prices \union {0}]
  /\ \A x \in Rest(ix) : lo[x] \in Prices
  /\ \A x, y \in Rest(ix) : rk[x] = rk[y] => x = y
  /\ Enumerates(l, Entries(ix, lo), ByRank(rk))

LEMMA SoundLists ==
  ASSUME NEW rk, Ranked(rk)
  PROVE  Lists(AsList, index, levelOf, rk)
<1>1. PICK q, r, cp : Sound(q, r, cp, rk)
  BY DEF Ranked
<1> DEFINE E(n, s) == [id |-> node[n].slot[s], price |-> levelOf[node[n].slot[s]]]
           entry == [l \in Locs |-> [id |-> At(l), price |-> levelOf[At(l)]]]
           w == WalkAlong(node, nextNode, chainHead, entry)
<1>2. Walkable(node, nextNode, prevNode, chainHead, live, index, q, r, cp, rk)
  BY <1>1, SoundWalkable
<1>3. /\ index \in [Ids -> Locs] /\ rk \in [Ids -> Nat]
      /\ levelOf \in [Ids -> Prices \union {0}]
      /\ \A x \in Rest(index) : /\ x \in Ids /\ At(index[x]) = x
                                /\ levelOf[x] \in Prices
      /\ \A x, y \in Rest(index) : rk[x] = rk[y] => x = y
  <2>1. /\ levelOf \in [Ids -> Prices \union {0}]
        /\ \A x \in Rest(index) : levelOf[x] \in Prices
    BY <1>1 DEF Sound, LevelsOK, Rest
  <2>2. \A x, y \in Rest(index) : rk[x] = rk[y] => x = y
    BY <1>1, SoundParts DEF Rest
  <2>3. \A x \in Rest(index) : x \in Ids /\ At(index[x]) = x
    BY <1>1, SoundParts DEF At, Rest
  <2> QED BY <1>1, <2>1, <2>2, <2>3, SoundParts
<1>4. \A x \in Rest(index) : entry[index[x]] = [id |-> x, price |-> levelOf[x]]
  BY <1>3
<1>5. \A x \in Rest(index) : ByRank(rk)[entry[index[x]]] = rk[x]
  BY <1>3, <1>4 DEF ByRank
<1>6. AsList = w
  <2>1. ASSUME NEW n \in Nodes, NEW s \in Slots
        PROVE  entry[[node |-> n, slot |-> s]] = E(n, s)
    <3>1. [node |-> n, slot |-> s] \in Locs
      BY DEF Locs
    <3> QED BY <3>1 DEF At
  <2> HIDE DEF entry
  <2>3. ASSUME NEW n \in Nodes
        PROVE  [s \in Slots |-> <<entry[[node |-> n, slot |-> s]]>>]
                 = [s \in Slots |-> <<E(n, s)>>]
    BY <2>1
  <2>4. [n \in Nodes |->
           Along([s \in Slots |-> <<entry[[node |-> n, slot |-> s]]>>],
                 node[n].next, node[n].head, N + 1)]
          = [n \in Nodes |->
               Along([s \in Slots |-> <<E(n, s)>>],
                     node[n].next, node[n].head, N + 1)]
    BY <2>3
  <2> QED BY <2>4 DEF AsList, WalkOver, InNode, WalkAlong, At
<1> HIDE DEF entry, w
<1>7. Enumerates(w, {entry[index[x]] : x \in Rest(index)}, ByRank(rk))
  BY <1>2, <1>5, WalkEnumerates DEF w
<1>8. {entry[index[x]] : x \in Rest(index)} = Entries(index, levelOf)
  BY <1>4 DEF Entries
<1> QED BY <1>3, <1>6, <1>7, <1>8 DEF Lists

\* The ranks tell the entries apart.
LEMMA ListsParts ==
  ASSUME NEW l, NEW ix, NEW lo, NEW rk, Lists(l, ix, lo, rk)
  PROVE  /\ \A e \in Entries(ix, lo) : ByRank(rk)[e] \in Int
         /\ \A e, f \in Entries(ix, lo) :
              ByRank(rk)[e] = ByRank(rk)[f] => e = f
         /\ \A x \in Rest(ix) :
              /\ [id |-> x, price |-> lo[x]] \in Entries(ix, lo)
              /\ ByRank(rk)[[id |-> x, price |-> lo[x]]] = rk[x]
         /\ Entries(ix, lo) \subseteq [id : Ids, price : Prices]
<1>1. \A x \in Rest(ix) : /\ x \in Ids /\ lo[x] \in Prices /\ rk[x] \in Int
                          /\ [id |-> x, price |-> lo[x]]
                               \in [id : Ids, price : Prices \union {0}]
  BY DEF Lists, Rest
<1>2. \A x \in Rest(ix) : ByRank(rk)[[id |-> x, price |-> lo[x]]] = rk[x]
  BY <1>1 DEF ByRank
<1>3. \A e \in Entries(ix, lo) : \E x \in Rest(ix) :
        e = [id |-> x, price |-> lo[x]] /\ ByRank(rk)[e] = rk[x]
  BY <1>2 DEF Entries
<1>4. \A e \in Entries(ix, lo) : ByRank(rk)[e] \in Int
  BY <1>1, <1>3
<1>5. \A e, f \in Entries(ix, lo) : ByRank(rk)[e] = ByRank(rk)[f] => e = f
  BY <1>3 DEF Lists
<1>6. \A x \in Rest(ix) : [id |-> x, price |-> lo[x]] \in Entries(ix, lo)
  BY DEF Entries
<1>7. Entries(ix, lo) \subseteq [id : Ids, price : Prices]
  BY <1>1 DEF Entries
<1> QED BY <1>2, <1>4, <1>5, <1>6, <1>7

\* The same orders by the same ranks are the same list.
LEMMA ListsSame ==
  ASSUME NEW l, NEW ix, NEW lo, NEW rk, Lists(l, ix, lo, rk),
         NEW m, NEW iy, NEW mo, Lists(m, iy, mo, rk),
         Rest(iy) = Rest(ix), \A x \in Rest(ix) : mo[x] = lo[x]
  PROVE  m = l
<1>1. Entries(iy, mo) = Entries(ix, lo)
  BY DEF Entries
<1>2. /\ Enumerates(l, Entries(ix, lo), ByRank(rk))
      /\ Enumerates(m, Entries(ix, lo), ByRank(rk))
  BY <1>1 DEF Lists
<1> QED BY <1>2, ListsParts, EnumUnique

LEMMA RankedLists == \A rk : Ranked(rk) => Lists(AsList, index, levelOf, rk)
  BY SoundLists

LEMMA RankedListsNext ==
  (\A rk : Ranked(rk) => Lists(AsList, index, levelOf, rk))'
  BY RankedLists, PTL

LEMMA RankedNext ==
  ASSUME NEW rk, Ranked(rk)'
  PROVE  Lists(AsList', index', levelOf', rk)
BY RankedListsNext

LEMMA ListIsSeq ==
  ASSUME NEW rk, Ranked(rk)
  PROVE  /\ AsList \in Seq(Listed!Order)
         /\ \A x \in Ids : index[x] = NoLoc => x \notin Listed!Resting(AsList)
<1> DEFINE S == Entries(index, levelOf)
<1>1. Lists(AsList, index, levelOf, rk)
  BY SoundLists
<1>2. S \subseteq Listed!Order /\ \A e \in S : ByRank(rk)[e] \in Int
  BY <1>1, ListsParts DEF Listed!Order
<1>3. Enumerates(AsList, S, ByRank(rk))
  BY <1>1 DEF Lists
<1>4. \A e \in S : index[e.id] # NoLoc
  BY DEF Entries, Rest
<1> HIDE DEF S
<1>5. AsList \in Seq(S)
  BY <1>3 DEF Enumerates
<1>6. AsList \in Seq(Listed!Order)
  BY <1>2, <1>5
<1>7. \A i \in DOMAIN AsList : AsList[i] \in S
  BY <1>2, <1>3, EnumFacts
<1>8. \A o \in Listed!Range(AsList) : o \in S
  BY <1>7 DEF Listed!Range
<1>9. \A x \in Ids : index[x] = NoLoc => x \notin Listed!Resting(AsList)
  BY <1>4, <1>8 DEF Listed!Resting
<1> QED BY <1>6, <1>9

\* A step of a cascade leaves the list alone, ...
LEMMA ListStays ==
  ASSUME Stays, Rest(index') = Rest(index),
         \A x \in Rest(index) : levelOf'[x] = levelOf[x]
  PROVE  AsList' = AsList
<1>1. PICK rk : Ranked(rk) /\ Ranked(rk)'
  BY DEF Stays
<1>2. Lists(AsList, index, levelOf, rk) /\ Lists(AsList', index', levelOf', rk)
  BY <1>1, SoundLists, RankedNext
<1> QED BY <1>2, ListsSame

\* ... an erase takes an order out of it, ...
LEMMA ListLoses ==
  ASSUME Stays, NEW x \in Ids, index[x] # NoLoc,
         index' = [index EXCEPT ![x] = NoLoc],
         levelOf' = [levelOf EXCEPT ![x] = 0]
  PROVE  AsList' \in Listed!Removals[AsList]
<1>1. PICK rk : Ranked(rk) /\ Ranked(rk)'
  BY DEF Stays
<1> DEFINE S == Entries(index, levelOf)
           e == [id |-> x, price |-> levelOf[x]]
           key == ByRank(rk)
<1>2. Lists(AsList, index, levelOf, rk) /\ Lists(AsList', index', levelOf', rk)
  BY <1>1, SoundLists, RankedNext
<1>3. index \in [Ids -> Locs] /\ levelOf \in [Ids -> Prices \union {0}]
  BY <1>1, <1>2, SoundParts DEF Ranked, Lists
<1>4. Entries(index', levelOf') = S \ {e}
  <2>1. Rest(index') = Rest(index) \ {x}
    BY <1>3 DEF Rest
  <2>2. \A y \in Rest(index) \ {x} : levelOf'[y] = levelOf[y]
    BY <1>3 DEF Rest
  <2>3. Entries(index', levelOf')
          = {[id |-> y, price |-> levelOf[y]] : y \in Rest(index) \ {x}}
    BY <2>1, <2>2 DEF Entries
  <2>4. \A y \in Rest(index) : [id |-> y, price |-> levelOf[y]] = e => y = x
    OBVIOUS
  <2>5. x \in Rest(index)
    BY DEF Rest
  <2> QED BY <2>3, <2>4, <2>5 DEF Entries
<1>5. e \in S /\ (\A f \in S : key[f] \in Int)
      /\ (\A f, g \in S : key[f] = key[g] => f = g)
  BY <1>2, ListsParts DEF Rest
<1>6. Enumerates(AsList, S, key) /\ Enumerates(AsList', S \ {e}, key)
  BY <1>2, <1>4 DEF Lists
<1> HIDE DEF S, e, key
<1>7. PICK i \in DOMAIN AsList : AsList' = RemoveAt(AsList, i)
  BY <1>5, <1>6, EnumLess
<1>8. AsList \in Seq(Listed!Order)
  BY <1>1, ListIsSeq
<1>9. AsList' = Listed!RemoveAt(AsList, i)
  BY <1>7 DEF RemoveAt, Listed!RemoveAt
<1> QED BY <1>7, <1>8, <1>9 DEF Listed!Removals

\* ... and an insert puts one where it belongs.
LEMMA ListGains ==
  ASSUME NEW x \in Ids, NEW p \in Prices, Arrives(x, p)
  PROVE  AsList' \in Listed!Insertions[AsList]
<1>0. PICK rk : \E K \in Nat :
        /\ Ranked(rk) /\ index[x] = NoLoc
        /\ Splits(index, levelOf, rk, p, K)
        /\ Ranked(RankFor(rk, x, K))' /\ Rests(x, p)
  BY DEF Arrives
<1>1. PICK K \in Nat : /\ Ranked(rk) /\ index[x] = NoLoc
                       /\ Splits(index, levelOf, rk, p, K)
                       /\ Ranked(RankFor(rk, x, K))' /\ Rests(x, p)
  BY <1>0
<1> DEFINE S == Entries(index, levelOf)
           e == [id |-> x, price |-> p]
           rk1 == RankFor(rk, x, K)
           key == ByRank(rk1)
<1>2. Lists(AsList, index, levelOf, rk) /\ Lists(AsList', index', levelOf', rk1)
  BY <1>1, SoundLists, RankedNext
<1>3. /\ index \in [Ids -> Locs] /\ levelOf \in [Ids -> Prices \union {0}]
      /\ rk \in [Ids -> Nat]
  BY <1>1, <1>2, SoundParts DEF Ranked, Lists
<1>4. /\ Rest(index') = Rest(index) \union {x} /\ x \notin Rest(index)
      /\ levelOf'[x] = p /\ \A y \in Rest(index) : levelOf'[y] = levelOf[y]
  BY <1>1, <1>3 DEF Rest, Rests
<1>5. Entries(index', levelOf') = S \union {e} /\ e \notin S
  BY <1>4 DEF Entries
<1>6. /\ \A y, z \in Rest(index) : rk1[y] < rk1[z] <=> rk[y] < rk[z]
      /\ \A y \in Rest(index) : rk1[y] < rk1[x] <=> rk[y] < K
  <2>1. \A y \in Rest(index) : y \in Ids /\ y # x
    BY <1>4 DEF Rest
  <2> QED BY <2>1, <1>3, RankForIs
<1> HIDE DEF rk1, key
<1>7. /\ \A f \in S \union {e} : key[f] \in Int
      /\ \A f, g \in S \union {e} : key[f] = key[g] => f = g
      /\ \A y \in Rest(index) : /\ [id |-> y, price |-> levelOf[y]] \in S
                                /\ key[[id |-> y, price |-> levelOf[y]]] = rk1[y]
      /\ key[e] = rk1[x]
  <2>1. /\ \A f \in Entries(index', levelOf') : key[f] \in Int
        /\ \A f, g \in Entries(index', levelOf') : key[f] = key[g] => f = g
        /\ \A y \in Rest(index') :
             key[[id |-> y, price |-> levelOf'[y]]] = rk1[y]
    BY <1>2, ListsParts DEF key
  <2>2. \A y \in Rest(index) : [id |-> y, price |-> levelOf[y]] \in S
    BY DEF Entries
  <2> QED BY <2>1, <2>2, <1>4, <1>5
<1>8. \A f \in S : /\ f.id \in Rest(index) /\ f = [id |-> f.id, price |-> levelOf[f.id]]
                   /\ f.price = levelOf[f.id]
  BY DEF Entries
<1>9. Enumerates(AsList, S, ByRank(rk)) /\ Enumerates(AsList', S \union {e}, key)
  BY <1>2, <1>5 DEF Lists, key
<1> DEFINE old == ByRank(rk)
<1>10. /\ \A f \in S : old[f] \in Int
       /\ \A y \in Rest(index) : old[[id |-> y, price |-> levelOf[y]]] = rk[y]
  BY <1>2, ListsParts
<1> HIDE DEF old
<1>11. \A f, g \in S : old[f] < old[g] => key[f] < key[g]
  <2> TAKE f, g \in S
  <2>1. old[f] = rk[f.id] /\ old[g] = rk[g.id] /\ key[f] = rk1[f.id] /\ key[g] = rk1[g.id]
    BY <1>7, <1>8, <1>10
  <2> QED BY <2>1, <1>6, <1>8
<1>12. \A f \in S : key[f] < key[e] <=> ~ Better(p, f.price)
  <2> TAKE f \in S
  <2>1. key[f] = rk1[f.id] /\ key[e] = rk1[x] /\ f.id \in Rest(index)
        /\ f.price = levelOf[f.id]
    BY <1>7, <1>8
  <2>2. f.id \in Ids /\ index[f.id] # NoLoc
    BY <2>1 DEF Rest
  <2>3. rk[f.id] < K <=> ~ Better(p, levelOf[f.id])
    BY <2>2, <1>1 DEF Splits
  <2> QED BY <2>1, <2>3, <1>6
<1> HIDE DEF S, e
<1>13. Enumerates(AsList, S, key)
  <2>1. /\ AsList \in Seq(S)
        /\ \A y \in S : \E i \in 1 .. Len(AsList) : AsList[i] = y
        /\ \A i, j \in 1 .. Len(AsList) : i < j => old[AsList[i]] < old[AsList[j]]
    BY <1>9 DEF Enumerates, old
  <2>2. \A i \in 1 .. Len(AsList) : AsList[i] \in S
    BY <2>1, LenProperties
  <2>3. \A i, j \in 1 .. Len(AsList) : i < j => key[AsList[i]] < key[AsList[j]]
    BY <2>1, <2>2, <1>11
  <2> QED BY <2>1, <2>3 DEF Enumerates
<1>14. PICK k \in 0 .. Len(AsList) :
         /\ \A i \in DOMAIN AsList : i <= k <=> key[AsList[i]] < key[e]
         /\ AsList' = InsertAt(AsList, k + 1, e)
  BY <1>5, <1>7, <1>9, <1>13, EnumMore
<1>15. \A i \in DOMAIN AsList : AsList[i] \in S
  BY <1>13, LenProperties DEF Enumerates
<1>16. e \in Listed!Order /\ e.price = p /\ e.id = x
  BY DEF e, Listed!Order
<1>17. k \in Listed!Places(AsList, e.price)
  BY <1>12, <1>14, <1>15, <1>16 DEF Listed!Places
<1>18. AsList' = Listed!InsertAt(AsList, k + 1, e)
  BY <1>14 DEF InsertAt, Listed!InsertAt
<1>19. AsList' \in Listed!WithOrder(AsList, e)
  BY <1>17, <1>18 DEF Listed!WithOrder
<1>20. AsList \in Seq(Listed!Order) /\ e.id \notin Listed!Resting(AsList)
  BY <1>1, <1>16, ListIsSeq
<1> QED BY <1>16, <1>19, <1>20 DEF Listed!Insertions

LEMMA RelocateRest ==
  ASSUME IInv, Relocate
  PROVE  Rest(index') = Rest(index)
<1>1. PICK q, r, cp, rk : Sound(q, r, cp, rk) /\ CascadeOK(cp, rk)
  BY InvIs
<1> DEFINE src == path[Len(path) - 1]
           s0 == node[src].tail
           x == node[src].slot[s0]
           new == [node |-> Far, slot |-> node[Far].free]
<1>2. /\ pc = "ripple" /\ Len(path) > 1
      /\ index' = [index EXCEPT ![x] = new]
  BY DEF Relocate, Moved
<1>3. PathOK(cp) /\ cp \in [Nodes -> Nat] /\ live \subseteq Nodes
  <2>1. PathOK(cp)
    BY <1>1, <1>2 DEF CascadeOK
  <2> QED BY <1>1, <2>1, SoundParts DEF OneToOne
<1>4. src \in live /\ IsFull(node[src]) /\ Far \in live
  <2>1. path \in Seq(Nodes) /\ Len(path) \in Nat
    BY <1>3, LenProperties DEF PathOK
  <2>2. Len(path) - 1 \in 1 .. Len(path) - 1 /\ Len(path) - 1 \in 1 .. Len(path)
        /\ Len(path) \in 1 .. Len(path)
    BY <1>2, <2>1
  <2> QED BY <1>3, <2>2 DEF PathOK, Far
<1>5. NodeIs(node[src], q[src], r[src]) /\ ~ IsEmpty(node[src])
  <2>1. NodeIs(node[src], q[src], r[src])
    BY <1>1, <1>4, SoundParts
  <2> QED BY <2>1, <1>4, NA DEF IsFull, IsEmpty
<1>6. s0 \in Slots /\ x # NoOrder
  BY <1>5, LastSlot
<1>7. index[x] = [node |-> src, slot |-> s0]
  BY <1>1, <1>3, <1>4, <1>6, SoundParts DEF PlacesOK
<1>8. src \in Nodes /\ Far \in Nodes
  BY <1>3, <1>4
<1> HIDE DEF src, s0, x
<1>9. index[x] # NoLoc /\ new # NoLoc
  BY <1>7, <1>8, NodeIds DEF NoLoc
<1>10. index \in [Ids -> Locs]
  BY <1>1, SoundParts
<1> HIDE DEF new
<1> QED BY <1>2, <1>9, <1>10 DEF Rest

LEMMA StepListed ==
  ASSUME IInv, [Next]_vars
  PROVE  Listed!Next \/ AsList' = AsList
<1>1. ASSUME NEW x \in Ids, Erase(x) PROVE Listed!Leave
  <2>1. Stays
    BY <1>1, EraseInv
  <2>2. /\ index[x] # NoLoc
        /\ index' = [index EXCEPT ![x] = NoLoc]
        /\ levelOf' = [levelOf EXCEPT ![x] = 0]
    BY <1>1 DEF Erase
  <2> QED BY <2>1, <2>2, ListLoses DEF Listed!Leave
<1>2. ASSUME NEW x \in Ids, NEW p \in Prices,
             InsertFirst(x, p) \/ InsertHead(x, p) \/ InsertAfter(x, p)
      PROVE  Listed!Arrive
  <2>1. Arrives(x, p)
    BY <1>2, FirstInv, HeadInv, AfterInv
  <2> QED BY <2>1, ListGains DEF Listed!Arrive
<1>3. ASSUME NEW x \in Ids, NEW p \in Prices, MakeRoom(x, p)
      PROVE  AsList' = AsList
  <2>1. Stays /\ index' = index /\ levelOf' = levelOf
    BY <1>3, RoomInv DEF MakeRoom, levelVars
  <2> QED BY <2>1, ListStays
<1>4. ASSUME Walk PROVE AsList' = AsList
  <2>1. Stays /\ index' = index /\ levelOf' = levelOf
    BY <1>4, WalkInv DEF Walk, levelVars
  <2> QED BY <2>1, ListStays
<1>5. ASSUME WalkEnd PROVE AsList' = AsList
  <2>1. Stays /\ index' = index /\ levelOf' = levelOf
    BY <1>5, WalkEndInv DEF WalkEnd, levelVars
  <2> QED BY <2>1, ListStays
<1>6. ASSUME Relocate PROVE AsList' = AsList
  <2>1. Stays /\ Rest(index') = Rest(index) /\ levelOf' = levelOf
    BY <1>6, RelocateInv, RelocateRest DEF Relocate
  <2> QED BY <2>1, ListStays
<1>7. ASSUME Place PROVE Listed!Arrive
  <2>1. PICK x \in Ids, p \in Prices : Arrives(x, p)
    BY <1>7, PlaceInv
  <2> QED BY <2>1, ListGains DEF Listed!Arrive
<1>8. ASSUME UNCHANGED vars PROVE AsList' = AsList
  <2>1. UNCHANGED <<node, nextNode, chainHead, levelOf>>
    BY <1>8 DEF vars, nodeVars, levelVars
  <2> QED BY <2>1 DEF AsList, WalkOver, InNode, At
<1> QED
  BY <1>1, <1>2, <1>3, <1>4, <1>5, <1>6, <1>7, <1>8
  DEF Next, Insert, Cascade, Listed!Next

LEMMA InitListed == ASSUME Init PROVE AsList = <<>>
<1>1. PICK q, r, cp, rk : Sound(q, r, cp, rk)
  BY InitInv, InvIs
<1>2. Lists(AsList, index, levelOf, rk)
  BY <1>1, SoundLists DEF Ranked
<1>3. Rest(index) = {}
  BY DEF Init, Rest
<1>4. AsList \in Seq({})
  BY <1>2, <1>3 DEF Lists, Enumerates, Entries
<1>5. Len(AsList) \in Nat /\ AsList \in [1 .. Len(AsList) -> {}]
  BY <1>4, LenProperties
<1>6. Len(AsList) = 0
  <2> SUFFICES ASSUME Len(AsList) # 0 PROVE FALSE
    OBVIOUS
  <2>1. 1 \in 1 .. Len(AsList)
    BY <1>5
  <2>2. AsList[1] \in {}
    BY <1>5, <2>1
  <2> QED BY <2>2
<1> QED BY <1>4, <1>6, EmptySeq, SeqEqual

\* The walk over the chain is the list the matching loop is promised: an insert
\* adds its order behind everyone at its price or better, in one step, and be
\* it the last of a cascade; an erase takes out the one order; every other step
\* of a cascade changes nothing.
THEOREM ChainKeepsPriority == Spec => KeepsPriority
<1>1. Init => Listed!Init
  BY InitListed DEF Listed!Init
<1>2. IInv /\ [Next]_vars => [Listed!Next]_AsList
  BY StepListed
<1> QED BY <1>1, <1>2, Invariant, PTL DEF Spec, KeepsPriority, Listed!Spec
=============================================================================
