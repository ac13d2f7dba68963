-------------------------- MODULE MatchingBookInv --------------------------
(***************************************************************************)
(* The inductive invariant behind the safety properties of MatchingBook:   *)
(* what is true between any two steps of the loops, and not only between   *)
(* two calls.                                                              *)
(***************************************************************************)
EXTENDS MatchingBook

\* An order stands on its own side.
Sides ==
  \A x \in Ids : /\ tree[x] \in {"bids", "stopBids"} => order[x].buy
                 /\ tree[x] \in {"asks", "stopAsks"} => ~order[x].buy

\* Inside a level, arrival is a strict total order.
Arrival ==
  /\ \A x, y \in Ids : y \in ahead[x] =>
       /\ tree[x] \in Trees /\ tree[y] = tree[x]
       /\ Key(y) = Key(x) /\ x \notin ahead[y]
  /\ \A x, y \in Ids :
       x # y /\ tree[x] \in Trees /\ tree[y] = tree[x] /\ Key(y) = Key(x)
       => x \in ahead[y] \/ y \in ahead[x]
  /\ \A x, y, z \in Ids :
       x \in ahead[y] /\ y \in ahead[z] => x \in ahead[z]

\* An order waits only where its kind does, and a stop is open: only resting
\* orders are replaced, and so overrun.
Residents ==
  /\ \A x \in Resting : order[x].price # 0 /\ ~order[x].ioc
  /\ \A x \in Parked : order[x].stop # 0 /\ order[x].filled < order[x].qty

\* Which of the loop variables are in use where.
Control ==
  /\ cur = None <=> pc \in {"idle", "scanBids", "scanAsks"}
  /\ pc = "idle" => fired = <<>>
  /\ it # None => pc \in {"match", "plan"} /\ tree[it] = Opposite
  /\ pc \notin {"plan", "commit"} => plan = <<>>
  /\ pc # "plan" => planned = 0
  /\ pc \in {"plan", "commit"} => order[cur].aon
  /\ pc = "match" => ~order[cur].aon

\* Orders in flight have something to trade until they are matched, and an
\* all-or-none order has no fills until its plan is committed.
FlightOpen ==
  /\ \A x \in Pending : /\ order[x].filled < order[x].qty
                        /\ order[x].aon => order[x].filled = 0
  /\ cur # None => order[cur].filled <= order[cur].qty
  /\ pc = "submit" => order[cur].filled < order[cur].qty
  /\ pc \in {"submit", "plan"} /\ order[cur].aon => order[cur].filled = 0

\* c has been dealt with by the sweep, or is still ahead of it.
Unvisited(c) == it # None /\ (c = it \/ Before(it, c))

\* A regular order has left behind only all-or-none makers too large for it.
MatchSweep ==
  pc = "match" /\ Open(cur) > 0 =>
    \A c \in InTree(Opposite) : Unvisited(c) \/ TooLarge(c)

\* So if it rests, it rests against all-or-none orders only.
SweepDone ==
  pc = "rest" /\ ~order[cur].aon /\ Open(cur) > 0 =>
    \A c \in InTree(Opposite) : Crosses(c) => order[c].aon

\* Running totals of the plan.
PlanSums ==
  {f \in [0 .. Len(plan) -> 0 .. Open(cur)] :
     /\ f[0] = 0
     /\ \A i \in 1 .. Len(plan) : f[i] = f[i - 1] + plan[i].qty
     /\ \A i, j \in 0 .. Len(plan) : i <= j => f[i] <= f[j]}

\* A planned trade is possible, in reach, whole for an all-or-none maker, made
\* only as long as something is missing, and leaves something of its maker only
\* if it completes the order.  It is for nothing if its maker has nothing.
PlanEntry(f, i) ==
  LET m == plan[i].id IN
  /\ tree[m] = Opposite
  /\ Crosses(m)
  /\ plan[i].qty \in 0 .. Open(m)
  /\ plan[i].qty = 0 => Open(m) = 0
  /\ f[i - 1] < Open(cur)
  /\ plan[i].qty < Open(m) => ~order[m].aon /\ f[i] = Open(cur)

\* Whoever is swept before a planned maker is planned before it, or is an
\* all-or-none order larger than what is still missing then.
PlanPriority(f, i) ==
  \A c \in InTree(Opposite) : Before(c, plan[i].id) =>
    \/ \E j \in 1 .. i - 1 : plan[j].id = c
    \/ order[c].aon /\ Open(c) > Open(cur) - f[i - 1]

PlanOrdered ==
  \A i, j \in 1 .. Len(plan) : i < j => Before(plan[i].id, plan[j].id)

PlanSweep ==
  /\ it # None => \A i \in 1 .. Len(plan) : Before(plan[i].id, it)
  /\ \A c \in InTree(Opposite) :
       \/ Unvisited(c)
       \/ \E j \in 1 .. Len(plan) : plan[j].id = c
       \/ order[c].aon /\ Open(c) > Open(cur) - planned

Planned ==
  pc \in {"plan", "commit"} =>
    /\ PlanOrdered
    /\ \E f \in PlanSums :
         /\ f[Len(plan)] = IF pc = "plan" THEN planned ELSE Open(cur)
         /\ \A i \in 1 .. Len(plan) : PlanEntry(f, i) /\ PlanPriority(f, i)
    /\ pc = "plan" => PlanSweep

\* What the scan of one side has seen stays true while the other is scanned.
ScannedBids ==
  pc = "scanAsks" => \A x \in InTree("stopBids") : ~Triggered(order[x])

\* The inductive invariant: a sweep, a plan or a scan in progress is exactly
\* as far as its loop variables say, in a book whose orders are on their side,
\* in one place and uncrossed.
IInv ==
  /\ TypeOK
  /\ Sides
  /\ Arrival
  /\ Control
  /\ OnePlace
  /\ FlightOpen
  /\ Residents
  /\ AllOrNone
  /\ MatchSweep
  /\ SweepDone
  /\ Planned
  /\ ScannedBids
  /\ StopsUntriggered
  /\ Uncrossed
=============================================================================
