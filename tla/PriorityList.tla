---------------------------- MODULE PriorityList ----------------------------
(***************************************************************************)
(* What one side of a book promises its matching loop: a walk over all     *)
(* resting orders, best price first and in order of arrival inside a price.*)
(***************************************************************************)
EXTENDS Naturals, SequencesExt

CONSTANTS Ids, Prices,
  Better(_, _)   \* the first price has priority over the second

VARIABLE list    \* the resting orders in priority order

Init == list = <<>>

Resting(l) == {o.id : o \in Range(l)}

Order == [id : Ids, price : Prices]

\* A new order goes behind everyone at its price or better.
Places(l, p) ==
  {k \in 0 .. Len(l) : \A i \in DOMAIN l : i <= k <=> ~ Better(p, l[i].price)}
WithOrder(l, o) == {InsertAt(l, k + 1, o) : k \in Places(l, o.price)}

Insertions[l \in Seq(Order)] ==
  UNION {WithOrder(l, o) : o \in {new \in Order : new.id \notin Resting(l)}}
Removals[l \in Seq(Order)] == {RemoveAt(l, i) : i \in DOMAIN l}

Arrive == list' \in Insertions[list]
Leave == list' \in Removals[list]

Next == Arrive \/ Leave

Spec == Init /\ [][Next]_list
=============================================================================
