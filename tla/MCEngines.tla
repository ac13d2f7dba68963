----------------------------- MODULE MCEngines -----------------------------
(* Engines on a small instance: the messages of a workload. *)
EXTENDS Engines

Workload ==
  {Plain(TRUE, 1, 1, FALSE), Plain(TRUE, 2, 1, FALSE), Plain(TRUE, 2, 2, FALSE),
   Plain(FALSE, 1, 1, FALSE), Plain(FALSE, 1, 2, FALSE), Plain(FALSE, 2, 1, FALSE),
   Plain(TRUE, 2, 2, TRUE)}

Modifications == {[price |-> 1, qty |-> 2], [price |-> 2, qty |-> 1]}

\* With the orders a modify reinserts.
Submitted ==
  Workload \union {Plain(b, r.price, r.qty, FALSE) : b \in BOOLEAN, r \in Modifications}

\* The ids of a workload are an arbitrary permutation.
OrderSymmetry == Permutations(Ids)
=============================================================================
