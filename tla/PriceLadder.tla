---------------------------- MODULE PriceLadder ----------------------------
(***************************************************************************)
(* What a side of the book promises about its price levels: an ascending   *)
(* list of distinct prices, of which one is added or removed at a time, or *)
(* all are dropped.                                                        *)
(***************************************************************************)
EXTENDS Naturals, SequencesExt

CONSTANT Prices

VARIABLE ladder

Init == ladder = <<>>

\* The lists with p behind the lower prices, and those with one price less.
With(list, p) ==
  {InsertAt(list, k + 1, p) :
     k \in {n \in 0 .. Len(list) : \A i \in DOMAIN list : i <= n <=> list[i] < p}}
Additions[list \in Seq(Prices)] ==
  UNION {With(list, p) : p \in Prices \ Range(list)}
Removals[list \in Seq(Prices)] == {RemoveAt(list, i) : i \in DOMAIN list}

Add == ladder' \in Additions[ladder]
Drop == ladder' \in Removals[ladder]
Clear == ladder' = <<>>

Next == Add \/ Drop \/ Clear

Spec == Init /\ [][Next]_ladder
=============================================================================
