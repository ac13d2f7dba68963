---------------------------- MODULE MCOrderChain ----------------------------
(* OrderChain for TLC: ids are interchangeable.                            *)
EXTENDS OrderChain

IdSymmetry == Permutations(Ids)
=============================================================================
