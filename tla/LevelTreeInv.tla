---------------------------- MODULE LevelTreeInv ----------------------------
(***************************************************************************)
(* The inductive invariant of LevelTree.                                   *)
(*                                                                         *)
(* It says what the state represents through values that no variable       *)
(* holds: the set L of the linked levels, the set sub[l] of the levels at  *)
(* and below each of them, and the number bh[l] of black levels on every   *)
(* way down from it.  While a deletion is restored, one way down is a      *)
(* black level short: the child on side hd of the level hx.                *)
(*                                                                         *)
(* Its parts are stated of values, so that a lemma about one of them       *)
(* applies before and after a step alike.                                  *)
(***************************************************************************)
EXTENDS LevelTree

Beyond(d, m, l) == IF d = "left" THEN m < l ELSE l < m

Under(sub, l) == IF l = Nil THEN {} ELSE sub[l]

Trees == [root : Maybe, kid : [Sides -> [Prices -> Maybe]],
          parent : [Prices -> Maybe], color : [Prices -> Colors]]

-----------------------------------------------------------------------------
(* The tree.                                                               *)

\* sub[l] is l and what is under its children, which are on their side of it.
BranchOK(tr, L, sub, l) ==
  /\ \A d \in Sides : tr.kid[d][l] \in L \union {Nil}
  /\ sub[l] = {l} \union Under(sub, tr.kid["left"][l])
                  \union Under(sub, tr.kid["right"][l])
  /\ \A d \in Sides : \A m \in Under(sub, tr.kid[d][l]) : Beyond(d, m, l)

\* What is under a level is a subtree, and no other level lies between two
\* of its levels.
SubtreeOK(L, sub, l) ==
  /\ \A m \in sub[l] : sub[m] \subseteq sub[l]
  /\ \A m \in L \ sub[l] : \A a, b \in sub[l] : a < m => b < m

ParentOK(tr, L, l) ==
  /\ IF l = tr.root THEN tr.parent[l] = Nil
     ELSE tr.parent[l] \in L /\ \E d \in Sides : tr.kid[d][tr.parent[l]] = l
  /\ \A d \in Sides : tr.kid[d][l] # Nil => tr.parent[tr.kid[d][l]] = l

TreeOK(tr, L, sub) ==
  /\ tr \in Trees
  /\ L \subseteq Prices /\ IsFiniteSet(L)
  /\ sub \in [Prices -> SUBSET L]
  /\ IF L = {} THEN tr.root = Nil ELSE tr.root \in L /\ sub[tr.root] = L
  /\ \A l \in L : BranchOK(tr, L, sub, l)
  /\ \A l \in L : SubtreeOK(L, sub, l)
  /\ \A l \in L : ParentOK(tr, L, l)
  /\ \A l \in Prices \ L : /\ tr.kid["left"][l] = Nil /\ tr.kid["right"][l] = Nil
                           /\ tr.parent[l] = Nil

-----------------------------------------------------------------------------
(* The colours.                                                            *)

Unit(tr, l) == IF tr.color[l] = "black" THEN 1 ELSE 0

HeightOK(tr, bh, hx, hd, l) ==
  \A d \in Sides :
    bh[l] = bh[tr.kid[d][l]] + Unit(tr, l)
            + (IF l = hx /\ d = hd THEN 1 ELSE 0)

HeightsOK(tr, L, bh, hx, hd) ==
  /\ bh \in [Maybe -> Nat \ {0}] /\ bh[Nil] = 1
  /\ \A l \in L : HeightOK(tr, bh, hx, hd, l)
  /\ \A l \in Prices \ L : tr.color[l] = "black"

RedChild(tr, l, d) ==
  tr.color[l] = "red" /\ ColorOf(tr, tr.kid[d][l]) = "red"

\* A red level with a red child only where it is being restored.
ColorsOK(tr, L, state, y, yp, hd) ==
  CASE state = "idle" ->
         /\ \A l \in L : \A d \in Sides : ~ RedChild(tr, l, d)
         /\ ColorOf(tr, tr.root) = "black"
         /\ y = Nil /\ yp = Nil
    [] state = "inserting" ->
         /\ y \in L /\ tr.color[y] = "red" /\ yp = Nil
         /\ \A l \in L : \A d \in Sides : RedChild(tr, l, d) => y = tr.kid[d][l]
         /\ tr.root # y => ColorOf(tr, tr.root) = "black"
    [] state = "erasing" ->
         /\ \A l \in L : \A d \in Sides :
              RedChild(tr, l, d) => y \in {l, tr.kid[d][l]}
         /\ tr.root # y => ColorOf(tr, tr.root) = "black"
         /\ IF yp = Nil THEN y = tr.root
            ELSE yp \in L /\ hd \in Sides /\ tr.kid[hd][yp] = y
    [] OTHER -> FALSE

-----------------------------------------------------------------------------
(* The threads.                                                            *)

\* a is the level right below p, b the one right above it.
Below(L, p, a) ==
  IF a = Nil THEN \A m \in L : p <= m
  ELSE a \in L /\ a < p /\ \A m \in L : m <= a \/ p <= m
Above(L, p, b) ==
  IF b = Nil THEN \A m \in L : m <= p
  ELSE b \in L /\ p < b /\ \A m \in L : m <= p \/ b <= m

ThreadsOK(L, ty, pd, sc, top) ==
  /\ pd \in [Prices -> Maybe] /\ sc \in [Prices -> Maybe]
  /\ \A l \in L : Below(L, l, pd[l]) /\ Above(L, l, sc[l])
  /\ ty \in {"BID", "ASK"}
  /\ IF L = {} THEN top = Nil
     ELSE /\ top \in L
          /\ \A m \in L : IF ty = "BID" THEN m <= top ELSE top <= m

-----------------------------------------------------------------------------

Sound(L, sub, bh, hd) ==
  /\ TreeOK(t, L, sub)
  /\ HeightsOK(t, L, bh, xp, hd)
  /\ ColorsOK(t, L, pc, x, xp, hd)
  /\ ThreadsOK(L, type, pred, succ, best)

\* The levels of the tree are those of L.
Linked(L) == \E sub, bh, hd : Sound(L, sub, bh, hd)

IInv == \E L : Linked(L)
=============================================================================
