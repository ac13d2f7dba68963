---------------------------- MODULE ReportChannel ----------------------------
(***************************************************************************)
(* What the hand-off of reports promises: whatever the engine pushes is    *)
(* collected, once, in the order it was pushed, in portions of any size.   *)
(***************************************************************************)
EXTENDS Sequences, Naturals

CONSTANT Reports

VARIABLES
  sent,      \* what the engine has pushed
  received   \* what has been collected

vars == <<sent, received>>

Init == sent = <<>> /\ received = <<>>

Send(r) == sent' = Append(sent, r) /\ UNCHANGED received

\* Some more of what was sent, from where the last portion ended.
Receive(n) ==
  /\ n \in Len(received) + 1 .. Len(sent)
  /\ received' = SubSeq(sent, 1, n)
  /\ UNCHANGED sent

Next ==
  \/ \E r \in Reports : Send(r)
  \/ \E n \in 1 .. Len(sent) : Receive(n)

Spec == Init /\ [][Next]_vars
=============================================================================
