----------------------------- MODULE MCRollout -----------------------------
(* Small instances of Rollout.                                             *)
EXTENDS RolloutStatus, TLC

\* One of each set, and two of the first.
OneEach == [z \in Set |-> 1]
TwoAndOne == [z \in Set |-> IF z = 1 THEN 2 ELSE 1]
=============================================================================
