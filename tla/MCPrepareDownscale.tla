------------------------- MODULE MCPrepareDownscale -------------------------
(* Small instances of PrepareDownscale.                                    *)
EXTENDS PrepareDownscale, TLC

CONSTANTS stsA, stsB, req1, req2

\* Two sets of one rollout group; the first one waits longer.
TwoSets == {stsA, stsB}
OneGroup == [z \in Set |-> 1]
MinTimes == [z \in Set |-> (IF z = stsA THEN 2 ELSE 1) * Second]

TwoReqs == {req1, req2}
ReqSymmetry == Permutations(Req)
=============================================================================
