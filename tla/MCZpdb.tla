------------------------------- MODULE MCZpdb -------------------------------
(* Small instances of Zpdb.                                                *)
EXTENDS Zpdb, TLC

CONSTANTS zoneA, zoneB, zoneC, part0, part1, part2, budget1, budget2, pdb

MCBudget(name, max, pct, partitioned, delay) ==
    [name |-> name, max |-> max, pct |-> pct, partitioned |-> partitioned,
     delay |-> delay, sts |-> Zone]

\* zoneA and zoneB are alike in every instance, and so are the requests.
ZoneSymmetry == Permutations({zoneA, zoneB}) \cup Permutations(Req)

\* Two zones of one pod each.
TwoPods == {<<zoneA, part0>>, <<zoneB, part0>>}

\* The same pods; the budget is updated from half of a zone's replicas to one
\* pod of a partition and back while requests are being decided.
ReconfigPdb == [x \in Config |->
    IF x = budget1 THEN MCBudget(pdb, 0, 50, FALSE, FALSE) ELSE MCBudget(pdb, 1, 0, TRUE, FALSE)]

\* Partition mode with a cross-zone delay; zoneC has no pod of partition part0.
PartitionPod == {<<zoneA, part0>>, <<zoneB, part0>>, <<zoneC, part1>>}
PartitionTarget == {<<zoneA, part0>>, <<zoneB, part0>>}
PartitionPdb == [x \in Config |-> MCBudget(x, 2, 0, TRUE, TRUE)]
=============================================================================
