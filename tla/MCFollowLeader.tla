--------------------------- MODULE MCFollowLeader ---------------------------
(* A small instance of FollowLeader.                                       *)
EXTENDS FollowLeader

\* The third zone follows the second, which follows the first and waits for it to
\* be ready.  The minimum times differ.
Chain == [replicas |-> <<1, 1, 1>>, max |-> 1, scaled |-> {1}, forced |-> {}, faults |-> 1,
          leader |-> <<NoLeader, 1, 2>>,
          whenReady |-> <<FALSE, TRUE, FALSE>>,
          minTime |-> <<1, 2, 1>>, noDownscale |-> {}]

\* Users also override the replicas of the second.
Forced == [Chain EXCEPT !.forced = {2}, !.faults = 0]

\* Both other zones follow the first.  The third one has the shorter minimum time,
\* and cannot be scaled down.
Labelled == [Chain EXCEPT !.leader = <<NoLeader, 1, 1>>, !.scaled = {1, 3}, !.noDownscale = {3}]

\* Two zones of up to two replicas, the second one being scaled up; the third one names a leader that does not exist.
Orphan == [replicas |-> <<1, 0, 0>>, max |-> 2, scaled |-> {1, 2}, forced |-> {}, faults |-> 0,
           leader |-> <<NoLeader, 1, Missing>>,
           whenReady |-> <<FALSE, TRUE, FALSE>>,
           minTime |-> <<1, 1, None>>, noDownscale |-> {}]

AllConfigs == {Chain, Forced, Labelled, Orphan}
=============================================================================
