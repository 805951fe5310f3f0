---------------------------- MODULE ZpdbPromise ----------------------------
(***************************************************************************)
(* What the eviction webhook promises, without handlers, mutexes, lists,   *)
(* informers or caches: for every budget there is a set of pods that its   *)
(* evictions have taken out of service, an eviction adds one pod to it in  *)
(* one step, and only where the budget has room for that pod at that very  *)
(* moment.  Zpdb implements this module.                                   *)
(***************************************************************************)
EXTENDS Integers, FiniteSets

CONSTANTS
    Pod,    \* pods <<zone, partition>>
    Config, \* budgets
    Pdb,    \* their content: partition mode or not, and the zones
    Limit   \* Limit[c][z]: what budget c permits for a pod of zone z

VARIABLE out \* out[c]: the pods that are out of service by budget c

Init == out = [c \in Config |-> {}]

\* Zone mode: the pods out of service stay in one zone, and within its limit.
\* Partition mode: so do the zones that do not serve the pod's partition.
HasRoom(c, p) ==
    LET taken == out[c] \cup {p}
    IN  IF Pdb[c].partitioned
        THEN Cardinality({z \in Pdb[c].sts : <<z, p[2]>> \notin Pod \/ <<z, p[2]>> \in taken})
               <= Limit[c][p[1]]
        ELSE /\ \A q \in taken : q[1] = p[1]
             /\ Cardinality(taken) <= Limit[c][p[1]]

Evict(c, p) ==
    /\ p[1] \in Pdb[c].sts
    /\ HasRoom(c, p)
    /\ out' = [out EXCEPT ![c] = @ \cup {p}]

\* A pod is back, or an eviction of it is not carried out.
Return(p) ==
    \E C \in SUBSET Config : out' = [c \in Config |-> IF c \in C THEN out[c] \ {p} ELSE out[c]]

Next == \E p \in Pod : Return(p) \/ \E c \in Config : Evict(c, p)

Spec == Init /\ [][Next]_out
=============================================================================
