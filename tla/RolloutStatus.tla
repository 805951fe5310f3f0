--------------------------- MODULE RolloutStatus ---------------------------
(***************************************************************************)
(* The rollout status page (pkg/controller/status.go): Snapshot derives a  *)
(* phase for every StatefulSet, and one for the group, from the informer   *)
(* caches of Rollout, without any state of its own.  It repeats, in its    *)
(* own code, the order in which the reconcile takes the sets.              *)
(***************************************************************************)
EXTENDS Rollout

Phase == {"Degraded", "Paused", "Progressing", "Waiting", "Complete"}

\* Pods that exist and are not at the update revision.
needsUpdate(z) == podsNotMatchingUpdateRevision(stsCache[z], z) # {}

\* statefulSetHasNotReadyPods repeats the test of the reconcile; memberStatus
\* returns before it for a set that is not OnDelete.
NotReady(z) ==
    /\ stsCache[z].onDelete
    /\ \/ expectedReplicas(stsCache[z], z) # stsCache[z].ready
       \/ Cardinality(listPodsByStatefulSet(z)) < expectedReplicas(stsCache[z], z)
       \/ \E p \in listPodsByStatefulSet(z) : ~IsPodRunningAndReady(podCache[p])

memberStatus(z) ==
    CASE ~stsCache[z].onDelete -> "Degraded"
      [] stsCache[z].onDelete /\ needsUpdate(z) ->
           IF stsCache[z].paused THEN "Paused" ELSE "Progressing"
      [] stsCache[z].onDelete /\ ~needsUpdate(z) ->
           IF NotReady(z) \/ Replicas[z] # stsCache[z].ready THEN "Waiting" ELSE "Complete"

\* The sets that may go on being shown as progressing: none when a set is
\* degraded or two are not ready, only the one that is not ready if there is
\* one, and else the first in the order of names.
GatedMutant(notReady, progressing) ==
    IF progressing = {} THEN {} ELSE {CHOOSE z \in progressing : \A y \in progressing : z <= y}

Gated(notReady, progressing) ==
    IF \E z \in Set : memberStatus(z) = "Degraded" THEN {}
    ELSE IF notReady # {} THEN {z \in progressing : notReady = {z}}
    ELSE IF progressing = {} THEN {}
    ELSE {CHOOSE z \in progressing : \A y \in progressing : z <= y}

applyZoneGating ==
    LET progressing == {z \in Set : memberStatus(z) = "Progressing"}
        active == Gated({z \in Set : NotReady(z)}, progressing)
    IN  [z \in Set |-> IF z \in progressing \ active THEN "Waiting" ELSE memberStatus(z)]

\* The first of these phases that a member has, after gating.
priority == <<"Progressing", "Waiting", "Paused", "Complete">>

aggregateGroupPhase(members, notReady) ==
    LET shown == {members[z] : z \in Set}
    IN  IF "Degraded" \in shown THEN "Degraded"
        ELSE IF Cardinality(notReady) > 1 THEN "Waiting"
        ELSE priority[CHOOSE i \in 1..4 : /\ priority[i] \in shown
                                          /\ \A j \in 1..(i - 1) : priority[j] \notin shown]

GroupPhaseMutant == aggregateGroupPhase(applyZoneGating, Set)

\* What the page shows of the group.
GroupPhase == aggregateGroupPhase(applyZoneGating, {z \in Set : NotReady(z)})

-----------------------------------------------------------------------------
(* Properties.                                                             *)

\* The set whose pods the page shows as progressing is the one that
\* reconcileStatefulSetsGroup takes down: a reconcile whose copies are still
\* what the caches hold deletes pods of that set only, and it does not end
\* without an error while the set shown has pods it would delete.
StatusShowsActiveSet ==
    [][LET shown == {z \in Set : applyZoneGating[z] = "Progressing"}
       IN  rc.pc \in {"check", "update"} /\ rc.sets = stsCache =>
             /\ rc'.pc = "mark" => shown = {SetOf(p) : p \in rc'.queue}
             /\ rc'.pc = "idle" /\ ~shouldReconcile' =>
                  \A z \in shown : podsToDelete(stsCache[z], z) = {}]_vars

\* The page agrees with the end of a rollout: once the rollout can complete, the
\* group comes to be shown as complete and stays so, although the phase is put
\* together from gated phases and a count taken before the gating.
StatusSettles == <>[]Settled => <>[](GroupPhase = "Complete")
=============================================================================
