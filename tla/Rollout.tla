------------------------------ MODULE Rollout ------------------------------
(***************************************************************************)
(* The rollout controller (pkg/controller/controller.go) on one rollout    *)
(* group whose replica counts are settled: the reconcile loop, the two     *)
(* informer caches it reads, the budget check of every deletion, and the   *)
(* cluster that recreates the pods.  StatefulSets and the pods of each are *)
(* numbered in the order of their names, which is the order the code uses. *)
(*                                                                         *)
(* A reconcile copies the StatefulSets at its start, reads the pods from   *)
(* the pod cache later, twice, and deletes pods by name later still; the   *)
(* cluster moves on between these steps.                                   *)
(***************************************************************************)
EXTENDS Integers, FiniteSets

CONSTANTS
    NumSets,        \* StatefulSets of the group
    Replicas,       \* Replicas[z]: spec.replicas of each
    MaxUnavailable, \* getMaxUnavailableForStatefulSet of each
    Revision,       \* controller revisions
    Bad,            \* the revisions whose pods crash
    Protected,      \* a zone-aware budget covers the pods
    ZpdbMax,        \* its maxUnavailable
    InformerPrompt, \* assumption: the caches are current when a reconcile starts
    StatusPrompt,   \* assumption: so is the status of every StatefulSet
    SnapshotPrompt, \* assumption: the pods are listed before the pod cache moves on
    ApiPrompt,      \* assumption: an allowed deletion is sent before the pod has restarted
    EventPrompt,    \* assumption: what a pod was before it is ready is handled by then
    Edits,          \* the kinds of edits that owners of StatefulSets make
    MaxEdits,       \* bound: edits of StatefulSets by their owners
    MaxFaults,      \* bound: pods that become unready, calls that fail
    MaxEvictions    \* bound: deletions of pods by others

Set == 1..NumSets
Pod == UNION {{z} \X (1..Replicas[z]) : z \in Set}
SetOf(p) == p[1]
PodsOf(z) == {p \in Pod : SetOf(p) = z}

ASSUME SizeAssumption ==
    /\ NumSets \in Nat \ {0} /\ ZpdbMax \in Nat \ {0}
    /\ Replicas \in [Set -> Nat \ {0}]
ASSUME LimitAssumption == MaxUnavailable \in [Set -> Nat \ {0}]
ASSUME RevisionAssumption == Bad \subseteq Revision
ASSUME SwitchAssumption ==
    /\ Protected \in BOOLEAN /\ InformerPrompt \in BOOLEAN
    /\ StatusPrompt \in BOOLEAN /\ SnapshotPrompt \in BOOLEAN
    /\ ApiPrompt \in BOOLEAN /\ EventPrompt \in BOOLEAN
ASSUME EditAssumption == Edits \subseteq {"release", "template", "pause", "strategy"}
ASSUME BoundAssumption == MaxEdits \in Nat /\ MaxFaults \in Nat /\ MaxEvictions \in Nat

VARIABLES
    pod,             \* the pods, as the API server has them
    sts,             \* the StatefulSets, as the API server has them
    podCache,        \* the pod informer's copy
    stsCache,        \* the StatefulSet informer's copy
    conflicts,       \* the StatefulSets written since the reconcile's copy of them
    shouldReconcile, \* the flag that wakes the loop
    rc,              \* where the reconcile stands
    pending,         \* the budget's eviction cache
    late,            \* pods that the budget's observer is yet to see not running
    down,            \* deleted by the controller when ready, not ready since
    left             \* what remains of the bounds

vars == <<pod, sts, podCache, stsCache, conflicts, shouldReconcile, rc, pending, late, down, left>>
rcVars == <<shouldReconcile, rc, conflicts>>
caches == <<podCache, stsCache>>

\* Draining and Stopping pods are terminating; a Draining one has not failed
\* its readiness probe yet and the StatefulSet still counts it as ready.
PodState == {"Absent", "Pending", "Unready", "Stuck", "Ready", "Draining", "Stopping"}
PodObject == [st : PodState, rev : Revision]
StsObject == [updateRev : Revision, currentRev : Revision, paused : BOOLEAN,
              onDelete : BOOLEAN, replicas : Nat, ready : Nat]

Idle == [pc |-> "idle"]
Checking == [pc : {"check"}, sets : [Set -> StsObject]]
Updating == [pc : {"update"}, sets : [Set -> StsObject], todo : SUBSET Set, front : SUBSET Set]
Batch == UNION {SUBSET PodsOf(z) : z \in Set}
Deleting == [pc : {"mark", "delete"}, queue : Batch]

Exists(obj) == obj.st # "Absent"
IsTerminating(obj) == obj.st \in {"Draining", "Stopping"}

IsPodRunningAndReadyMutant(obj) == obj.st \in {"Ready", "Draining"}

\* Running, with a true Ready condition, and not terminating.
IsPodRunningAndReady(obj) == obj.st = "Ready"

-----------------------------------------------------------------------------
(* What the reconcile computes from its copies.                            *)

\* The larger of spec.replicas and status.replicas.
expectedReplicas(s, z) == IF Replicas[z] > s.replicas THEN Replicas[z] ELSE s.replicas

listPodsByStatefulSetMutant(z) == {p \in Pod : Exists(podCache[p])}

listPodsByStatefulSet(z) == {p \in PodsOf(z) : Exists(podCache[p])}

\* The status must count every replica as ready, the pod cache must hold every
\* replica, and every one of them must be running, ready and not terminating.
hasStatefulSetNotReadyPods(s, z) ==
    \/ expectedReplicas(s, z) # s.ready
    \/ Cardinality(listPodsByStatefulSet(z)) < expectedReplicas(s, z)
    \/ \E p \in listPodsByStatefulSet(z) : ~IsPodRunningAndReady(podCache[p])

podsNotMatchingUpdateRevisionMutant(s, z) ==
    {p \in listPodsByStatefulSet(z) : podCache[p].rev # s.currentRev}

podsNotMatchingUpdateRevision(s, z) ==
    {p \in listPodsByStatefulSet(z) : podCache[p].rev # s.updateRev}

isPodStuckMutant(obj) == FALSE

isPodStuck(obj) == obj.st = "Stuck"

\* p comes before all other pods of S, which are of one set, in the order of names.
SortsFirst(p, S) == p \in S /\ \A q \in S : p[2] <= q[2]

\* The first numPods outdated pods, and every stuck one, that do not terminate
\* already.
numPodsMutant(s, z, outdated) ==
    LET budget == MaxUnavailable[z]
    IN  IF budget > Cardinality(outdated) THEN Cardinality(outdated) ELSE budget

numPods(s, z, outdated) ==
    LET budget == MaxUnavailable[z] - (expectedReplicas(s, z) - s.ready)
    IN  IF budget < 0 THEN 0
        ELSE IF budget > Cardinality(outdated) THEN Cardinality(outdated) ELSE budget

podsToDelete(s, z) ==
    LET outdated == podsNotMatchingUpdateRevision(s, z)
        batch == {p \in outdated : Cardinality({q \in outdated : q[2] < p[2]})
                                    < numPods(s, z, outdated)}
    IN  {p \in outdated : ~IsTerminating(podCache[p]) /\ (p \in batch \/ isPodStuck(podCache[p]))}

\* The next set in the order of names, except that one with not-ready pods is
\* moved to the front.
MoveStatefulSetToFront(todo, front) ==
    LET first == IF todo \cap front # {} THEN todo \cap front ELSE todo
    IN  CHOOSE z \in first : \A y \in first : z <= y

Init ==
    \E r \in Revision \ Bad :
      /\ pod = [p \in Pod |-> [st |-> "Ready", rev |-> r]]
      /\ sts = [z \in Set |-> [updateRev |-> r, currentRev |-> r, paused |-> FALSE,
                               onDelete |-> TRUE, replicas |-> Replicas[z], ready |-> Replicas[z]]]
      /\ podCache = pod
      /\ stsCache = sts
      /\ conflicts = {}
      /\ shouldReconcile = TRUE
      /\ rc = Idle
      /\ pending = {}
      /\ late = {}
      /\ down = {}
      /\ left = [edits |-> MaxEdits, faults |-> MaxFaults, evictions |-> MaxEvictions]

Spend(what) == left[what] > 0 /\ left' = [left EXCEPT ![what] = @ - 1]

\* The sets Z get a new resource version.
Written(Z) == conflicts' = IF rc.pc \in {"check", "update"} THEN conflicts \cup Z ELSE {}

-----------------------------------------------------------------------------
(* The reconcile loop.                                                     *)

\* The status of a StatefulSet says what its pods are.
StatusCurrent(z) ==
    /\ sts[z].replicas = Cardinality({p \in PodsOf(z) : Exists(pod[p])})
    /\ sts[z].ready = Cardinality({p \in PodsOf(z) : pod[p].st \in {"Ready", "Draining"}})

\* The reconcile ends; after an error the loop runs it again.
EndReconcile(failed) ==
    /\ rc' = Idle /\ conflicts' = {}
    /\ shouldReconcile' = (shouldReconcile \/ failed)

\* Run takes the flag and reconcile copies the StatefulSets.  A group with a
\* StatefulSet that is not OnDelete is an error.  A set that the informer's copy
\* lags behind has been written since.
StartReconcile ==
    /\ rc.pc = "idle" /\ shouldReconcile
    /\ InformerPrompt => podCache = pod /\ stsCache = sts
    /\ StatusPrompt => \A z \in Set : StatusCurrent(z)
    /\ IF \A z \in Set : stsCache[z].onDelete
       THEN /\ rc' = [pc |-> "check", sets |-> stsCache]
            /\ conflicts' = {z \in Set : stsCache[z] # sts[z]}
            /\ shouldReconcile' = FALSE
       ELSE UNCHANGED rcVars
    /\ UNCHANGED <<pod, sts, caches, pending, late, down, left>>

\* The sets with not-ready pods: with two or more nothing is done, a single one
\* is taken first.
tooManyNotReady(notReady) == Cardinality(notReady) > 1

CheckGroup ==
    LET notReady == {z \in Set : hasStatefulSetNotReadyPods(rc.sets[z], z)}
    IN  /\ rc.pc = "check"
        /\ IF tooManyNotReady(notReady)
           THEN EndReconcile(FALSE)
           ELSE /\ rc' = [pc |-> "update", sets |-> rc.sets, front |-> notReady,
                          todo |-> Set]
                /\ UNCHANGED <<shouldReconcile, conflicts>>
        /\ UNCHANGED <<pod, sts, caches, pending, late, down, left>>

NextSet(z) == rc' = [rc EXCEPT !.todo = @ \ {z}] /\ UNCHANGED shouldReconcile

\* The current revision is written with the copy's resource version: a
\* StatefulSet that was written since is a conflict, also if it changed back.
PromoteRevision(z) ==
    IF rc.sets[z].currentRev = rc.sets[z].updateRev
    THEN NextSet(z) /\ UNCHANGED <<sts, conflicts>>
    ELSE IF z \notin conflicts
    THEN /\ NextSet(z) /\ Written({z})
         /\ sts' = [sts EXCEPT ![z].currentRev = rc.sets[z].updateRev]
    ELSE EndReconcile(TRUE) /\ UNCHANGED sts

\* updateStatefulSetPods on the next set, up to the first deletion, unless the
\* set is paused.
UpdateSet ==
    /\ rc.pc = "update"
    /\ IF rc.todo = {}
       THEN EndReconcile(FALSE) /\ UNCHANGED sts
       ELSE LET z == MoveStatefulSetToFront(rc.todo, rc.front)
                s == rc.sets[z]
                queue == podsToDelete(s, z)
            IN  \/ /\ s.paused
                   /\ IF z \in rc.front
                      THEN EndReconcile(FALSE)
                      ELSE NextSet(z) /\ UNCHANGED conflicts
                   /\ UNCHANGED sts
                \/ /\ ~s.paused
                   /\ podsNotMatchingUpdateRevision(s, z) # {}
                   /\ IF queue = {}
                      THEN EndReconcile(FALSE)
                      ELSE /\ rc' = [pc |-> "mark", queue |-> queue] /\ conflicts' = {}
                           /\ UNCHANGED shouldReconcile
                   /\ UNCHANGED sts
                \/ /\ ~s.paused
                   /\ podsNotMatchingUpdateRevision(s, z) = {}
                   /\ IF hasStatefulSetNotReadyPods(s, z)
                      THEN EndReconcile(FALSE) /\ UNCHANGED sts
                      ELSE PromoteRevision(z)
    /\ UNCHANGED <<pod, caches, pending, late, down, left>>

\* The decision of the budget, which reads the live pods: not-started and
\* terminating pods are let go, other sets must be undisturbed, and the set of
\* the pod must have room.
ZpdbUnavailableMutant(z) == {p \in PodsOf(z) : ~IsPodRunningAndReady(pod[p])}

ZpdbUnavailable(z) == {p \in PodsOf(z) : ~IsPodRunningAndReady(pod[p]) \/ p \in pending}
ZpdbIgnores(p) == pod[p].st \in {"Pending", "Draining", "Stopping"}

ZpdbAllowsMutant(p) ==
    /\ Exists(pod[p])
    /\ \/ ZpdbIgnores(p)
       \/ /\ \A z \in Set \ {SetOf(p)} : ZpdbUnavailable(z) = {}
          /\ Cardinality(ZpdbUnavailable(SetOf(p)) \ {p}) <= ZpdbMax

ZpdbAllows(p) ==
    /\ Exists(pod[p])
    /\ \/ ZpdbIgnores(p)
       \/ /\ \A z \in Set \ {SetOf(p)} : ZpdbUnavailable(z) = {}
          /\ Cardinality(ZpdbUnavailable(SetOf(p)) \ {p}) < ZpdbMax

\* Pod p has been dealt with; the next one is asked for, or the reconcile ends.
NextPod(p) ==
    rc' = IF rc.queue = {p} THEN Idle ELSE [pc |-> "mark", queue |-> rc.queue \ {p}]

\* MarkPodAsDeleted: a refused pod is skipped.  Where no budget covers the pods
\* one that is gone is refused, unless the budget's pod cache still has it.
MarkPodAsDeleted(p) ==
    /\ rc.pc = "mark" /\ SortsFirst(p, rc.queue)
    /\ \/ /\ ~Protected \/ ZpdbAllows(p)
          /\ rc' = [rc EXCEPT !.pc = "delete"]
          /\ pending' = IF Protected /\ ~ZpdbIgnores(p) THEN pending \cup {p} ELSE pending
       \/ /\ IF Protected THEN ~ZpdbAllows(p) ELSE ~Exists(pod[p])
          /\ NextPod(p) /\ UNCHANGED pending
    /\ UNCHANGED <<pod, sts, caches, shouldReconcile, conflicts, late, down, left>>

DeleteInFlight(p) == rc.pc = "delete" /\ SortsFirst(p, rc.queue)

\* The watch reports pod p in a phase that is not Running.  The budget's observer
\* is told of the pods that a budget covers, behind all that it was told before.
Notify(p) == late' = IF Protected THEN late \cup {p} ELSE late

\* What deleting a pod by its name does to it.
Deleted(obj) ==
    [obj EXCEPT !.st = IF obj.st = "Ready" THEN "Draining"
                       ELSE IF obj.st \in {"Unready", "Stuck"} THEN "Stopping"
                       ELSE IF obj.st = "Pending" THEN "Absent" ELSE @]

\* The pod of that name is deleted, whatever its revision is by now; a pod that
\* is gone is an error, and ends the reconcile.
DeletePod(p) ==
    /\ DeleteInFlight(p)
    /\ IF Exists(pod[p])
       THEN /\ pod' = [pod EXCEPT ![p] = Deleted(@)]
            /\ IF pod[p].st = "Pending" THEN Notify(p) ELSE UNCHANGED late
            /\ down' = IF IsPodRunningAndReady(pod[p]) THEN down \cup {p} ELSE down
            /\ NextPod(p) /\ UNCHANGED <<shouldReconcile, conflicts>>
       ELSE EndReconcile(TRUE) /\ UNCHANGED <<pod, late, down>>
    /\ UNCHANGED <<sts, caches, pending, left>>

\* A call to the API server or the budget lookup fails: the reconcile ends with
\* an error.
ReconcileFails ==
    /\ rc.pc \in {"update", "delete"}
    /\ Spend("faults")
    /\ EndReconcile(TRUE)
    /\ UNCHANGED <<pod, sts, caches, pending, late, down>>

-----------------------------------------------------------------------------
(* The informers.                                                          *)

\* Updates of pods wake the loop, additions and removals do not.
SyncPods ==
    /\ podCache # pod
    /\ SnapshotPrompt => rc.pc \notin {"check", "update"}
    /\ podCache' = pod
    /\ shouldReconcile' =
         (shouldReconcile \/ \E p \in Pod : /\ Exists(podCache[p]) /\ Exists(pod[p])
                                           /\ podCache[p] # pod[p])
    /\ UNCHANGED <<pod, sts, stsCache, rc, conflicts, pending, late, down, left>>

SyncSets ==
    /\ stsCache # sts
    /\ stsCache' = sts
    /\ shouldReconcile' = TRUE
    /\ UNCHANGED <<pod, sts, podCache, rc, conflicts, pending, late, down, left>>

\* Every informerSyncInterval the informers replay their objects, whatever their
\* age, as updates: to the loop and to the budget's observer.
Resync ==
    /\ shouldReconcile' = TRUE
    /\ late' = late \cup {p \in Pod : Protected /\ podCache[p].st = "Pending"
                                     /\ (EventPrompt => ~IsPodRunningAndReady(pod[p]))}
    /\ UNCHANGED <<pod, sts, caches, rc, conflicts, pending, down, left>>

\* The budget's observer is told that p is, or long ago was, in a phase that is not
\* Running, not necessarily for the last time: the entry of p is deleted.
invalidatePodEvictionCache(p) ==
    /\ p \in late
    /\ pending' = pending \ {p}
    /\ late' \in {late, late \ {p}}
    /\ UNCHANGED <<pod, sts, caches, rcVars, down, left>>

\* The budget's entry for an eviction that was acted upon expires.
ExpireEntry(p) ==
    /\ p \in pending
    /\ ~DeleteInFlight(p)
    /\ pending' = pending \ {p}
    /\ UNCHANGED <<pod, sts, caches, rcVars, late, down, left>>

-----------------------------------------------------------------------------
(* The cluster.                                                            *)

Become(p, st) == pod' = [pod EXCEPT ![p].st = st]

\* A pod is created at the update revision.
PodCreated(p) ==
    /\ ~Exists(pod[p])
    /\ pod' = [pod EXCEPT ![p] = [st |-> "Pending", rev |-> sts[SetOf(p)].updateRev]]
    /\ Notify(p)
    /\ UNCHANGED <<sts, caches, rcVars, pending, down, left>>

\* A pod of a bad revision never gets ready.
PodStarts(p) ==
    /\ pod[p].st \in {"Pending", "Unready"}
    /\ ApiPrompt => ~DeleteInFlight(p)
    /\ IF pod[p].rev \in Bad
       THEN Become(p, "Stuck") /\ UNCHANGED down
       ELSE Become(p, "Ready") /\ down' = down \ {p} /\ (EventPrompt => p \notin late)
    /\ UNCHANGED <<sts, caches, rcVars, pending, late, left>>

\* A terminated pod may be reported as Succeeded or Failed.
PodStops(p) ==
    /\ \/ pod[p].st = "Draining" /\ (Become(p, "Stopping") \/ Become(p, "Absent"))
       \/ pod[p].st = "Stopping" /\ Become(p, "Absent")
    /\ Notify(p)
    /\ UNCHANGED <<sts, caches, rcVars, pending, down, left>>

\* The StatefulSet controller writes the status.
StatusUpdated(z) ==
    /\ ~StatusCurrent(z)
    /\ sts' = [sts EXCEPT ![z].replicas = Cardinality({p \in PodsOf(z) : Exists(pod[p])}),
                          ![z].ready = Cardinality({p \in PodsOf(z) :
                                                      pod[p].st \in {"Ready", "Draining"}})]
    /\ Written({z})
    /\ UNCHANGED <<pod, caches, shouldReconcile, rc, pending, late, down, left>>

PodFails(p) ==
    /\ pod[p].st = "Ready"
    /\ Spend("faults")
    /\ Become(p, "Unready")
    /\ UNCHANGED <<sts, caches, rcVars, pending, late, down>>

\* A pod is evicted.  Where a budget covers the pods it is asked first.
PodEvicted(p) ==
    /\ Exists(pod[p]) /\ ~IsTerminating(pod[p])
    /\ Protected => ZpdbAllows(p)
    /\ Spend("evictions")
    /\ pod' = [pod EXCEPT ![p] = Deleted(@)]
    /\ IF pod[p].st = "Pending" THEN Notify(p) ELSE UNCHANGED late
    /\ pending' = IF Protected /\ ~ZpdbIgnores(p) THEN pending \cup {p} ELSE pending
    /\ down' = IF Protected /\ IsPodRunningAndReady(pod[p]) THEN down \cup {p} ELSE down
    /\ UNCHANGED <<sts, caches, rcVars>>

\* The owner of a StatefulSet changes its template, pauses or resumes its
\* rollout, or changes its update strategy.
SetEdited(z) ==
    /\ Spend("edits")
    /\ \/ /\ "template" \in Edits
          /\ \E r \in Revision \ {sts[z].updateRev} : sts' = [sts EXCEPT ![z].updateRev = r]
       \/ "pause" \in Edits /\ sts' = [sts EXCEPT ![z].paused = ~@]
       \/ "strategy" \in Edits /\ sts' = [sts EXCEPT ![z].onDelete = ~@]
    /\ Written({z})
    /\ UNCHANGED <<pod, caches, shouldReconcile, rc, pending, late, down>>

\* One change of the template of every set of the group.
GroupEdited ==
    /\ "release" \in Edits
    /\ Spend("edits")
    /\ \E r \in Revision :
          /\ \A z \in Set : sts[z].updateRev # r
          /\ sts' = [z \in Set |-> [sts[z] EXCEPT !.updateRev = r]]
    /\ Written(Set)
    /\ UNCHANGED <<pod, caches, shouldReconcile, rc, pending, late, down>>

Reconcile ==
    \/ StartReconcile \/ CheckGroup \/ UpdateSet
    \/ \E p \in Pod : MarkPodAsDeleted(p) \/ DeletePod(p)

Controller == Reconcile \/ ReconcileFails

Informers ==
    \/ SyncPods \/ SyncSets \/ Resync
    \/ \E p \in Pod : invalidatePodEvictionCache(p) \/ ExpireEntry(p)

Cluster ==
    \/ \E p \in Pod : PodCreated(p) \/ PodStarts(p) \/ PodStops(p) \/ PodFails(p) \/ PodEvicted(p)
    \/ \E z \in Set : StatusUpdated(z) \/ SetEdited(z)
    \/ GroupEdited

Next == Controller \/ Informers \/ Cluster

Spec == Init /\ [][Next]_vars

\* The loop runs, the watches deliver, the resync timer fires, the kubelet and
\* the StatefulSet controller do their work, in whatever order of pods and sets.
Fairness ==
    /\ WF_vars(Reconcile)
    /\ WF_vars(SyncPods) /\ WF_vars(SyncSets) /\ WF_vars(Resync)
    /\ WF_vars(\E p \in Pod : PodCreated(p) \/ PodStarts(p) \/ PodStops(p))
    /\ WF_vars(\E p \in Pod : ExpireEntry(p))
    /\ WF_vars(\E z \in Set : StatusUpdated(z))

LiveSpec == Spec /\ Fairness

-----------------------------------------------------------------------------
(* Properties.                                                             *)

TypeOK ==
    /\ pod \in [Pod -> PodObject] /\ podCache \in [Pod -> PodObject]
    /\ sts \in [Set -> StsObject] /\ stsCache \in [Set -> StsObject]
    /\ conflicts \subseteq Set
    /\ shouldReconcile \in BOOLEAN
    /\ rc \in {Idle} \cup Checking \cup Updating \cup Deleting
    /\ pending \subseteq Pod /\ late \subseteq Pod /\ down \subseteq Pod
    /\ left \in [{"edits", "faults", "evictions"} -> Nat]

\* Pods that reconcileStatefulSetsGroup took down, and that have not been ready
\* since, belong to one StatefulSet: two sets are not rolled out at once.
OneSetAtATime == \A p, q \in down : SetOf(p) = SetOf(q)

\* updateStatefulSetPods has never more ready pods of a set taken down at once
\* than its rollout-max-unavailable annotation says.
WithinMaxUnavailable ==
    \A z \in Set : Cardinality({p \in down : SetOf(p) = z}) <= MaxUnavailable[z]

\* Where a zone-aware budget covers the pods, MarkPodAsDeleted and evictions by
\* others together have no more ready pods of a set taken down at once than it
\* permits, however old what updateStatefulSetPods has read is, as long as
\* invalidatePodEvictionCache does not hear of a pod's start after it is ready.
WithinBudget ==
    Protected => \A z \in Set : Cardinality({p \in down : SetOf(p) = z}) <= ZpdbMax

\* The current revision of a StatefulSet is only moved when every one of its
\* pods runs the revision it is moved to.
PromotedWhenRolledOut ==
    [][\A z \in Set : sts'[z].currentRev # sts[z].currentRev =>
          \A p \in PodsOf(z) : Exists(pod[p]) => pod[p].rev = sts'[z].currentRev]_vars

RolledOut(p) == pod[p].st = "Ready" /\ pod[p].rev = sts[SetOf(p)].updateRev
Settled == \A z \in Set : sts[z].onDelete /\ ~sts[z].paused /\ sts[z].updateRev \notin Bad

\* Once no set is paused and every template is one whose pods start, all pods
\* come to run it, the ones that a failed rollout left behind included, and the
\* current revision says so.
RolloutCompletes ==
    <>[]Settled => <>[](/\ \A p \in Pod : RolledOut(p)
                        /\ \A z \in Set : sts[z].currentRev = sts[z].updateRev)
=============================================================================
