--------------------------- MODULE RolloutProofs ---------------------------
(***************************************************************************)
(* The rollout controller disrupts one StatefulSet at a time, for any      *)
(* number of sets, pods and revisions and any edits, faults and evictions: *)
(* by the order of its reconcile when its copies are current, and by the   *)
(* budget when its observer is prompt.  It moves the current revision      *)
(* when the pods have it, its status page shows the set it works on, and   *)
(* it stays within the limit of a set unless templates change too quickly. *)
(***************************************************************************)
EXTENDS RolloutStatus, FiniteSetTheorems, WellFoundedInduction, TLAPS

-----------------------------------------------------------------------------
(* Pods and their number.                                                  *)

LEMMA PodsAreReplicas ==
    ASSUME NEW z \in Set
    PROVE  PodsOf(z) = {z} \X (1..Replicas[z])
BY SMT DEF PodsOf, Pod, SetOf

LEMMA PodHasSet ==
    ASSUME NEW p \in Pod
    PROVE  SetOf(p) \in Set /\ p \in PodsOf(SetOf(p))
BY SMT DEF PodsOf, Pod, SetOf

LEMMA PodsFinite ==
    ASSUME NEW z \in Set
    PROVE  IsFiniteSet(PodsOf(z)) /\ Cardinality(PodsOf(z)) = Replicas[z]
<1>1. Replicas[z] \in Nat \ {0}
  BY SizeAssumption, Zenon
<1>2. IsFiniteSet(1..Replicas[z]) /\ Cardinality(1..Replicas[z]) = Replicas[z]
  BY <1>1, FS_Interval, SMTT(40)
<1>3. IsFiniteSet({z}) /\ Cardinality({z}) = 1
  BY FS_Singleton, Zenon
<1>4. /\ IsFiniteSet({z} \X (1..Replicas[z]))
      /\ Cardinality({z} \X (1..Replicas[z])) = Cardinality({z}) * Cardinality(1..Replicas[z])
  BY <1>2, <1>3, FS_Product, Zenon
<1>5. Cardinality({z} \X (1..Replicas[z])) = Replicas[z]
  BY <1>1, <1>2, <1>3, <1>4
<1>6. QED
  BY <1>4, <1>5, PodsAreReplicas, Zenon

LEMMA SetFinite == IsFiniteSet(Set)
BY SizeAssumption, FS_Interval DEF Set

\* What len(notReadySets) <= 1 means.
LEMMA AtMostOne ==
    ASSUME NEW S \in SUBSET Set, Cardinality(S) <= 1, NEW y \in S, NEW z \in S
    PROVE  y = z
<1>1. IsFiniteSet(S) /\ Cardinality(S) \in Nat
  BY SetFinite, FS_Subset, FS_CardinalityType, Zenon
<1>2. Cardinality(S) # 0
  BY <1>1, FS_EmptySet, Zenon
<1>3. Cardinality(S) = 1
  BY <1>1, <1>2
<1>4. PICK x : S = {x}
  BY <1>1, <1>3, FS_Singleton, Zenon
<1>5. QED
  BY <1>4, Zenon

\* The pods of a queue are told apart by their numbers.
LEMMA FirstIsUnique ==
    ASSUME NEW S \in SUBSET Pod, \A p, q \in S : SetOf(p) = SetOf(q),
           NEW p, NEW q, SortsFirst(p, S), SortsFirst(q, S)
    PROVE  p = q
<1>1. p \in S /\ q \in S /\ p[2] <= q[2] /\ q[2] <= p[2] /\ p[1] = q[1]
  BY Zenon DEF SortsFirst, SetOf
<1>2. PICK y \in Set : p \in {y} \X (1..Replicas[y])
  BY <1>1, Zenon DEF Pod
<1>3. PICK z \in Set : q \in {z} \X (1..Replicas[z])
  BY <1>1, Zenon DEF Pod
<1>4. y \in Int /\ z \in Int /\ Replicas[y] \in Nat /\ Replicas[z] \in Nat
  BY SizeAssumption DEF Set
<1>5. p = <<p[1], p[2]>> /\ q = <<q[1], q[2]>> /\ p[2] \in Int /\ q[2] \in Int
  BY <1>2, <1>3, <1>4
<1>6. QED
  BY <1>1, <1>5

\* The set that a reconcile takes next is one that it has not dealt with yet.
LEMMA LeastOf ==
    ASSUME NEW S \in SUBSET Set, S # {}
    PROVE  /\ (CHOOSE z \in S : \A y \in S : z <= y) \in S
           /\ \A y \in S : (CHOOSE z \in S : \A x \in S : z <= x) <= y
<1>1. S \subseteq Nat
  BY DEF Set
<1>2. PICK m \in S : \A y \in S : ~(<<y, m>> \in OpToRel(<, Nat))
  BY <1>1, WFMin, NatLessThanWellFounded, Zenon
<1>3. ASSUME NEW y \in S, y < m
      PROVE  FALSE
  <2>1. <<y, m>> \in Nat \X Nat /\ <<y, m>>[1] < <<y, m>>[2]
    BY <1>1, <1>3, Zenon
  <2>2. <<y, m>> \in OpToRel(<, Nat)
    BY <2>1, Zenon DEF OpToRel
  <2>3. QED
    BY <1>2, <2>2, Zenon
<1>4. \A y \in S : m <= y
  BY <1>1, <1>3
<1>5. QED
  BY <1>4, Zenon

LEMMA NextOfTodo ==
    ASSUME NEW todo \in SUBSET Set, NEW front, todo # {}
    PROVE  /\ MoveStatefulSetToFront(todo, front) \in todo
           /\ todo \cap front # {} => MoveStatefulSetToFront(todo, front) \in front
           /\ todo \cap front = {} => \A y \in todo : MoveStatefulSetToFront(todo, front) <= y
<1>1. CASE todo \cap front # {}
  <2>1. todo \cap front \in SUBSET Set
    BY Zenon
  <2>2. MoveStatefulSetToFront(todo, front) \in todo \cap front
    BY <1>1, <2>1, LeastOf, Zenon DEF MoveStatefulSetToFront
  <2>3. QED
    BY <1>1, <2>2, Zenon
<1>2. CASE todo \cap front = {}
  BY <1>2, LeastOf, Zenon DEF MoveStatefulSetToFront
<1>3. QED
  BY <1>1, <1>2, Zenon

-----------------------------------------------------------------------------
(* Types.                                                                  *)

LEMMA InitType == Init => TypeOK
<1> SUFFICES ASSUME Init PROVE TypeOK
  BY Zenon
<1>1. PICK r \in Revision \ Bad :
        /\ pod = [p \in Pod |-> [st |-> "Ready", rev |-> r]]
        /\ sts = [z \in Set |-> [updateRev |-> r, currentRev |-> r, paused |-> FALSE, onDelete |-> TRUE,
                                 replicas |-> Replicas[z], ready |-> Replicas[z]]]
        /\ podCache = pod /\ stsCache = sts /\ conflicts = {}
        /\ shouldReconcile = TRUE
        /\ rc = Idle /\ pending = {} /\ late = {} /\ down = {}
        /\ left = [edits |-> MaxEdits, faults |-> MaxFaults, evictions |-> MaxEvictions]
  BY Zenon DEF Init
<1>2. pod \in [Pod -> PodObject]
  BY <1>1, Zenon DEF PodObject, PodState
<1>3. sts \in [Set -> StsObject]
  <2>1. \A z \in Set : Replicas[z] \in Nat
    BY SizeAssumption, Zenon
  <2>2. QED
    BY <1>1, <2>1, Zenon DEF StsObject
<1>4. left \in [{"edits", "faults", "evictions"} -> Nat]
  BY <1>1, BoundAssumption
<1>5. QED
  BY <1>1, <1>2, <1>3, <1>4, Zenon DEF TypeOK

\* The parts of TypeOK.
PodsType == pod \in [Pod -> PodObject] /\ podCache \in [Pod -> PodObject]
SetsType == sts \in [Set -> StsObject] /\ stsCache \in [Set -> StsObject]
RcType == rc \in {Idle} \cup Checking \cup Updating \cup Deleting

\* What RcType says at each step of the reconcile.
LEMMA RcByPc ==
    ASSUME RcType
    PROVE  /\ rc.pc \in {"idle", "check", "update", "mark", "delete"}
           /\ rc.pc = "idle" => rc = Idle
           /\ rc.pc = "check" => rc \in Checking
           /\ rc.pc = "update" => rc \in Updating
           /\ rc.pc \in {"mark", "delete"} => rc \in Deleting
BY DEF RcType, Idle, Checking, Updating, Deleting

\* A queue of deletions is one of pods of one set.
LEMMA QueueOfSet ==
    ASSUME RcType, rc.pc \in {"mark", "delete"}
    PROVE  /\ rc.queue \in Batch /\ rc.queue \subseteq Pod
           /\ \A p, q \in rc.queue : SetOf(p) = SetOf(q)
<1>1. rc.queue \in Batch
  BY RcByPc, Zenon DEF Deleting
<1>2. QED
  BY <1>1, Zenon DEF Batch, PodsOf

LEMMA BatchOfSet ==
    ASSUME NEW z \in Set, NEW T, T \subseteq PodsOf(z)
    PROVE  T \in Batch
BY SMT DEF Batch

LEMMA SmallerBatch ==
    ASSUME NEW S \in Batch, NEW T, T \subseteq S
    PROVE  T \in Batch
BY Zenon DEF Batch

LEMMA DeletedType ==
    ASSUME NEW obj \in PodObject
    PROVE  Deleted(obj) \in PodObject /\ Deleted(obj).st # "Ready"
BY Zenon DEF Deleted, PodObject, PodState

LEMMA EditedType ==
    ASSUME NEW s \in StsObject
    PROVE  /\ \A r \in Revision : [s EXCEPT !.updateRev = r] \in StsObject
           /\ [s EXCEPT !.paused = ~@] \in StsObject
           /\ [s EXCEPT !.onDelete = ~@] \in StsObject
<1>1. (~s.paused) \in BOOLEAN /\ (~s.onDelete) \in BOOLEAN
  BY Zenon
<1>2. QED
  BY <1>1, Zenon DEF StsObject

LEMMA PodsTypeStep ==
    ASSUME PodsType, SetsType, [Next]_vars
    PROVE  PodsType'
<1>1. CASE \E p \in Pod : DeletePod(p)
  BY <1>1, DeletedType, Zenon DEF DeletePod, caches, PodsType
<1>2. CASE \E p \in Pod : PodCreated(p)
  <2>1. PICK p \in Pod : PodCreated(p)
    BY <1>2, Zenon
  <2>2. sts[SetOf(p)].updateRev \in Revision
    BY PodHasSet, Zenon DEF SetsType, StsObject
  <2>3. QED
    BY <2>1, <2>2, Zenon DEF PodCreated, caches, PodsType, PodObject, PodState
<1>3. CASE \E p \in Pod : PodStarts(p) \/ PodStops(p) \/ PodFails(p) \/ PodEvicted(p)
  BY <1>3, SMTT(40) DEF PodStarts, PodStops, PodFails, PodEvicted, Become, Deleted, caches, PodsType, PodObject, PodState
<1>4. CASE SyncPods
  BY <1>4, Zenon DEF SyncPods, PodsType
<1>5. CASE StartReconcile \/ CheckGroup \/ UpdateSet \/ (\E p \in Pod : MarkPodAsDeleted(p)) \/ ReconcileFails
  BY <1>5, Zenon DEF StartReconcile, CheckGroup, UpdateSet, MarkPodAsDeleted, ReconcileFails, caches, PodsType
<1>6. CASE SyncSets \/ Resync \/ (\E p \in Pod : invalidatePodEvictionCache(p) \/ ExpireEntry(p)) \/ (\E z \in Set : StatusUpdated(z) \/ SetEdited(z)) \/ GroupEdited
  BY <1>6, Zenon DEF SyncSets, Resync, invalidatePodEvictionCache, ExpireEntry, StatusUpdated, SetEdited, GroupEdited, caches, PodsType
<1>7. CASE UNCHANGED vars
  BY <1>7, Zenon DEF vars, PodsType
<1>8. QED
  BY <1>1, <1>2, <1>3, <1>4, <1>5, <1>6, <1>7, Zenon DEF Next, Controller, Reconcile, Informers, Cluster

LEMMA SetsTypeStep ==
    ASSUME SetsType, RcType, [Next]_vars
    PROVE  SetsType'
<1>1. CASE UpdateSet
  <2>1. sts' = sts \/ \E z : sts' = [sts EXCEPT ![z].currentRev = rc.sets[z].updateRev]
    BY <1>1, Zenon DEF UpdateSet, PromoteRevision
  <2>2. rc.sets \in [Set -> StsObject]
    BY <1>1, RcByPc, Zenon DEF UpdateSet, Updating
  <2>3. QED
    BY <1>1, <2>1, <2>2, SMTT(40) DEF UpdateSet, caches, SetsType, StsObject
<1>2. CASE \E z \in Set : StatusUpdated(z)
  <2>1. PICK z \in Set : StatusUpdated(z)
    BY <1>2, Zenon
  <2> DEFINE exist == {p \in PodsOf(z) : Exists(pod[p])}
             ready == {p \in PodsOf(z) : pod[p].st \in {"Ready", "Draining"}}
  <2>2. Cardinality(exist) \in Nat /\ Cardinality(ready) \in Nat
    <3>1. exist \subseteq PodsOf(z) /\ ready \subseteq PodsOf(z)
      BY Zenon
    <3> HIDE DEF exist, ready
    <3>2. QED
      BY <3>1, PodsFinite, FS_Subset, FS_CardinalityType, Zenon
  <2>3. sts' = [sts EXCEPT ![z].replicas = Cardinality(exist), ![z].ready = Cardinality(ready)]
        /\ stsCache' = stsCache
    BY <2>1, Zenon DEF StatusUpdated, caches
  <2> HIDE DEF exist, ready
  <2>4. QED
    BY <2>2, <2>3, ZenonT(30) DEF SetsType, StsObject
<1>3. CASE \E z \in Set : SetEdited(z)
  <2>1. PICK z \in Set : SetEdited(z)
    BY <1>3, Zenon
  <2>2. \E s \in StsObject : sts' = [sts EXCEPT ![z] = s]
    BY <2>1, EditedType, Zenon DEF SetEdited, SetsType
  <2>3. QED
    BY <2>1, <2>2, Zenon DEF SetEdited, caches, SetsType
<1>9. CASE GroupEdited
  <2>1. PICK r \in Revision : sts' = [z \in Set |-> [sts[z] EXCEPT !.updateRev = r]]
    BY <1>9, Zenon DEF GroupEdited
  <2>2. \A z \in Set : [sts[z] EXCEPT !.updateRev = r] \in StsObject
    BY EditedType, Zenon DEF SetsType
  <2>3. QED
    BY <1>9, <2>1, <2>2, Zenon DEF GroupEdited, caches, SetsType
<1>4. CASE SyncSets
  BY <1>4, Zenon DEF SyncSets, SetsType
<1>5. CASE \E p \in Pod : \/ MarkPodAsDeleted(p) \/ DeletePod(p) \/ invalidatePodEvictionCache(p) \/ ExpireEntry(p)
                         \/ PodCreated(p) \/ PodStarts(p) \/ PodStops(p) \/ PodFails(p) \/ PodEvicted(p)
  BY <1>5, Zenon DEF MarkPodAsDeleted, DeletePod, invalidatePodEvictionCache, ExpireEntry, PodCreated, PodStarts, PodStops, PodFails, PodEvicted,
              caches, SetsType
<1>6. CASE StartReconcile \/ CheckGroup \/ ReconcileFails \/ SyncPods \/ Resync
  BY <1>6, Zenon DEF StartReconcile, CheckGroup, ReconcileFails, SyncPods, Resync, caches, SetsType
<1>7. CASE UNCHANGED vars
  BY <1>7, Zenon DEF vars, SetsType
<1>8. QED
  BY <1>1, <1>2, <1>3, <1>4, <1>5, <1>6, <1>7, <1>9, Zenon DEF Next, Controller, Reconcile, Informers, Cluster

LEMMA RcTypeStep ==
    ASSUME SetsType, RcType, [Next]_vars
    PROVE  RcType'
<1>1. CASE StartReconcile
  <2>1. rc' = rc \/ rc' = [pc |-> "check", sets |-> stsCache]
    BY <1>1, Zenon DEF StartReconcile, rcVars
  <2>2. QED
    BY <2>1 DEF RcType, SetsType, Checking
<1>2. CASE CheckGroup
  <2> DEFINE notReady == {z \in Set : hasStatefulSetNotReadyPods(rc.sets[z], z)}
  <2>1. notReady \in SUBSET Set /\ rc \in Checking
    BY <1>2, RcByPc, Zenon DEF CheckGroup
  <2>2. rc' = Idle \/ rc' = [pc |-> "update", sets |-> rc.sets, front |-> notReady, todo |-> Set]
    BY <1>2, Zenon DEF CheckGroup, EndReconcile
  <2> HIDE DEF notReady
  <2>3. QED
    BY <2>1, <2>2 DEF RcType, Checking, Updating
<1>3. CASE UpdateSet
  <2>1. rc \in Updating
    BY <1>3, RcByPc, Zenon DEF UpdateSet
  <2>2. \/ rc' = Idle
        \/ \E z : rc' = [rc EXCEPT !.todo = @ \ {z}]
        \/ /\ rc.todo # {}
           /\ \E z \in {MoveStatefulSetToFront(rc.todo, rc.front)} :
                 rc' = [pc |-> "mark", queue |-> podsToDelete(rc.sets[z], z)]
    BY <1>3, Zenon DEF UpdateSet, EndReconcile, NextSet, PromoteRevision
  <2>3. ASSUME NEW s, NEW z \in Set
        PROVE  podsToDelete(s, z) \in Batch
    <3>1. podsToDelete(s, z) \subseteq PodsOf(z)
      BY Zenon DEF podsToDelete, podsNotMatchingUpdateRevision, listPodsByStatefulSet
    <3>2. QED
      BY <3>1, BatchOfSet, Zenon
  <2>4. CASE /\ rc.todo # {}
             /\ \E z \in {MoveStatefulSetToFront(rc.todo, rc.front)} :
                   rc' = [pc |-> "mark", queue |-> podsToDelete(rc.sets[z], z)]
    <3>1. PICK z \in Set : rc' = [pc |-> "mark", queue |-> podsToDelete(rc.sets[z], z)]
      <4>1. rc.todo \in SUBSET Set
        BY <2>1, Zenon DEF Updating
      <4>2. MoveStatefulSetToFront(rc.todo, rc.front) \in Set
        BY <2>4, <4>1, NextOfTodo, Zenon
      <4>3. QED
        BY <2>4, <4>2, Zenon
    <3>2. PICK Q \in Batch : rc' = [pc |-> "mark", queue |-> Q]
      BY <3>1, <2>3, Zenon
    <3>3. QED
      BY <3>2, Zenon DEF RcType, Deleting
  <2>5. QED
    BY <2>1, <2>2, <2>4 DEF RcType, Updating
<1>4. CASE \E p \in Pod : MarkPodAsDeleted(p) \/ DeletePod(p)
  <2>1. rc \in Deleting
    BY <1>4, RcByPc, Zenon DEF MarkPodAsDeleted, DeletePod, DeleteInFlight
  <2>2. PICK p \in Pod : \/ rc' = Idle
                         \/ rc' = [rc EXCEPT !.pc = "delete"]
                         \/ rc' = [pc |-> "mark", queue |-> rc.queue \ {p}]
    BY <1>4, Zenon DEF MarkPodAsDeleted, DeletePod, NextPod, EndReconcile
  <2>3. rc.queue \ {p} \in Batch
    BY <2>1, SmallerBatch, Zenon DEF Deleting
  <2>4. CASE rc' = [rc EXCEPT !.pc = "delete"]
    BY <2>1, <2>4, SMTT(40) DEF RcType, Deleting
  <2>5. CASE rc' = [pc |-> "mark", queue |-> rc.queue \ {p}]
    BY <2>3, <2>5, Zenon DEF RcType, Deleting
  <2>6. QED
    BY <2>2, <2>4, <2>5, Zenon DEF RcType
<1>5. CASE ReconcileFails
  BY <1>5, Zenon DEF ReconcileFails, EndReconcile, RcType
<1>6. CASE SyncPods \/ SyncSets \/ Resync \/ GroupEdited \/ \E z \in Set : StatusUpdated(z) \/ SetEdited(z)
  BY <1>6, Zenon DEF SyncPods, SyncSets, Resync, GroupEdited, StatusUpdated, SetEdited, rcVars, RcType
<1>7. CASE \E p \in Pod : \/ invalidatePodEvictionCache(p) \/ ExpireEntry(p) \/ PodCreated(p) \/ PodStarts(p)
                         \/ PodStops(p) \/ PodFails(p) \/ PodEvicted(p)
  BY <1>7, Zenon DEF invalidatePodEvictionCache, ExpireEntry, PodCreated, PodStarts, PodStops, PodFails, PodEvicted, rcVars, RcType
<1>8. CASE UNCHANGED vars
  BY <1>8, Zenon DEF vars, RcType
<1>9. QED
  BY <1>1, <1>2, <1>3, <1>4, <1>5, <1>6, <1>7, <1>8, Zenon DEF Next, Controller, Reconcile, Informers, Cluster

\* The flag, the sets of pods, and what is left of the bounds.
RestType ==
    /\ conflicts \subseteq Set
    /\ shouldReconcile \in BOOLEAN
    /\ pending \subseteq Pod /\ late \subseteq Pod /\ down \subseteq Pod
    /\ left \in [{"edits", "faults", "evictions"} -> Nat]

LEMMA SpendType ==
    ASSUME RestType, NEW what \in {"edits", "faults", "evictions"}, Spend(what)
    PROVE  left' \in [{"edits", "faults", "evictions"} -> Nat]
BY DEF RestType, Spend

LEMMA WrittenType ==
    ASSUME RestType, NEW Z \in SUBSET Set, Written(Z)
    PROVE  conflicts' \subseteq Set
BY Zenon DEF RestType, Written

LEMMA ConflictsTypeStep ==
    ASSUME RestType, RcType, [Next]_vars
    PROVE  conflicts' \subseteq Set
<1>1. CASE UpdateSet
  <2>1. rc \in Updating
    BY <1>1, RcByPc, Zenon DEF UpdateSet
  <2>2. \/ UNCHANGED conflicts \/ conflicts' = {}
        \/ rc.todo # {} /\ Written({MoveStatefulSetToFront(rc.todo, rc.front)})
    BY <1>1, Zenon DEF UpdateSet, PromoteRevision, EndReconcile
  <2>3. rc.todo # {} => {MoveStatefulSetToFront(rc.todo, rc.front)} \in SUBSET Set
    <3>1. rc.todo \in SUBSET Set
      BY <2>1, Zenon DEF Updating
    <3>2. rc.todo # {} => MoveStatefulSetToFront(rc.todo, rc.front) \in rc.todo
      BY <3>1, NextOfTodo, Zenon
    <3>3. QED
      BY <3>1, <3>2, Zenon
  <2>4. QED
    BY <2>2, <2>3, WrittenType, Zenon DEF RestType
<1>2. CASE GroupEdited \/ \E z \in Set : StatusUpdated(z) \/ SetEdited(z)
  <2>1. \E Z \in SUBSET Set : Written(Z)
    BY <1>2, Zenon DEF GroupEdited, StatusUpdated, SetEdited
  <2>2. QED
    BY <2>1, WrittenType, Zenon
<1>3. CASE StartReconcile \/ CheckGroup \/ ReconcileFails
  BY <1>3, Zenon DEF StartReconcile, CheckGroup, ReconcileFails, EndReconcile, rcVars, RestType
<1>4. CASE Informers \/ UNCHANGED vars
  BY <1>4, Zenon DEF Informers, SyncPods, SyncSets, Resync, invalidatePodEvictionCache, ExpireEntry, rcVars, vars, RestType
<1>5. CASE \E p \in Pod : MarkPodAsDeleted(p) \/ DeletePod(p)
  BY <1>5, Zenon DEF MarkPodAsDeleted, DeletePod, EndReconcile, RestType
<1>6. CASE \E p \in Pod : PodCreated(p) \/ PodStarts(p) \/ PodStops(p) \/ PodFails(p) \/ PodEvicted(p)
  BY <1>6, Zenon DEF PodCreated, PodStarts, PodStops, PodFails, PodEvicted, rcVars, RestType
<1>7. QED
  BY <1>1, <1>2, <1>3, <1>4, <1>5, <1>6, Zenon DEF Next, Controller, Reconcile, Cluster

LEMMA RestTypeStep ==
    ASSUME RestType, RcType, [Next]_vars
    PROVE  RestType'
<1>1. shouldReconcile' \in BOOLEAN
  <2>1. CASE UNCHANGED shouldReconcile
    BY <2>1, Zenon DEF RestType
  <2>2. CASE \E b \in BOOLEAN : shouldReconcile' = (shouldReconcile \/ b)
    BY <2>2, Zenon
  <2>3. CASE shouldReconcile' \in {TRUE, FALSE}
    BY <2>3, Zenon
  <2>4. CASE SyncPods
    BY <2>4, Zenon DEF SyncPods
  <2>5. CASE Controller
    BY <2>1, <2>2, <2>3, <2>5, Zenon DEF Controller, Reconcile, StartReconcile, CheckGroup, UpdateSet, PromoteRevision,
         NextSet, MarkPodAsDeleted, DeletePod, ReconcileFails, EndReconcile, rcVars
  <2>6. QED
    BY <2>1, <2>3, <2>4, <2>5, Zenon DEF Next, vars, Informers, SyncSets, Resync, invalidatePodEvictionCache, ExpireEntry, Cluster, PodCreated,
         PodStarts, PodStops, PodFails, PodEvicted, StatusUpdated, SetEdited, GroupEdited, rcVars
<1>2. pending' \subseteq Pod
  BY Zenon DEF RestType, Next, vars, Controller, Reconcile, StartReconcile, CheckGroup, UpdateSet, MarkPodAsDeleted,
         DeletePod, ReconcileFails, Informers, SyncPods, SyncSets, Resync, invalidatePodEvictionCache, ExpireEntry, Cluster, PodCreated, PodStarts,
         PodStops, PodFails, PodEvicted, StatusUpdated, SetEdited, GroupEdited
<1>6. late' \subseteq Pod
  <2>1. (\E p \in Pod : Notify(p)) \/ late' \subseteq late \/ Resync
    BY Zenon DEF Next, vars, Controller, Reconcile, StartReconcile, CheckGroup, UpdateSet, MarkPodAsDeleted,
         DeletePod, ReconcileFails, Informers, SyncPods, SyncSets, invalidatePodEvictionCache, ExpireEntry, Cluster,
         PodCreated, PodStarts, PodStops, PodFails, PodEvicted, StatusUpdated, SetEdited, GroupEdited
  <2>2. QED
    BY <2>1, Zenon DEF Notify, Resync, RestType
<1>3. down' \subseteq Pod
  BY Zenon DEF RestType, Next, vars, Controller, Reconcile, StartReconcile, CheckGroup, UpdateSet, MarkPodAsDeleted,
         DeletePod, ReconcileFails, Informers, SyncPods, SyncSets, Resync, invalidatePodEvictionCache, ExpireEntry, Cluster, PodCreated, PodStarts,
         PodStops, PodFails, PodEvicted, StatusUpdated, SetEdited, GroupEdited
<1>4. left' \in [{"edits", "faults", "evictions"} -> Nat]
  <2>1. UNCHANGED left \/ Spend("edits") \/ Spend("faults") \/ Spend("evictions")
    BY Zenon DEF Next, vars, Controller, Reconcile, StartReconcile, CheckGroup, UpdateSet, MarkPodAsDeleted,
         DeletePod, ReconcileFails, Informers, SyncPods, SyncSets, Resync, invalidatePodEvictionCache, ExpireEntry, Cluster, PodCreated, PodStarts,
         PodStops, PodFails, PodEvicted, StatusUpdated, SetEdited, GroupEdited
  <2>2. QED
    BY <2>1, SpendType, Zenon DEF RestType
<1>5. QED
  BY <1>1, <1>2, <1>3, <1>4, <1>6, ConflictsTypeStep, Zenon DEF RestType

LEMMA TypeStep ==
    ASSUME TypeOK, [Next]_vars
    PROVE  TypeOK'
<1>1. PodsType /\ SetsType /\ RcType /\ RestType
  BY Zenon DEF TypeOK, PodsType, SetsType, RcType, RestType
<1>2. PodsType' /\ SetsType' /\ RcType' /\ RestType'
  BY <1>1, PodsTypeStep, SetsTypeStep, RcTypeStep, RestTypeStep, Zenon
<1>3. QED
  BY <1>2, Zenon DEF TypeOK, PodsType, SetsType, RcType, RestType

\* Every variable of the rollout controller keeps its type, for any number of
\* StatefulSets, pods and revisions.
THEOREM TypeCorrect == Spec => []TypeOK
<1>1. QED
  BY InitType, TypeStep, PTL DEF Spec

-----------------------------------------------------------------------------
(* What was taken down is not ready.                                       *)

\* A pod that the controller took down has not been ready since.
DownNotReady == \A p \in down : pod[p].st # "Ready"

LEMMA DownNotReadyStep ==
    ASSUME TypeOK, DownNotReady, [Next]_vars
    PROVE  DownNotReady'
<1>1. CASE \E p \in Pod : DeletePod(p) \/ PodEvicted(p)
  <2>1. PICK p \in Pod : DeletePod(p) \/ PodEvicted(p)
    BY <1>1, Zenon
  <2>2. \/ pod' = pod /\ down' = down
        \/ pod' = [pod EXCEPT ![p] = Deleted(@)] /\ down' \subseteq down \cup {p}
    BY <2>1, Zenon DEF DeletePod, PodEvicted
  <2>3. pod[p] \in PodObject /\ pod \in [Pod -> PodObject] /\ down \subseteq Pod
    BY Zenon DEF TypeOK
  <2>4. QED
    BY <2>2, <2>3, DeletedType, Zenon DEF DownNotReady
<1>2. CASE \E p \in Pod : PodStarts(p)
  <2>1. PICK p \in Pod : PodStarts(p)
    BY <1>2, Zenon
  <2>2. \/ pod' = [pod EXCEPT ![p].st = "Stuck"] /\ down' = down
        \/ pod' = [pod EXCEPT ![p].st = "Ready"] /\ down' = down \ {p}
    BY <2>1, Zenon DEF PodStarts, Become
  <2>3. pod \in [Pod -> PodObject] /\ down \subseteq Pod
    BY Zenon DEF TypeOK
  <2>4. QED
    BY <2>2, <2>3, Zenon DEF DownNotReady, PodObject
<1>3. CASE \E p \in Pod : PodCreated(p) \/ PodStops(p) \/ PodFails(p)
  <2>1. PICK p \in Pod : PodCreated(p) \/ PodStops(p) \/ PodFails(p)
    BY <1>3, Zenon
  <2>2. down' = down /\ \A q \in Pod : pod'[q].st # pod[q].st => pod'[q].st # "Ready"
    BY <2>1 DEF PodCreated, PodStops, PodFails, Become, TypeOK, PodObject
  <2>3. QED
    BY <2>2, Zenon DEF DownNotReady, TypeOK
<1>4. CASE UNCHANGED <<pod, down>>
  BY <1>4, Zenon DEF DownNotReady
<1>5. QED
  BY <1>1, <1>2, <1>3, <1>4, Zenon
  DEF Next, vars, Controller, Reconcile, StartReconcile, CheckGroup, UpdateSet, MarkPodAsDeleted,
      ReconcileFails, Informers, SyncPods, SyncSets, Resync, invalidatePodEvictionCache, ExpireEntry, Cluster, StatusUpdated, SetEdited, GroupEdited

-----------------------------------------------------------------------------
(* One set at a time, by the order of the reconcile.                       *)

\* The copies that a reconcile works on show every pod that was taken down.
SeenDown == rc.pc \in {"check", "update"} => \A p \in down : podCache[p].st # "Ready"

\* What was taken down belongs to the one set with not-ready pods, and the
\* reconcile does not get past that set.
FrontFirst ==
    rc.pc = "update" =>
        /\ \A p \in down : SetOf(p) \in rc.front
        /\ \A y, z \in rc.front : y = z
        /\ rc.front \subseteq rc.todo
        /\ \A z \in rc.front : hasStatefulSetNotReadyPods(rc.sets[z], z)

\* The pods to be deleted are of that set too.
OneQueue == rc.pc \in {"mark", "delete"} => \A p, q \in down \cup rc.queue : SetOf(p) = SetOf(q)

OrderInv == TypeOK /\ DownNotReady /\ SeenDown /\ FrontFirst /\ OneQueue /\ OneSetAtATime

\* hasStatefulSetNotReadyPods finds a set one of whose pods is not ready or gone.
LEMMA NotReadyIsFound ==
    ASSUME TypeOK, NEW p \in Pod, podCache[p].st # "Ready", NEW s \in StsObject
    PROVE  hasStatefulSetNotReadyPods(s, SetOf(p))
<1> DEFINE z == SetOf(p)
<1>1. z \in Set /\ p \in PodsOf(z)
  BY PodHasSet, Zenon
<1>2. CASE Exists(podCache[p])
  BY <1>1, <1>2, Zenon DEF hasStatefulSetNotReadyPods, listPodsByStatefulSet, IsPodRunningAndReady
<1>3. CASE ~Exists(podCache[p])
  <2> DEFINE L == listPodsByStatefulSet(z)
  <2>1. L \subseteq PodsOf(z) /\ L # PodsOf(z)
    BY <1>1, <1>3, Zenon DEF listPodsByStatefulSet
  <2>2. IsFiniteSet(PodsOf(z)) /\ Cardinality(PodsOf(z)) = Replicas[z] /\ Replicas[z] \in Nat
    BY <1>1, PodsFinite, SizeAssumption, Zenon
  <2> HIDE DEF L, z
  <2>3. Cardinality(L) \in Nat /\ Cardinality(L) < Replicas[z]
    BY <2>1, <2>2, FS_Subset, FS_CardinalityType
  <2>4. expectedReplicas(s, z) \in Nat /\ Replicas[z] <= expectedReplicas(s, z)
    BY <2>2 DEF expectedReplicas, StsObject
  <2>5. Cardinality(L) < expectedReplicas(s, z)
    BY <2>2, <2>3, <2>4
  <2>6. QED
    BY <2>5, Zenon DEF hasStatefulSetNotReadyPods, L, z
<1>4. QED
  BY <1>2, <1>3, Zenon

\* What a reconcile chooses to delete is of one set.
LEMMA ChosenOfSet ==
    ASSUME NEW s, NEW z
    PROVE  \A p \in podsToDelete(s, z) : SetOf(p) = z
BY Zenon DEF podsToDelete, podsNotMatchingUpdateRevision, listPodsByStatefulSet, PodsOf

LEMMA FrontIsNext ==
    ASSUME NEW todo, NEW front, front \subseteq todo, \A y, z \in front : y = z, front # {},
           todo \subseteq Nat
    PROVE  MoveStatefulSetToFront(todo, front) \in front
<1>1. PICK z \in front : front = {z}
  BY Zenon
<1>2. todo \cap front = {z} /\ z <= z
  BY <1>1
<1>3. QED
  BY <1>1, <1>2 DEF MoveStatefulSetToFront

\* A step that neither moves the reconcile nor takes a pod down.
LEMMA OrderKept ==
    ASSUME OrderInv, TypeOK', DownNotReady', rc' = rc, down' \subseteq down,
           podCache' = podCache \/ rc.pc \notin {"check", "update"}
    PROVE  OrderInv'
<1>1. SeenDown'
  BY Zenon DEF OrderInv, SeenDown
<1>2. FrontFirst'
  BY Zenon DEF OrderInv, FrontFirst, hasStatefulSetNotReadyPods, listPodsByStatefulSet
<1>3. OneQueue' /\ OneSetAtATime'
  BY Zenon DEF OrderInv, OneQueue, OneSetAtATime
<1>4. QED
  BY <1>1, <1>2, <1>3, Zenon DEF OrderInv

\* The reconcile ends, and nothing is taken down.
LEMMA OrderEnds ==
    ASSUME OrderInv, TypeOK', DownNotReady', rc' = Idle, down' = down
    PROVE  OrderInv'
BY Zenon DEF OrderInv, SeenDown, FrontFirst, OneQueue, OneSetAtATime, Idle

LEMMA OrderStart ==
    ASSUME InformerPrompt, OrderInv, TypeOK', DownNotReady', StartReconcile
    PROVE  OrderInv'
<1>1. rc' = rc \/ rc' = [pc |-> "check", sets |-> stsCache]
  BY Zenon DEF StartReconcile, rcVars
<1>2. podCache = pod /\ podCache' = podCache /\ pod' = pod /\ down' = down
  BY Zenon DEF StartReconcile, caches
<1>3. CASE rc' = rc
  BY <1>2, <1>3, OrderKept, Zenon
<1>4. CASE rc' = [pc |-> "check", sets |-> stsCache]
  BY <1>2, <1>4, Zenon DEF OrderInv, DownNotReady, SeenDown, FrontFirst, OneQueue, OneSetAtATime
<1>5. QED
  BY <1>1, <1>3, <1>4, Zenon

LEMMA OrderCheck ==
    ASSUME OrderInv, TypeOK', DownNotReady', CheckGroup
    PROVE  OrderInv'
<1> DEFINE notReady == {z \in Set : hasStatefulSetNotReadyPods(rc.sets[z], z)}
<1>1. podCache' = podCache /\ down' = down /\ rc.pc = "check"
  BY Zenon DEF CheckGroup, caches
<1>2. \/ rc' = Idle
      \/ /\ ~(Cardinality(notReady) > 1)
         /\ rc' = [pc |-> "update", sets |-> rc.sets, front |-> notReady, todo |-> Set]
  BY Zenon DEF CheckGroup, EndReconcile, tooManyNotReady
<1>3. CASE rc' = Idle
  BY <1>1, <1>3, OrderEnds, Zenon
<1>4. CASE /\ ~(Cardinality(notReady) > 1)
           /\ rc' = [pc |-> "update", sets |-> rc.sets, front |-> notReady, todo |-> Set]
  <2>1. \A p \in down : SetOf(p) \in notReady
    <3>1. SUFFICES ASSUME NEW p \in down PROVE SetOf(p) \in notReady
      BY Zenon
    <3>2. p \in Pod /\ podCache[p].st # "Ready" /\ SetOf(p) \in Set
      BY <1>1, PodHasSet, Zenon DEF OrderInv, SeenDown, TypeOK
    <3>3. rc.sets[SetOf(p)] \in StsObject
      BY <1>1, <3>2, RcByPc, Zenon DEF OrderInv, TypeOK, RcType, Checking
    <3>4. QED
      BY <3>2, <3>3, NotReadyIsFound, Zenon DEF OrderInv
  <2>2. \A y, z \in notReady : y = z
    <3>1. notReady \in SUBSET Set
      BY Zenon
    <3> HIDE DEF notReady
    <3>2. IsFiniteSet(notReady) /\ Cardinality(notReady) \in Nat
      BY <3>1, SetFinite, FS_Subset, FS_CardinalityType, Zenon
    <3>3. Cardinality(notReady) <= 1
      BY <1>4, <3>2
    <3>4. QED
      BY <3>1, <3>3, AtMostOne, Zenon
  <2>3. \A z \in notReady : hasStatefulSetNotReadyPods(rc.sets[z], z)'
    BY <1>1, <1>4, Zenon DEF hasStatefulSetNotReadyPods, listPodsByStatefulSet
  <2>4. notReady \subseteq Set
    BY Zenon
  <2> HIDE DEF notReady
  <2>5. FrontFirst'
    BY <1>1, <1>4, <2>1, <2>2, <2>3, <2>4, Zenon DEF FrontFirst
  <2>6. QED
    BY <1>1, <1>4, <2>5, Zenon DEF OrderInv, SeenDown, OneQueue, OneSetAtATime
<1>5. QED
  BY <1>2, <1>3, <1>4, Zenon

LEMMA OrderUpdate ==
    ASSUME OrderInv, TypeOK', DownNotReady', UpdateSet
    PROVE  OrderInv'
<1> DEFINE z == MoveStatefulSetToFront(rc.todo, rc.front)
<1>1. podCache' = podCache /\ down' = down /\ rc.pc = "update" /\ rc \in Updating
  BY RcByPc, Zenon DEF UpdateSet, caches, OrderInv, TypeOK, RcType
<1>2. \/ rc' = Idle
      \/ /\ z \notin rc.front \/ ~hasStatefulSetNotReadyPods(rc.sets[z], z)
         /\ rc' = [rc EXCEPT !.todo = @ \ {z}]
      \/ rc' = [pc |-> "mark", queue |-> podsToDelete(rc.sets[z], z)]
  BY Zenon DEF UpdateSet, EndReconcile, NextSet, PromoteRevision
<1>3. rc.front # {} => z \in rc.front
  BY <1>1, FrontIsNext DEF OrderInv, FrontFirst, Updating, Set
<1>4. CASE rc' = Idle
  BY <1>1, <1>4, OrderEnds, Zenon
<1>5. CASE /\ z \notin rc.front \/ ~hasStatefulSetNotReadyPods(rc.sets[z], z)
           /\ rc' = [rc EXCEPT !.todo = @ \ {z}]
  <2>1. rc.front = {}
    BY <1>1, <1>3, <1>5, Zenon DEF OrderInv, FrontFirst
  <2>2. rc'.pc = "update" /\ rc'.front = {} /\ rc'.todo = rc.todo \ {z}
    BY <1>1, <1>5, <2>1, Zenon DEF Updating
  <2>3. down = {}
    BY <1>1, <2>1, Zenon DEF OrderInv, FrontFirst
  <2>4. QED
    BY <1>1, <2>2, <2>3, Zenon DEF OrderInv, SeenDown, FrontFirst, OneQueue, OneSetAtATime
<1>6. CASE rc' = [pc |-> "mark", queue |-> podsToDelete(rc.sets[z], z)]
  <2>1. \A p \in rc'.queue : SetOf(p) = z
    BY <1>6, ChosenOfSet, Zenon
  <2>2. \A p \in down : SetOf(p) = z
    BY <1>1, <1>3, Zenon DEF OrderInv, FrontFirst
  <2> HIDE DEF z
  <2>3. QED
    BY <1>1, <1>6, <2>1, <2>2 DEF OrderInv, SeenDown, FrontFirst, OneQueue, OneSetAtATime
<1>7. QED
  BY <1>2, <1>4, <1>5, <1>6, Zenon

\* One pod of the queue after the other is dealt with.
LEMMA OrderDelete ==
    ASSUME OrderInv, TypeOK', DownNotReady', NEW p \in Pod, MarkPodAsDeleted(p) \/ DeletePod(p)
    PROVE  OrderInv'
<1>1. rc.pc \in {"mark", "delete"} /\ rc \in Deleting /\ p \in rc.queue
  BY RcByPc, Zenon DEF MarkPodAsDeleted, DeletePod, DeleteInFlight, SortsFirst, OrderInv, TypeOK, RcType
<1>2. down' \subseteq down \cup {p}
  BY Zenon DEF MarkPodAsDeleted, DeletePod
<1>3. \/ rc' = Idle
      \/ rc'.pc \in {"mark", "delete"} /\ rc'.queue \subseteq rc.queue
  BY <1>1 DEF MarkPodAsDeleted, DeletePod, NextPod, EndReconcile, Deleting
<1>4. OneSetAtATime'
  BY <1>1, <1>2, Zenon DEF OrderInv, OneQueue, OneSetAtATime
<1>5. QED
  BY <1>1, <1>2, <1>3, <1>4 DEF OrderInv, SeenDown, FrontFirst, OneQueue, Idle

LEMMA OrderStep ==
    ASSUME ~Protected, InformerPrompt, SnapshotPrompt, OrderInv, [Next]_vars
    PROVE  OrderInv'
<1>1. TypeOK' /\ DownNotReady'
  BY TypeStep, DownNotReadyStep, Zenon DEF OrderInv
<1>2. CASE StartReconcile
  BY <1>1, <1>2, OrderStart, Zenon
<1>3. CASE CheckGroup
  BY <1>1, <1>3, OrderCheck, Zenon
<1>4. CASE UpdateSet
  BY <1>1, <1>4, OrderUpdate, Zenon
<1>5. CASE \E p \in Pod : MarkPodAsDeleted(p) \/ DeletePod(p)
  BY <1>1, <1>5, OrderDelete, Zenon
<1>6. CASE ReconcileFails
  BY <1>1, <1>6, OrderEnds, Zenon DEF ReconcileFails, EndReconcile
<1>7. CASE SyncPods
  BY <1>1, <1>7, OrderKept, Zenon DEF SyncPods
<1>8. CASE \E p \in Pod : PodStarts(p) \/ PodEvicted(p)
  BY <1>1, <1>8, OrderKept, Zenon DEF PodStarts, PodEvicted, caches, rcVars
<1>9. CASE UNCHANGED <<rc, down, podCache>>
  BY <1>1, <1>9, OrderKept, Zenon
<1>10. QED
  BY <1>2, <1>3, <1>4, <1>5, <1>6, <1>7, <1>8, <1>9, Zenon
  DEF Next, vars, Controller, Reconcile, Informers, SyncSets, Resync, invalidatePodEvictionCache, ExpireEntry, Cluster, PodCreated, PodStops,
      PodFails, StatusUpdated, SetEdited, GroupEdited, caches, rcVars

\* Without a budget, the pods that reconcileStatefulSetsGroup has taken down are
\* always of one StatefulSet, whatever is edited, fails or is evicted meanwhile:
\* provided that the caches are current when a reconcile starts and that it lists
\* the pods before the pod cache moves on.
THEOREM OneSetByOrder ==
    ASSUME ~Protected, InformerPrompt, SnapshotPrompt
    PROVE  Spec => []OneSetAtATime
<1>1. Init => OrderInv
  <2>1. Init => TypeOK /\ down = {} /\ rc = Idle
    BY InitType, Zenon DEF Init
  <2>2. QED
    BY <2>1 DEF OrderInv, DownNotReady, SeenDown, FrontFirst, OneQueue, OneSetAtATime, Idle
<1>2. OrderInv /\ [Next]_vars => OrderInv'
  BY OrderStep, Zenon
<1>3. OrderInv => OneSetAtATime
  BY Zenon DEF OrderInv
<1>4. QED
  BY <1>1, <1>2, <1>3, PTL DEF Spec

-----------------------------------------------------------------------------
(* One set at a time, and within the budget, by the budget.                *)

\* The pods that are taken down, or are ready and about to be.
Taken == {p \in Pod : p \in down \/ (DeleteInFlight(p) /\ pod[p].st = "Ready")}

\* The budget sees each of them as unavailable.
TakenUnavailable == \A p \in Taken : p \in ZpdbUnavailable(SetOf(p))

TakenOfOneSet == \A p, q \in Taken : SetOf(p) = SetOf(q)

TakenWithin == \A z \in Set : Cardinality({p \in Taken : SetOf(p) = z}) <= ZpdbMax

\* What the observer is yet to be told of a pod that is ready is that it runs.
ReadyIsTold == \A p \in late : pod[p].st # "Ready"

BudgetInv == TypeOK /\ DownNotReady /\ ReadyIsTold /\ TakenUnavailable /\ TakenOfOneSet /\ TakenWithin

LEMMA TakenFinite ==
    ASSUME NEW z \in Set, NEW S \in SUBSET PodsOf(z)
    PROVE  IsFiniteSet(S) /\ Cardinality(S) \in Nat
BY PodsFinite, FS_Subset, FS_CardinalityType, Zenon

\* What is taken can only become less.
LEMMA TakenShrinks ==
    ASSUME BudgetInv, TypeOK', Taken' \subseteq Taken
    PROVE  TakenOfOneSet' /\ TakenWithin'
<1>1. TakenOfOneSet'
  BY Zenon DEF BudgetInv, TakenOfOneSet
<1>2. ASSUME NEW z \in Set
      PROVE  Cardinality({p \in Taken' : SetOf(p) = z}) <= ZpdbMax
  <2> DEFINE S == {p \in Taken : SetOf(p) = z}
             T == {p \in Taken' : SetOf(p) = z}
  <2>1. S \in SUBSET PodsOf(z) /\ T \subseteq S
    BY Zenon DEF Taken, PodsOf
  <2>2. Cardinality(S) <= ZpdbMax
    BY Zenon DEF BudgetInv, TakenWithin
  <2> HIDE DEF S, T
  <2>3. IsFiniteSet(S) /\ Cardinality(S) \in Nat /\ Cardinality(T) <= Cardinality(S) /\ Cardinality(T) \in Nat
    BY <2>1, TakenFinite, FS_Subset, FS_CardinalityType, Zenon
  <2>4. Cardinality(T) <= ZpdbMax
    BY <2>2, <2>3, SizeAssumption
  <2>5. QED
    BY <2>4, Zenon DEF T
<1>3. QED
  BY <1>1, <1>2, Zenon DEF TakenWithin

\* A pod that the budget lets go while it is ready has room.
LEMMA TakenGrows ==
    ASSUME BudgetInv, TypeOK', NEW p \in Pod, pod[p].st = "Ready", ZpdbAllows(p),
           Taken' \subseteq Taken \cup {p}
    PROVE  TakenOfOneSet' /\ TakenWithin'
<1> DEFINE y == SetOf(p)
<1>1. y \in Set /\ p \in PodsOf(y)
  BY PodHasSet, Zenon
<1>2. /\ \A z \in Set \ {y} : ZpdbUnavailable(z) = {}
      /\ Cardinality(ZpdbUnavailable(y) \ {p}) < ZpdbMax
  BY Zenon DEF ZpdbAllows, ZpdbIgnores
<1>3. \A q \in Taken : SetOf(q) = y
  <2>1. \A q \in Taken : SetOf(q) \in Set /\ q \in ZpdbUnavailable(SetOf(q))
    BY PodHasSet, Zenon DEF BudgetInv, TakenUnavailable, Taken
  <2>2. QED
    BY <1>2, <2>1
<1>4. \A q \in Taken' : SetOf(q) = y
  BY <1>3, Zenon
<1>5. ASSUME NEW z \in Set
      PROVE  Cardinality({q \in Taken' : SetOf(q) = z}) <= ZpdbMax
  <2> DEFINE T == {q \in Taken' : SetOf(q) = z}
             U == ZpdbUnavailable(y) \ {p}
  <2>1. ZpdbMax \in Nat
    BY SizeAssumption, Zenon
  <2>2. CASE z # y
    <3>1. T = {}
      BY <1>4, <2>2, Zenon
    <3>2. QED
      BY <2>1, <3>1, FS_EmptySet
  <2>3. CASE z = y
    <3>1. U \in SUBSET PodsOf(y) /\ T \subseteq U \cup {p}
      <4>1. \A q \in Taken : q \in ZpdbUnavailable(y)
        BY <1>3, Zenon DEF BudgetInv, TakenUnavailable
      <4>2. QED
        BY <4>1, Zenon DEF ZpdbUnavailable
    <3>2. Cardinality(U) < ZpdbMax
      BY <1>2, Zenon
    <3> HIDE DEF T, U
    <3>3. IsFiniteSet(U) /\ Cardinality(U) \in Nat
      BY <1>1, <3>1, TakenFinite, Zenon
    <3>4. /\ IsFiniteSet(U \cup {p}) /\ Cardinality(U \cup {p}) \in Nat
          /\ Cardinality(U \cup {p}) <= Cardinality(U) + 1
      <4>1. IsFiniteSet(U \cup {p}) /\ (Cardinality(U \cup {p}) = Cardinality(U) \/ Cardinality(U \cup {p}) = Cardinality(U) + 1)
        BY <3>3, FS_AddElement, Zenon
      <4>2. QED
        BY <3>3, <4>1
    <3>5. Cardinality(T) \in Nat /\ Cardinality(T) <= Cardinality(U \cup {p})
      BY <3>1, <3>4, FS_Subset, FS_CardinalityType, Zenon
    <3>6. Cardinality(T) <= ZpdbMax
      BY <2>1, <3>2, <3>3, <3>4, <3>5
    <3>7. QED
      BY <3>6, Zenon DEF T
  <2>4. QED
    BY <2>2, <2>3, Zenon
<1>6. QED
  BY <1>4, <1>5, Zenon DEF TakenOfOneSet, TakenWithin

LEMMA ReadyIsToldStep ==
    ASSUME EventPrompt, TypeOK, ReadyIsTold, [Next]_vars
    PROVE  ReadyIsTold'
<1>1. pod \in [Pod -> PodObject] /\ late \subseteq Pod
  BY Zenon DEF TypeOK
<1>2. CASE \E p \in Pod : DeletePod(p) \/ PodEvicted(p)
  <2>1. PICK p \in Pod : DeletePod(p) \/ PodEvicted(p)
    BY <1>2, Zenon
  <2>2. \/ pod' = pod /\ late' = late
        \/ pod' = [pod EXCEPT ![p] = Deleted(@)] /\ late' \subseteq late \cup {p}
    BY <2>1, Zenon DEF DeletePod, PodEvicted, Notify
  <2>3. QED
    BY <1>1, <2>2, DeletedType, Zenon DEF ReadyIsTold
<1>3. CASE \E p \in Pod : PodStarts(p)
  <2>1. PICK p \in Pod : PodStarts(p)
    BY <1>3, Zenon
  <2>2. /\ late' = late
        /\ \/ pod' = [pod EXCEPT ![p].st = "Stuck"]
           \/ pod' = [pod EXCEPT ![p].st = "Ready"] /\ p \notin late
    BY <2>1, Zenon DEF PodStarts, Become
  <2>3. QED
    BY <1>1, <2>2, Zenon DEF ReadyIsTold, PodObject
<1>4. CASE \E p \in Pod : PodCreated(p) \/ PodStops(p) \/ PodFails(p)
  <2>1. PICK p \in Pod : PodCreated(p) \/ PodStops(p) \/ PodFails(p)
    BY <1>4, Zenon
  <2>2. late' \subseteq late \cup {p}
    BY <2>1, Zenon DEF PodCreated, PodStops, PodFails, Notify
  <2>3. pod'[p].st # "Ready" /\ \A q \in Pod \ {p} : pod'[q] = pod[q]
    BY <1>1, <2>1 DEF PodCreated, PodStops, PodFails, Become, PodObject
  <2>4. QED
    BY <1>1, <2>2, <2>3, Zenon DEF ReadyIsTold
<1>5. CASE Resync
  BY <1>5, Zenon DEF Resync, ReadyIsTold, IsPodRunningAndReady
<1>6. CASE pod' = pod /\ late' \subseteq late
  BY <1>6, Zenon DEF ReadyIsTold
<1>7. QED
  BY <1>2, <1>3, <1>4, <1>5, <1>6, Zenon
  DEF Next, vars, Controller, Reconcile, StartReconcile, CheckGroup, UpdateSet, MarkPodAsDeleted, ReconcileFails,
      Informers, SyncPods, SyncSets, invalidatePodEvictionCache, ExpireEntry, Cluster, StatusUpdated, SetEdited, GroupEdited

\* The steps that take nothing down.
LEMMA BudgetQuiet ==
    ASSUME BudgetInv, TypeOK', DownNotReady',
           pod' = pod, down' = down,
           rc' = rc \/ rc.pc # "delete" \/ rc' = Idle, rc' = rc \/ rc'.pc # "delete",
           pending' = pending \/ \A p \in Pod : p \in pending /\ p \notin pending' =>
                                        pod[p].st # "Ready" \/ ~DeleteInFlight(p)
    PROVE  TakenUnavailable' /\ Taken' \subseteq Taken
<1>1. \A p \in Pod : DeleteInFlight(p)' => DeleteInFlight(p)
  BY Zenon DEF DeleteInFlight
<1>2. Taken' \subseteq Taken
  BY <1>1, Zenon DEF Taken
<1>3. ASSUME NEW p \in Taken'
      PROVE  p \in ZpdbUnavailable(SetOf(p))'
  <2>1. p \in Pod /\ p \in PodsOf(SetOf(p)) /\ p \in Taken
    BY <1>2, PodHasSet, Zenon DEF Taken
  <2>2. CASE p \in down
    BY <2>1, <2>2, Zenon DEF DownNotReady, ZpdbUnavailable, IsPodRunningAndReady
  <2>3. CASE p \notin down
    <3>1. DeleteInFlight(p)' /\ pod[p].st = "Ready"
      BY <2>1, <2>3, Zenon DEF Taken
    <3>2. p \in pending
      BY <2>1, <3>1, Zenon DEF BudgetInv, TakenUnavailable, ZpdbUnavailable, IsPodRunningAndReady
    <3>3. p \in pending'
      BY <1>1, <2>1, <3>1, <3>2, Zenon
    <3>4. QED
      BY <2>1, <3>3, Zenon DEF ZpdbUnavailable
  <2>4. QED
    BY <2>2, <2>3, Zenon
<1>4. QED
  BY <1>2, <1>3, Zenon DEF TakenUnavailable

\* The steps of the pods.
LEMMA BudgetPods ==
    ASSUME BudgetInv, TypeOK', DownNotReady', ApiPrompt, NEW p \in Pod,
           PodCreated(p) \/ PodStarts(p) \/ PodStops(p) \/ PodFails(p)
    PROVE  TakenUnavailable' /\ Taken' \subseteq Taken
<1>1. rc' = rc /\ pending' = pending /\ down' \subseteq down
  BY Zenon DEF PodCreated, PodStarts, PodStops, PodFails, rcVars
<1>2. \A q \in Pod : DeleteInFlight(q)' <=> DeleteInFlight(q)
  BY <1>1, Zenon DEF DeleteInFlight
<1>3. \A q \in Pod : DeleteInFlight(q) /\ pod'[q].st = "Ready" => pod[q].st = "Ready"
  <2>1. pod \in [Pod -> PodObject]
    BY Zenon DEF BudgetInv, TypeOK
  <2>2. CASE PodStarts(p)
    <3>1. ~DeleteInFlight(p) /\ \E st : pod' = [pod EXCEPT ![p].st = st]
      BY <2>2, Zenon DEF PodStarts, Become
    <3>2. QED
      BY <2>1, <3>1, Zenon
  <2>3. CASE PodCreated(p)
    <3>1. \E r : pod' = [pod EXCEPT ![p] = [st |-> "Pending", rev |-> r]]
      BY <2>3, Zenon DEF PodCreated
    <3>2. QED
      BY <2>1, <3>1
  <2>4. CASE PodStops(p) \/ PodFails(p)
    <3>1. \E st \in {"Stopping", "Absent", "Unready"} : pod' = [pod EXCEPT ![p].st = st]
      BY <2>4, Zenon DEF PodStops, PodFails, Become
    <3>2. QED
      BY <2>1, <3>1, Zenon DEF PodObject
  <2>5. QED
    BY <2>2, <2>3, <2>4, Zenon
<1>4. Taken' \subseteq Taken
  BY <1>1, <1>2, <1>3, Zenon DEF Taken
<1>5. ASSUME NEW q \in Taken'
      PROVE  q \in ZpdbUnavailable(SetOf(q))'
  <2>1. q \in Pod /\ q \in PodsOf(SetOf(q)) /\ q \in Taken
    BY <1>4, PodHasSet, Zenon DEF Taken
  <2>2. CASE q \in down'
    BY <2>1, <2>2, Zenon DEF DownNotReady, ZpdbUnavailable, IsPodRunningAndReady
  <2>3. CASE q \notin down'
    <3>1. DeleteInFlight(q) /\ pod[q].st = "Ready"
      BY <1>2, <1>3, <2>1, <2>3, Zenon DEF Taken
    <3>2. q \in pending
      BY <2>1, <3>1, Zenon DEF BudgetInv, TakenUnavailable, ZpdbUnavailable, IsPodRunningAndReady
    <3>3. QED
      BY <1>1, <2>1, <3>2, Zenon DEF ZpdbUnavailable
  <2>4. QED
    BY <2>2, <2>3, Zenon
<1>6. QED
  BY <1>4, <1>5, Zenon DEF TakenUnavailable

\* Asking the budget: a ready pod that it lets go is entered as pending.
LEMMA BudgetMark ==
    ASSUME BudgetInv, TypeOK', DownNotReady', Protected, NEW p \in Pod, MarkPodAsDeleted(p)
    PROVE  TakenUnavailable' /\ TakenOfOneSet' /\ TakenWithin'
<1>1. rc \in Deleting /\ rc.pc = "mark" /\ SortsFirst(p, rc.queue)
  BY RcByPc, Zenon DEF MarkPodAsDeleted, BudgetInv, TypeOK, RcType
<1>2. pod' = pod /\ down' = down
  BY Zenon DEF MarkPodAsDeleted
<1>3. CASE ZpdbAllows(p)
  <2>1. rc' = [rc EXCEPT !.pc = "delete"] /\ pending \subseteq pending'
    BY <1>3, Zenon DEF MarkPodAsDeleted
  <2>2. rc'.queue = rc.queue /\ rc.queue \in SUBSET Pod
    BY <1>1, <2>1, QueueOfSet, Zenon DEF Deleting, BudgetInv, TypeOK, RcType
  <2>3. \A q \in Pod : DeleteInFlight(q)' => q = p
    <3>1. \A q, r \in rc.queue : SetOf(q) = SetOf(r)
      BY <1>1, QueueOfSet, Zenon DEF BudgetInv, TypeOK, RcType
    <3>2. \A q \in Pod : DeleteInFlight(q)' => SortsFirst(q, rc.queue)
      BY <2>2, Zenon DEF DeleteInFlight, SortsFirst
    <3>3. QED
      BY <1>1, <2>2, <3>1, <3>2, FirstIsUnique, Zenon
  <2>4. pod[p].st = "Ready" => p \in pending'
    BY <1>3, Zenon DEF MarkPodAsDeleted, ZpdbIgnores
  <2>5. ASSUME NEW q \in Taken'
        PROVE  q \in ZpdbUnavailable(SetOf(q))'
    <3>1. q \in Pod /\ q \in PodsOf(SetOf(q))
      BY PodHasSet, Zenon DEF Taken
    <3>2. CASE q \in down'
      BY <3>1, <3>2, Zenon DEF DownNotReady, ZpdbUnavailable, IsPodRunningAndReady
    <3>3. CASE q \notin down'
      <4>1. q \in pending'
        BY <1>2, <2>3, <2>4, <3>1, <3>3, Zenon DEF Taken
      <4>2. QED
        BY <3>1, <4>1, Zenon DEF ZpdbUnavailable
    <3>4. QED
      BY <3>2, <3>3, Zenon
  <2>6. TakenUnavailable'
    BY <2>5, Zenon DEF TakenUnavailable
  <2>7. CASE pod[p].st = "Ready"
    <3>1. Taken' \subseteq Taken \cup {p}
      BY <1>2, <2>3, Zenon DEF Taken
    <3>2. QED
      BY <1>3, <2>6, <2>7, <3>1, TakenGrows, Zenon
  <2>8. CASE pod[p].st # "Ready"
    <3>1. Taken' \subseteq Taken
      BY <1>2, <2>3, <2>8, Zenon DEF Taken
    <3>2. QED
      BY <2>6, <3>1, TakenShrinks, Zenon
  <2>9. QED
    BY <2>7, <2>8, Zenon
<1>4. CASE ~ZpdbAllows(p)
  <2>1. rc'.pc # "delete" /\ pending' = pending
    BY <1>4 DEF MarkPodAsDeleted, NextPod, Idle
  <2>2. TakenUnavailable' /\ Taken' \subseteq Taken
    BY <1>1, <1>2, <2>1, BudgetQuiet, Zenon
  <2>3. QED
    BY <2>2, TakenShrinks, Zenon
<1>5. QED
  BY <1>3, <1>4, Zenon

\* Deleting a ready pod: it was about to be taken down and now is.
LEMMA BudgetDelete ==
    ASSUME BudgetInv, TypeOK', DownNotReady', NEW p \in Pod, DeletePod(p)
    PROVE  TakenUnavailable' /\ TakenOfOneSet' /\ TakenWithin'
<1>1. rc'.pc # "delete" /\ pending' = pending
  BY DEF DeletePod, NextPod, EndReconcile, Idle
<1>2. Taken' = down' /\ down' \subseteq Pod
  BY <1>1, Zenon DEF Taken, DeleteInFlight, TypeOK
<1>3. Taken' \subseteq Taken
  BY <1>2, Zenon DEF DeletePod, Taken, IsPodRunningAndReady
<1>4. TakenUnavailable'
  <2>1. \A q \in down' : q \in PodsOf(SetOf(q)) /\ pod'[q].st # "Ready"
    BY <1>2, PodHasSet, Zenon DEF DownNotReady
  <2>2. QED
    BY <1>2, <2>1, Zenon DEF TakenUnavailable, ZpdbUnavailable, IsPodRunningAndReady
<1>5. QED
  BY <1>3, <1>4, TakenShrinks, Zenon

\* An eviction by others of a pod that the budget lets go.
LEMMA BudgetEvict ==
    ASSUME BudgetInv, TypeOK', DownNotReady', Protected, NEW p \in Pod, PodEvicted(p)
    PROVE  TakenUnavailable' /\ TakenOfOneSet' /\ TakenWithin'
<1>1. rc' = rc /\ pending \subseteq pending' /\ ZpdbAllows(p)
  BY Zenon DEF PodEvicted, rcVars
<1>2. \A q \in Pod : DeleteInFlight(q)' <=> DeleteInFlight(q)
  BY <1>1, Zenon DEF DeleteInFlight
<1>3. \A q \in Pod : pod'[q].st = "Ready" => pod[q].st = "Ready"
  <2>1. pod' = [pod EXCEPT ![p] = Deleted(@)] /\ pod \in [Pod -> PodObject]
    BY Zenon DEF PodEvicted, BudgetInv, TypeOK
  <2>2. Deleted(pod[p]).st # "Ready"
    BY <2>1, Zenon DEF Deleted, PodObject
  <2>3. QED
    BY <2>1, <2>2, Zenon
<1>4. down' = down \/ (pod[p].st = "Ready" /\ down' = down \cup {p})
  BY Zenon DEF PodEvicted, IsPodRunningAndReady
<1>5. ASSUME NEW q \in Taken'
      PROVE  q \in ZpdbUnavailable(SetOf(q))'
  <2>1. q \in Pod /\ q \in PodsOf(SetOf(q))
    BY PodHasSet, Zenon DEF Taken
  <2>2. CASE q \in down'
    BY <2>1, <2>2, Zenon DEF DownNotReady, ZpdbUnavailable, IsPodRunningAndReady
  <2>3. CASE q \notin down'
    <3>1. DeleteInFlight(q) /\ pod[q].st = "Ready"
      BY <1>2, <1>3, <2>1, <2>3, Zenon DEF Taken
    <3>2. q \in pending
      <4>1. q \in Taken
        BY <2>1, <3>1, Zenon DEF Taken
      <4>2. QED
        BY <3>1, <4>1, Zenon DEF BudgetInv, TakenUnavailable, ZpdbUnavailable, IsPodRunningAndReady
    <3>3. QED
      BY <1>1, <2>1, <3>2, Zenon DEF ZpdbUnavailable
  <2>4. QED
    BY <2>2, <2>3, Zenon
<1>6. TakenUnavailable'
  BY <1>5, Zenon DEF TakenUnavailable
<1>7. CASE down' = down
  <2>1. Taken' \subseteq Taken
    BY <1>2, <1>3, <1>7, Zenon DEF Taken
  <2>2. QED
    BY <1>6, <2>1, TakenShrinks, Zenon
<1>8. CASE pod[p].st = "Ready" /\ down' = down \cup {p}
  <2>1. Taken' \subseteq Taken \cup {p}
    BY <1>2, <1>3, <1>8, Zenon DEF Taken
  <2>2. QED
    BY <1>1, <1>6, <1>8, <2>1, TakenGrows, Zenon
<1>9. QED
  BY <1>4, <1>7, <1>8, Zenon

LEMMA BudgetStep ==
    ASSUME Protected, ApiPrompt, EventPrompt, BudgetInv, [Next]_vars
    PROVE  BudgetInv'
<1>1. TypeOK' /\ DownNotReady' /\ ReadyIsTold'
  BY TypeStep, DownNotReadyStep, ReadyIsToldStep, Zenon DEF BudgetInv
<1>2. CASE StartReconcile \/ CheckGroup \/ UpdateSet \/ ReconcileFails
  <2>1. pod' = pod /\ down' = down /\ pending' = pending
    BY <1>2, Zenon DEF StartReconcile, CheckGroup, UpdateSet, ReconcileFails
  <2>2. (rc' = rc \/ rc.pc # "delete" \/ rc' = Idle) /\ (rc' = rc \/ rc'.pc # "delete")
    <3>1. CASE StartReconcile
      <4>1. rc.pc = "idle" /\ (rc' = rc \/ rc' = [pc |-> "check", sets |-> stsCache])
        BY <3>1, Zenon DEF StartReconcile, rcVars
      <4>2. QED
        BY <4>1
    <3>2. CASE CheckGroup
      BY <3>2 DEF CheckGroup, EndReconcile, Idle
    <3>3. CASE ReconcileFails
      BY <3>3, Zenon DEF ReconcileFails, EndReconcile, Idle
    <3>4. CASE UpdateSet
      <4>1. rc \in Updating
        BY <3>4, RcByPc, Zenon DEF UpdateSet, BudgetInv, TypeOK, RcType
      <4>2. \/ rc' = Idle
            \/ \E z : rc' = [rc EXCEPT !.todo = @ \ {z}]
            \/ \E z : rc' = [pc |-> "mark", queue |-> podsToDelete(rc.sets[z], z)]
        BY <3>4, Zenon DEF UpdateSet, EndReconcile, NextSet, PromoteRevision
      <4>3. QED
        BY <4>1, <4>2 DEF Updating, Idle
    <3>5. QED
      BY <1>2, <3>1, <3>2, <3>3, <3>4, Zenon
  <2>3. TakenUnavailable' /\ Taken' \subseteq Taken
    BY <1>1, <2>1, <2>2, BudgetQuiet, Zenon
  <2>4. QED
    BY <1>1, <2>3, TakenShrinks, Zenon DEF BudgetInv
<1>3. CASE \E p \in Pod : MarkPodAsDeleted(p) \/ DeletePod(p) \/ PodEvicted(p)
  BY <1>1, <1>3, BudgetMark, BudgetDelete, BudgetEvict, Zenon DEF BudgetInv
<1>4. CASE \E p \in Pod : PodCreated(p) \/ PodStarts(p) \/ PodStops(p) \/ PodFails(p)
  BY <1>1, <1>4, BudgetPods, TakenShrinks, Zenon DEF BudgetInv
<1>5. CASE \E p \in Pod : invalidatePodEvictionCache(p) \/ ExpireEntry(p)
  <2>1. pod' = pod /\ down' = down /\ rc' = rc
    BY <1>5, Zenon DEF invalidatePodEvictionCache, ExpireEntry, rcVars
  <2>2. \A p \in Pod : p \in pending /\ p \notin pending' => pod[p].st # "Ready" \/ ~DeleteInFlight(p)
    BY <1>5, Zenon DEF invalidatePodEvictionCache, ExpireEntry, BudgetInv, ReadyIsTold
  <2>3. TakenUnavailable' /\ Taken' \subseteq Taken
    BY <1>1, <2>1, <2>2, BudgetQuiet, Zenon
  <2>4. QED
    BY <1>1, <2>3, TakenShrinks, Zenon DEF BudgetInv
<1>6. CASE \/ SyncPods \/ SyncSets \/ Resync \/ GroupEdited
           \/ (\E z \in Set : StatusUpdated(z) \/ SetEdited(z)) \/ UNCHANGED vars
  <2>1. pod' = pod /\ down' = down /\ rc' = rc /\ pending' = pending
    BY <1>6, Zenon DEF SyncPods, SyncSets, Resync, GroupEdited, StatusUpdated, SetEdited, vars, rcVars
  <2>2. TakenUnavailable' /\ Taken' \subseteq Taken
    BY <1>1, <2>1, BudgetQuiet, Zenon
  <2>3. QED
    BY <1>1, <2>2, TakenShrinks, Zenon DEF BudgetInv
<1>7. QED
  BY <1>2, <1>3, <1>4, <1>5, <1>6, Zenon DEF Next, Controller, Reconcile, Informers, Cluster

LEMMA InitBudget ==
    ASSUME Init
    PROVE  BudgetInv
<1>1. TypeOK
  BY InitType, Zenon
<1>2. Taken = {} /\ DownNotReady /\ ReadyIsTold
  <2>1. rc = Idle /\ down = {} /\ late = {}
    BY Zenon DEF Init
  <2>2. rc.pc = "idle"
    BY <2>1, Zenon DEF Idle
  <2>3. QED
    BY <2>1, <2>2, Zenon DEF Taken, DeleteInFlight, DownNotReady, ReadyIsTold
<1>3. TakenWithin
  <2>1. \A z \in Set : {p \in Taken : SetOf(p) = z} = {}
    BY <1>2, Zenon
  <2>2. Cardinality({}) <= ZpdbMax
    BY FS_EmptySet, SizeAssumption
  <2>3. QED
    BY <2>1, <2>2, Zenon DEF TakenWithin
<1>4. QED
  BY <1>1, <1>2, <1>3, Zenon DEF BudgetInv, TakenUnavailable, TakenOfOneSet

\* Where a zone-aware budget covers the pods, MarkPodAsDeleted keeps the rollout to
\* one set at a time although the caches, copies and status that the reconcile reads
\* are stale: provided that an allowed deletion is sent before the pod restarts, and
\* that the budget's observer is done with what a pod was before it is ready.
THEOREM OneSetByBudget ==
    ASSUME Protected, ApiPrompt, EventPrompt
    PROVE  Spec => []OneSetAtATime
<1>1. BudgetInv => OneSetAtATime
  BY Zenon DEF BudgetInv, TakenOfOneSet, Taken, OneSetAtATime, TypeOK
<1>2. QED
  BY <1>1, InitBudget, BudgetStep, PTL DEF Spec

\* Under the same assumptions the pods that the controller and evictions by
\* others have taken down are within the maxUnavailable of the budget.
THEOREM BudgetKept ==
    ASSUME Protected, ApiPrompt, EventPrompt
    PROVE  Spec => []WithinBudget
<1>1. BudgetInv => WithinBudget
  <2> SUFFICES ASSUME BudgetInv, NEW z \in Set
               PROVE  Cardinality({p \in down : SetOf(p) = z}) <= ZpdbMax
    BY Zenon DEF WithinBudget
  <2> DEFINE S == {p \in Taken : SetOf(p) = z}
             T == {p \in down : SetOf(p) = z}
  <2>1. S \in SUBSET PodsOf(z) /\ T \subseteq S
    BY Zenon DEF Taken, PodsOf, BudgetInv, TypeOK
  <2>2. Cardinality(S) <= ZpdbMax
    BY Zenon DEF BudgetInv, TakenWithin
  <2> HIDE DEF S, T
  <2>3. Cardinality(S) \in Nat /\ Cardinality(T) \in Nat /\ Cardinality(T) <= Cardinality(S)
    BY <2>1, TakenFinite, FS_Subset, FS_CardinalityType, Zenon
  <2>4. Cardinality(T) <= ZpdbMax
    BY <2>2, <2>3, SizeAssumption
  <2>5. QED
    BY <2>4, Zenon DEF T
<1>2. QED
  BY <1>1, InitBudget, BudgetStep, PTL DEF Spec

-----------------------------------------------------------------------------
(* The current revision.                                                   *)

\* The copy that the reconcile has of a set is what the API server has, unless the
\* set was written since.
CopyKnown == rc.pc \in {"check", "update"} => \A z \in Set \ conflicts : rc.sets[z] = sts[z]

\* Pods are only created at the update revision: as long as that one has not
\* changed since the copy, a pod at another one has been there since, and the pod
\* cache has it.
OutdatedKnown ==
    rc.pc \in {"check", "update"} =>
        \A z \in Set \ conflicts : \A p \in PodsOf(z) :
            Exists(pod[p]) /\ pod[p].rev # sts[z].updateRev =>
                Exists(podCache[p]) /\ podCache[p].rev = pod[p].rev

PromoteInv == TypeOK /\ CopyKnown /\ OutdatedKnown

\* What a step may do to the pods: it creates one at the update revision, or
\* leaves the revisions alone.
LEMMA RevisionsKept ==
    ASSUME TypeOK, [Next]_vars, NEW p \in Pod, Exists(pod'[p])
    PROVE  \/ Exists(pod[p]) /\ pod'[p].rev = pod[p].rev
           \/ pod'[p].rev = sts[SetOf(p)].updateRev
<1>0. pod \in [Pod -> PodObject]
  BY Zenon DEF TypeOK
<1>1. CASE \E q \in Pod : PodCreated(q)
  <2>1. PICK q \in Pod : PodCreated(q)
    BY <1>1, Zenon
  <2>2. pod' = [pod EXCEPT ![q] = [st |-> "Pending", rev |-> sts[SetOf(q)].updateRev]]
    BY <2>1, Zenon DEF PodCreated
  <2>3. QED
    BY <1>0, <2>2, Zenon
<1>2. CASE \E q \in Pod : pod' = [pod EXCEPT ![q] = Deleted(@)]
  <2>1. PICK q \in Pod : pod' = [pod EXCEPT ![q] = Deleted(@)]
    BY <1>2, Zenon
  <2>2. Deleted(pod[q]).rev = pod[q].rev /\ (Exists(Deleted(pod[q])) => Exists(pod[q]))
    BY <1>0, Zenon DEF Deleted, Exists, PodObject
  <2>3. QED
    BY <1>0, <2>1, <2>2, Zenon
<1>3. CASE \E q \in Pod, st \in PodState : pod' = [pod EXCEPT ![q].st = st] /\ Exists(pod[q])
  BY <1>0, <1>3 DEF Exists, PodObject
<1>4. CASE UNCHANGED pod
  BY <1>4, Zenon
<1>5. CASE \E q \in Pod : DeletePod(q) \/ PodEvicted(q)
  BY <1>2, <1>4, <1>5, Zenon DEF DeletePod, PodEvicted
<1>6. CASE \E q \in Pod : PodStarts(q) \/ PodStops(q) \/ PodFails(q)
  BY <1>3, <1>6, Zenon DEF PodStarts, PodStops, PodFails, Become, PodState, Exists
<1>7. CASE \/ StartReconcile \/ CheckGroup \/ UpdateSet \/ ReconcileFails \/ Informers \/ GroupEdited \/ UNCHANGED vars
           \/ (\E q \in Pod : MarkPodAsDeleted(q)) \/ (\E z \in Set : StatusUpdated(z) \/ SetEdited(z))
  BY <1>4, <1>7, Zenon DEF StartReconcile, CheckGroup, UpdateSet, ReconcileFails, Informers, SyncPods, SyncSets, Resync,
                    invalidatePodEvictionCache, ExpireEntry, MarkPodAsDeleted, GroupEdited, StatusUpdated, SetEdited, vars
<1>8. QED
  BY <1>1, <1>5, <1>6, <1>7, Zenon DEF Next, Controller, Reconcile, Cluster

\* A write of Z leaves the other sets alone.
LEMMA WritesKnown ==
    ASSUME PromoteInv, NEW Z \in SUBSET Set, Written(Z), \A y \in Set \ Z : sts'[y] = sts[y],
           UNCHANGED <<pod, podCache>>,
           rc'.pc \in {"check", "update"} => rc.pc \in {"check", "update"} /\ rc'.sets = rc.sets
    PROVE  CopyKnown' /\ OutdatedKnown'
<1>1. rc.pc \in {"check", "update"} => conflicts' = conflicts \cup Z
  BY Zenon DEF Written
<1>2. CopyKnown'
  BY <1>1, Zenon DEF PromoteInv, CopyKnown
<1>3. OutdatedKnown'
  BY <1>1, Zenon DEF PromoteInv, OutdatedKnown
<1>4. QED
  BY <1>2, <1>3, Zenon

\* A step that writes no set and does not move the caches.
LEMMA OthersKnown ==
    ASSUME PromoteInv, [Next]_vars, UNCHANGED sts,
           rc'.pc \in {"check", "update"} =>
               /\ rc.pc \in {"check", "update"} /\ rc'.sets = rc.sets /\ conflicts' = conflicts
               /\ podCache' = podCache \/ podCache' = pod'
    PROVE  CopyKnown' /\ OutdatedKnown'
<1>1. CopyKnown'
  BY Zenon DEF PromoteInv, CopyKnown
<1>2. ASSUME rc'.pc \in {"check", "update"}, NEW z \in Set \ conflicts', NEW p \in PodsOf(z),
             Exists(pod'[p]), pod'[p].rev # sts'[z].updateRev
      PROVE  Exists(podCache'[p]) /\ podCache'[p].rev = pod'[p].rev
  <2>1. p \in Pod /\ SetOf(p) = z
    BY Zenon DEF PodsOf
  <2>2. Exists(pod[p]) /\ pod'[p].rev = pod[p].rev
    BY <1>2, <2>1, RevisionsKept, Zenon DEF PromoteInv
  <2>3. CASE podCache' = podCache
    BY <1>2, <2>2, <2>3, Zenon DEF PromoteInv, OutdatedKnown
  <2>4. CASE podCache' = pod'
    BY <1>2, <2>4, Zenon
  <2>5. QED
    BY <1>2, <2>3, <2>4, Zenon
<1>3. OutdatedKnown'
  BY <1>2, Zenon DEF OutdatedKnown
<1>4. QED
  BY <1>1, <1>3, Zenon

\* What UpdateSet does, apart from the pods it chooses.
LEMMA UpdateSetDoes ==
    ASSUME TypeOK, UpdateSet
    PROVE  LET z == MoveStatefulSetToFront(rc.todo, rc.front)
           IN  \/ UNCHANGED sts /\ rc'.pc \notin {"check", "update"}
               \/ /\ UNCHANGED <<sts, conflicts>>
                  /\ rc'.pc = "update" /\ rc'.sets = rc.sets
               \/ /\ z \in Set \ conflicts /\ Written({z})
                  /\ sts' = [sts EXCEPT ![z].currentRev = rc.sets[z].updateRev]
                  /\ podsNotMatchingUpdateRevision(rc.sets[z], z) = {}
                  /\ rc'.pc = "update" /\ rc'.sets = rc.sets
<1> DEFINE z == MoveStatefulSetToFront(rc.todo, rc.front)
           nextSet == [rc EXCEPT !.todo = @ \ {z}]
           queue == podsToDelete(rc.sets[z], z)
<1>1. rc \in Updating
  BY RcByPc, Zenon DEF UpdateSet, TypeOK, RcType
<1>2. nextSet.pc = "update" /\ nextSet.sets = rc.sets
  BY <1>1, Zenon DEF Updating
<1>3. rc.todo # {} => z \in Set
  <2>1. rc.todo \in SUBSET Set
    BY <1>1, Zenon DEF Updating
  <2>2. rc.todo # {} => z \in rc.todo
    BY <2>1, NextOfTodo, Zenon
  <2>3. QED
    BY <2>1, <2>2, Zenon
<1>4. \/ UNCHANGED sts /\ (rc' = Idle \/ rc' = [pc |-> "mark", queue |-> queue])
      \/ UNCHANGED <<sts, conflicts>> /\ rc' = nextSet
      \/ /\ rc.todo # {} /\ z \notin conflicts /\ Written({z})
         /\ sts' = [sts EXCEPT ![z].currentRev = rc.sets[z].updateRev]
         /\ podsNotMatchingUpdateRevision(rc.sets[z], z) = {}
         /\ rc' = nextSet
  BY Zenon DEF UpdateSet, EndReconcile, NextSet, PromoteRevision
<1> HIDE DEF z, nextSet, queue
<1>5. \/ UNCHANGED sts /\ rc'.pc \notin {"check", "update"}
      \/ UNCHANGED <<sts, conflicts>> /\ rc' = nextSet
      \/ /\ z \in Set \ conflicts /\ Written({z})
         /\ sts' = [sts EXCEPT ![z].currentRev = rc.sets[z].updateRev]
         /\ podsNotMatchingUpdateRevision(rc.sets[z], z) = {}
         /\ rc' = nextSet
  BY <1>3, <1>4 DEF Idle
<1>6. QED
  BY <1>2, <1>5, Zenon DEF z

LEMMA PromoteStep ==
    ASSUME InformerPrompt, PromoteInv, [Next]_vars
    PROVE  PromoteInv'
<1>0. TypeOK /\ TypeOK'
  BY TypeStep, Zenon DEF PromoteInv
<1> SUFFICES CopyKnown' /\ OutdatedKnown'
  BY <1>0, Zenon DEF PromoteInv
<1>1. CASE StartReconcile
  <2>1. UNCHANGED <<pod, podCache, sts, stsCache>> /\ podCache = pod /\ rc.pc = "idle"
    BY <1>1, Zenon DEF StartReconcile, caches
  <2>2. CASE rc' = rc
    BY <2>1, <2>2, OthersKnown, Zenon
  <2>3. CASE /\ rc' = [pc |-> "check", sets |-> stsCache]
             /\ conflicts' = {z \in Set : stsCache[z] # sts[z]}
    BY <2>1, <2>3, Zenon DEF PromoteInv, CopyKnown, OutdatedKnown
  <2>4. QED
    BY <1>1, <2>2, <2>3, Zenon DEF StartReconcile, rcVars
<1>2. CASE CheckGroup
  <2>1. UNCHANGED <<sts, stsCache, podCache>> /\ rc.pc = "check"
    BY <1>2, Zenon DEF CheckGroup, caches
  <2>2. rc'.pc \in {"check", "update"} => rc'.sets = rc.sets /\ conflicts' = conflicts
    BY <1>2 DEF CheckGroup, EndReconcile, Idle
  <2>3. QED
    BY <2>1, <2>2, OthersKnown, Zenon
<1>3. CASE UpdateSet
  <2> DEFINE z == MoveStatefulSetToFront(rc.todo, rc.front)
  <2>1. UNCHANGED <<pod, stsCache, podCache>> /\ rc.pc = "update"
    BY <1>3, Zenon DEF UpdateSet, caches
  <2>2. \/ UNCHANGED sts /\ rc'.pc \notin {"check", "update"}
        \/ /\ UNCHANGED <<sts, conflicts>>
           /\ rc'.pc = "update" /\ rc'.sets = rc.sets
        \/ /\ z \in Set \ conflicts /\ Written({z})
           /\ sts' = [sts EXCEPT ![z].currentRev = rc.sets[z].updateRev]
           /\ rc'.pc = "update" /\ rc'.sets = rc.sets
    BY <1>0, <1>3, UpdateSetDoes, Zenon
  <2> HIDE DEF z
  <2>3. CASE /\ z \in Set \ conflicts /\ Written({z})
             /\ sts' = [sts EXCEPT ![z].currentRev = rc.sets[z].updateRev]
             /\ rc'.pc = "update" /\ rc'.sets = rc.sets
    <3>1. \A y \in Set \ {z} : sts'[y] = sts[y]
      BY <1>0, <2>3, Zenon DEF TypeOK
    <3>2. {z} \in SUBSET Set
      BY <2>3, Zenon
    <3>3. QED
      BY <2>1, <2>3, <3>1, <3>2, WritesKnown, Zenon
  <2>4. QED
    BY <2>1, <2>2, <2>3, OthersKnown, Zenon
<1>4. CASE ReconcileFails \/ \E p \in Pod : MarkPodAsDeleted(p) \/ DeletePod(p)
  <2>1. UNCHANGED <<sts, stsCache>>
    BY <1>4, Zenon DEF ReconcileFails, MarkPodAsDeleted, DeletePod, caches
  <2>2. CASE ReconcileFails
    BY <2>1, <2>2, OthersKnown, Zenon DEF ReconcileFails, EndReconcile, Idle
  <2>3. CASE \E p \in Pod : MarkPodAsDeleted(p) \/ DeletePod(p)
    <3>1. rc \in Deleting
      BY <2>3, <1>0, RcByPc, Zenon DEF MarkPodAsDeleted, DeletePod, DeleteInFlight, TypeOK, RcType
    <3>2. rc' = Idle \/ rc'.pc \in {"mark", "delete"}
      BY <2>3, <3>1 DEF MarkPodAsDeleted, DeletePod, NextPod, EndReconcile, Deleting
    <3>3. rc'.pc \notin {"check", "update"}
      BY <3>2 DEF Idle
    <3>4. QED
      BY <2>1, <3>3, OthersKnown, Zenon
  <2>4. QED
    BY <1>4, <2>2, <2>3, Zenon
<1>5. CASE SyncSets
  <2>1. UNCHANGED <<pod, sts, podCache, rc, conflicts>>
    BY <1>5, Zenon DEF SyncSets
  <2>2. QED
    BY <2>1, Zenon DEF PromoteInv, CopyKnown, OutdatedKnown
<1>6. CASE SyncPods \/ Resync \/ UNCHANGED vars
  BY <1>6, OthersKnown, Zenon DEF SyncPods, Resync, vars, caches
<1>7. CASE \E p \in Pod : \/ invalidatePodEvictionCache(p) \/ ExpireEntry(p) \/ PodCreated(p) \/ PodStarts(p) \/ PodStops(p)
                         \/ PodFails(p) \/ PodEvicted(p)
  <2>1. UNCHANGED <<sts, stsCache, podCache, rc, conflicts>>
    BY <1>7, Zenon DEF invalidatePodEvictionCache, ExpireEntry, PodCreated, PodStarts, PodStops, PodFails, PodEvicted, caches, rcVars
  <2>2. QED
    BY <2>1, OthersKnown, Zenon
<1>8. CASE GroupEdited \/ \E z \in Set : StatusUpdated(z) \/ SetEdited(z)
  <2>1. UNCHANGED <<pod, podCache, stsCache, rc>>
    BY <1>8, Zenon DEF GroupEdited, StatusUpdated, SetEdited, caches
  <2>2. PICK Z \in SUBSET Set : Written(Z) /\ \A y \in Set \ Z : sts'[y] = sts[y]
    <3>1. CASE GroupEdited
      BY <3>1, Zenon DEF GroupEdited
    <3>2. CASE \E z \in Set : StatusUpdated(z) \/ SetEdited(z)
      <4>1. PICK z \in Set : StatusUpdated(z) \/ SetEdited(z)
        BY <3>2, Zenon
      <4>2. Written({z}) /\ \A y \in Set \ {z} : sts'[y] = sts[y]
        BY <1>0, <4>1, Zenon DEF StatusUpdated, SetEdited, TypeOK
      <4>3. {z} \in SUBSET Set
        BY Zenon
      <4>4. QED
        BY <4>2, <4>3, Zenon
    <3>3. QED
      BY <1>8, <3>1, <3>2, Zenon
  <2>3. QED
    BY <2>1, <2>2, WritesKnown, Zenon
<1>9. QED
  BY <1>1, <1>2, <1>3, <1>4, <1>5, <1>6, <1>7, <1>8, Zenon DEF Next, Controller, Reconcile, Informers, Cluster

\* Only the reconcile moves the current revision.
LEMMA CurrentMoved ==
    ASSUME TypeOK, [Next]_vars, NEW z \in Set, sts'[z].currentRev # sts[z].currentRev
    PROVE  UpdateSet
<1>0. sts \in [Set -> StsObject]
  BY Zenon DEF TypeOK
<1>1. CASE UNCHANGED sts
  BY <1>1, Zenon
<1>2. CASE GroupEdited
  BY <1>0, <1>2, Zenon DEF GroupEdited, StsObject
<1>3. CASE \E y \in Set : SetEdited(y)
  BY <1>0, <1>3 DEF SetEdited, StsObject
<1>4. CASE \E y \in Set : StatusUpdated(y)
  <2>1. PICK y \in Set : StatusUpdated(y)
    BY <1>4, Zenon
  <2>2. PICK m : \E n : sts' = [sts EXCEPT ![y].replicas = m, ![y].ready = n]
    BY <2>1, Zenon DEF StatusUpdated
  <2>3. PICK n : sts' = [sts EXCEPT ![y].replicas = m, ![y].ready = n]
    BY <2>2, Zenon
  <2>4. QED
    BY <1>0, <2>3, Zenon DEF StsObject
<1>5. QED
  BY <1>1, <1>2, <1>3, <1>4, Zenon
  DEF Next, vars, Controller, Reconcile, StartReconcile, CheckGroup, MarkPodAsDeleted, DeletePod, ReconcileFails,
      Informers, SyncPods, SyncSets, Resync, invalidatePodEvictionCache, ExpireEntry, Cluster, PodCreated, PodStarts, PodStops, PodFails,
      PodEvicted

\* The current revision that updateStatefulSetPods writes is the one of every pod
\* that the set has by then, whatever is edited, fails or is evicted between the
\* copy and the write: provided that the caches are current when a reconcile starts.
THEOREM PromotedOnlyWhenRolledOut ==
    ASSUME InformerPrompt
    PROVE  Spec => PromotedWhenRolledOut
<1> DEFINE Promoted == \A z \in Set : sts'[z].currentRev # sts[z].currentRev =>
                         \A p \in PodsOf(z) : Exists(pod[p]) => pod[p].rev = sts'[z].currentRev
<1>1. Init => PromoteInv
  <2> SUFFICES ASSUME Init PROVE PromoteInv
    BY Zenon
  <2>1. TypeOK /\ rc = Idle
    BY InitType, Zenon DEF Init
  <2>2. rc.pc = "idle"
    BY <2>1, Zenon DEF Idle
  <2>3. QED
    BY <2>1, <2>2, Zenon DEF PromoteInv, CopyKnown, OutdatedKnown
<1>2. PromoteInv /\ [Next]_vars => PromoteInv'
  BY PromoteStep, Zenon
<1>3. PromoteInv /\ [Next]_vars => [Promoted]_vars
  <2> SUFFICES ASSUME PromoteInv, [Next]_vars, NEW z \in Set, sts'[z].currentRev # sts[z].currentRev,
                      NEW p \in PodsOf(z), Exists(pod[p])
               PROVE  pod[p].rev = sts'[z].currentRev
    BY Zenon
  <2>0. TypeOK /\ UpdateSet
    BY CurrentMoved, Zenon DEF PromoteInv
  <2>1. /\ z \notin conflicts /\ podsNotMatchingUpdateRevision(rc.sets[z], z) = {}
        /\ sts'[z].currentRev = rc.sets[z].updateRev
    <3> DEFINE y == MoveStatefulSetToFront(rc.todo, rc.front)
    <3>1. \/ UNCHANGED sts
          \/ /\ y \in Set \ conflicts
             /\ sts' = [sts EXCEPT ![y].currentRev = rc.sets[y].updateRev]
             /\ podsNotMatchingUpdateRevision(rc.sets[y], y) = {}
      BY <2>0, UpdateSetDoes, Zenon
    <3> HIDE DEF y
    <3>2. y = z
      BY <2>0, <3>1, Zenon DEF TypeOK
    <3>3. QED
      BY <2>0, <3>1, <3>2, Zenon DEF TypeOK, StsObject
  <2>2. rc.pc = "update"
    BY <2>0, Zenon DEF UpdateSet
  <2>3. rc.sets[z] = sts[z]
    BY <2>1, <2>2, Zenon DEF PromoteInv, CopyKnown
  <2>4. p \in listPodsByStatefulSet(z) => podCache[p].rev = sts[z].updateRev
    BY <2>1, <2>3, Zenon DEF podsNotMatchingUpdateRevision
  <2>5. pod[p].rev # sts[z].updateRev => Exists(podCache[p]) /\ podCache[p].rev = pod[p].rev
    BY <2>1, <2>2, Zenon DEF PromoteInv, OutdatedKnown
  <2>6. QED
    BY <2>1, <2>3, <2>4, <2>5, Zenon DEF listPodsByStatefulSet
<1>4. QED
  BY <1>1, <1>2, <1>3, PTL DEF Spec, PromotedWhenRolledOut

-----------------------------------------------------------------------------
(* The status page.                                                        *)

\* The sets with not-ready pods, and those with pods to be updated, of a copy.
CopyNotReady == {z \in Set : hasStatefulSetNotReadyPods(rc.sets[z], z)}

CopyOutdated == {z \in Set : ~rc.sets[z].paused /\ podsNotMatchingUpdateRevision(rc.sets[z], z) # {}}

\* While the reconcile goes through the sets, it has gone past those that have
\* nothing to update or are paused, and past none that is not ready.
StatusInv ==
    /\ TypeOK
    /\ rc.pc \in {"check", "update"} => \A z \in Set : rc.sets[z].onDelete
    /\ rc.pc = "update" => /\ rc.front = CopyNotReady /\ rc.front \subseteq rc.todo
                           /\ \A y, z \in rc.front : y = z
                           /\ CopyOutdated \subseteq rc.todo

\* A step that does not move the reconcile.
LEMMA StatusKept ==
    ASSUME StatusInv, TypeOK', rc' = rc, podCache' = podCache \/ rc.pc # "update"
    PROVE  StatusInv'
<1>1. podCache' = podCache => CopyNotReady' = CopyNotReady /\ CopyOutdated' = CopyOutdated
  BY Zenon DEF CopyNotReady, CopyOutdated, hasStatefulSetNotReadyPods, podsNotMatchingUpdateRevision, listPodsByStatefulSet
<1>2. QED
  BY <1>1, Zenon DEF StatusInv

\* The reconcile leaves the loop over the sets.
LEMMA StatusEnds ==
    ASSUME StatusInv, TypeOK', rc'.pc \notin {"check", "update"}
    PROVE  StatusInv'
BY Zenon DEF StatusInv

LEMMA StatusCheck ==
    ASSUME StatusInv, TypeOK', CheckGroup
    PROVE  StatusInv'
<1>1. rc.pc = "check" /\ podCache' = podCache
  BY Zenon DEF CheckGroup, caches
<1>2. \/ rc' = Idle
      \/ /\ ~(Cardinality(CopyNotReady) > 1)
         /\ rc' = [pc |-> "update", sets |-> rc.sets, front |-> CopyNotReady, todo |-> Set]
  BY Zenon DEF CheckGroup, EndReconcile, tooManyNotReady, CopyNotReady
<1>3. CASE rc' = Idle
  BY <1>3, StatusEnds, Zenon DEF Idle
<1>4. CASE /\ ~(Cardinality(CopyNotReady) > 1)
           /\ rc' = [pc |-> "update", sets |-> rc.sets, front |-> CopyNotReady, todo |-> Set]
  <2>1. CopyNotReady \in SUBSET Set /\ CopyOutdated \subseteq Set
    BY Zenon DEF CopyNotReady, CopyOutdated
  <2>2. \A y, z \in CopyNotReady : y = z
    <3>1. IsFiniteSet(CopyNotReady) /\ Cardinality(CopyNotReady) \in Nat
      BY <2>1, SetFinite, FS_Subset, FS_CardinalityType, Zenon
    <3>2. Cardinality(CopyNotReady) <= 1
      BY <1>4, <3>1
    <3>3. QED
      BY <2>1, <3>2, AtMostOne, Zenon
  <2>3. rc'.pc = "update" /\ rc'.sets = rc.sets /\ rc'.front = CopyNotReady /\ rc'.todo = Set
    BY <1>4, Zenon
  <2>4. CopyNotReady' = CopyNotReady /\ CopyOutdated' = CopyOutdated
    BY <1>1, <2>3 DEF CopyNotReady, CopyOutdated, hasStatefulSetNotReadyPods, podsNotMatchingUpdateRevision,
                      listPodsByStatefulSet
  <2>5. QED
    BY <1>1, <2>1, <2>2, <2>3, <2>4, Zenon DEF StatusInv
<1>5. QED
  BY <1>2, <1>3, <1>4, Zenon

LEMMA StatusUpdate ==
    ASSUME StatusInv, TypeOK', UpdateSet
    PROVE  StatusInv'
<1> DEFINE z == MoveStatefulSetToFront(rc.todo, rc.front)
           nextSet == [rc EXCEPT !.todo = @ \ {z}]
<1>1. rc.pc = "update" /\ podCache' = podCache /\ rc \in Updating
  BY RcByPc, Zenon DEF UpdateSet, caches, StatusInv, TypeOK, RcType
<1>2. \/ rc' = Idle
      \/ rc' = [pc |-> "mark", queue |-> podsToDelete(rc.sets[z], z)]
      \/ /\ rc' = nextSet
         /\ \/ rc.sets[z].paused /\ z \notin rc.front
            \/ /\ podsNotMatchingUpdateRevision(rc.sets[z], z) = {}
               /\ ~hasStatefulSetNotReadyPods(rc.sets[z], z)
  BY Zenon DEF UpdateSet, EndReconcile, NextSet, PromoteRevision
<1>3. /\ nextSet.pc = "update" /\ nextSet.sets = rc.sets
      /\ nextSet.front = rc.front /\ nextSet.todo = rc.todo \ {z}
  BY <1>1, Zenon DEF Updating
<1> HIDE DEF z, nextSet
<1>4. CASE rc'.pc \notin {"check", "update"}
  BY <1>4, StatusEnds, Zenon
<1>5. CASE /\ rc' = nextSet
           /\ \/ rc.sets[z].paused /\ z \notin rc.front
              \/ /\ podsNotMatchingUpdateRevision(rc.sets[z], z) = {}
                 /\ ~hasStatefulSetNotReadyPods(rc.sets[z], z)
  <2>1. rc.front = CopyNotReady
    BY <1>1, Zenon DEF StatusInv
  <2>2. z \notin CopyNotReady /\ z \notin CopyOutdated
    BY <1>5, <2>1, Zenon DEF CopyNotReady, CopyOutdated
  <2>3. CopyNotReady' = CopyNotReady /\ CopyOutdated' = CopyOutdated
    BY <1>1, <1>3, <1>5, Zenon DEF CopyNotReady, CopyOutdated, hasStatefulSetNotReadyPods, podsNotMatchingUpdateRevision,
                            listPodsByStatefulSet
  <2>4. QED
    BY <1>1, <1>3, <1>5, <2>2, <2>3, Zenon DEF StatusInv
<1>6. QED
  BY <1>2, <1>4, <1>5 DEF Idle

LEMMA StatusStep ==
    ASSUME SnapshotPrompt, StatusInv, [Next]_vars
    PROVE  StatusInv'
<1>0. TypeOK /\ TypeOK'
  BY TypeStep, Zenon DEF StatusInv
<1>1. CASE StartReconcile
  <2>1. \/ rc' = rc /\ podCache' = podCache
        \/ rc' = [pc |-> "check", sets |-> stsCache] /\ \A z \in Set : stsCache[z].onDelete
    BY <1>1, Zenon DEF StartReconcile, rcVars, caches
  <2>2. CASE rc' = rc /\ podCache' = podCache
    BY <1>0, <2>2, StatusKept, Zenon
  <2>3. CASE rc' = [pc |-> "check", sets |-> stsCache] /\ \A z \in Set : stsCache[z].onDelete
    BY <1>0, <2>3, Zenon DEF StatusInv
  <2>4. QED
    BY <2>1, <2>2, <2>3, Zenon
<1>2. CASE CheckGroup
  BY <1>0, <1>2, StatusCheck, Zenon
<1>3. CASE UpdateSet
  BY <1>0, <1>3, StatusUpdate, Zenon
<1>4. CASE ReconcileFails
  BY <1>0, <1>4, StatusEnds, Zenon DEF ReconcileFails, EndReconcile, Idle
<1>5. CASE \E p \in Pod : MarkPodAsDeleted(p) \/ DeletePod(p)
  <2>1. rc \in Deleting
    BY <1>0, <1>5, RcByPc, Zenon DEF MarkPodAsDeleted, DeletePod, DeleteInFlight, TypeOK, RcType
  <2>2. rc' = Idle \/ rc'.pc \in {"mark", "delete"}
    BY <1>5, <2>1 DEF MarkPodAsDeleted, DeletePod, NextPod, EndReconcile, Deleting
  <2>3. rc'.pc \notin {"check", "update"}
    BY <2>2 DEF Idle
  <2>4. QED
    BY <1>0, <2>3, StatusEnds, Zenon
<1>6. CASE SyncPods
  BY <1>0, <1>6, StatusKept, Zenon DEF SyncPods
<1>7. CASE UNCHANGED <<rc, podCache>>
  BY <1>0, <1>7, StatusKept, Zenon
<1>8. QED
  BY <1>1, <1>2, <1>3, <1>4, <1>5, <1>6, <1>7, Zenon
  DEF Next, vars, Controller, Reconcile, Informers, SyncSets, Resync, invalidatePodEvictionCache, ExpireEntry, Cluster, PodCreated, PodStarts,
      PodStops, PodFails, PodEvicted, StatusUpdated, SetEdited, GroupEdited, caches, rcVars

\* What the page shows as progressing.
Shown == {z \in Set : applyZoneGating[z] = "Progressing"}

LEMMA MemberPhase ==
    ASSUME NEW z \in Set, stsCache[z].onDelete, rc.sets = stsCache
    PROVE  /\ memberStatus(z) # "Degraded"
           /\ memberStatus(z) = "Progressing" <=> z \in CopyOutdated
           /\ NotReady(z) <=> z \in CopyNotReady
<1>1. NotReady(z) <=> z \in CopyNotReady
  BY Zenon DEF NotReady, CopyNotReady, hasStatefulSetNotReadyPods
<1>2. CASE needsUpdate(z)
  <2>1. memberStatus(z) = IF stsCache[z].paused THEN "Paused" ELSE "Progressing"
    BY <1>2, Zenon DEF memberStatus
  <2>2. z \in CopyOutdated <=> ~stsCache[z].paused
    BY <1>2, Zenon DEF CopyOutdated, needsUpdate
  <2>3. QED
    BY <1>1, <2>1, <2>2, Zenon
<1>3. CASE ~needsUpdate(z)
  <2>1. memberStatus(z) = IF NotReady(z) \/ Replicas[z] # stsCache[z].ready THEN "Waiting" ELSE "Complete"
    BY <1>3, Zenon DEF memberStatus
  <2>2. z \notin CopyOutdated
    BY <1>3, Zenon DEF CopyOutdated, needsUpdate
  <2>3. QED
    BY <1>1, <2>1, <2>2, Zenon
<1>4. QED
  BY <1>2, <1>3, Zenon

\* The gating of the page, in terms of what a reconcile computes from its copies.
LEMMA ShownOfCopy ==
    ASSUME \A z \in Set : stsCache[z].onDelete, rc.sets = stsCache
    PROVE  /\ Shown \subseteq CopyOutdated
           /\ CopyNotReady # {} => Shown = {z \in CopyOutdated : CopyNotReady = {z}}
           /\ CopyNotReady = {} /\ CopyOutdated # {} =>
                  Shown = {CHOOSE z \in CopyOutdated : \A y \in CopyOutdated : z <= y}
<1> DEFINE progressing == {z \in Set : memberStatus(z) = "Progressing"}
           notReady == {z \in Set : NotReady(z)}
           active == Gated(notReady, progressing)
<1>1. progressing = CopyOutdated /\ notReady = CopyNotReady
  BY MemberPhase, Zenon DEF CopyOutdated, CopyNotReady
<1>2. ~\E z \in Set : memberStatus(z) = "Degraded"
  BY MemberPhase, Zenon
<1>3. \A z \in Set : applyZoneGating[z] = IF z \in progressing \ active THEN "Waiting" ELSE memberStatus(z)
  BY Zenon DEF applyZoneGating
<1>4. Shown = progressing \cap active
  <2>1. \A z \in Set : z \in progressing <=> memberStatus(z) = "Progressing"
    BY Zenon
  <2>2. progressing \subseteq Set
    BY Zenon
  <2> HIDE DEF progressing, active
  <2>3. QED
    BY <1>3, <2>1, <2>2, Zenon DEF Shown
<1>5. active = IF CopyNotReady # {} THEN {z \in CopyOutdated : CopyNotReady = {z}}
               ELSE IF CopyOutdated = {} THEN {}
               ELSE {CHOOSE z \in CopyOutdated : \A y \in CopyOutdated : z <= y}
  BY <1>1, <1>2, Zenon DEF Gated
<1> HIDE DEF progressing, notReady, active
<1>6. CopyOutdated # {} => (CHOOSE z \in CopyOutdated : \A y \in CopyOutdated : z <= y) \in CopyOutdated
  <2>1. CopyOutdated \in SUBSET Set
    BY Zenon DEF CopyOutdated
  <2>2. QED
    BY <2>1, LeastOf, Zenon
<1>7. QED
  BY <1>1, <1>4, <1>5, <1>6, Zenon

\* The set that a reconcile takes the pods of is the one shown.
LEMMA ShownIsNext ==
    ASSUME StatusInv, rc.pc = "update", rc.sets = stsCache, rc.todo # {},
           NEW z, z = MoveStatefulSetToFront(rc.todo, rc.front)
    PROVE  /\ z \in Set
           /\ z \in CopyOutdated => Shown = {z}
           /\ z \notin CopyOutdated /\ z \in CopyNotReady => Shown = {}
<1>1. rc \in Updating
  BY RcByPc, Zenon DEF StatusInv, TypeOK, RcType
<1>2. rc.todo \in SUBSET Set /\ rc.front = CopyNotReady /\ rc.front \subseteq rc.todo
  BY <1>1, Zenon DEF StatusInv, Updating
<1>3. \A x, y \in CopyNotReady : x = y
  BY <1>2, Zenon DEF StatusInv
<1>4. CopyOutdated \subseteq rc.todo
  BY Zenon DEF StatusInv
<1>5. /\ z \in rc.todo /\ (CopyNotReady # {} => z \in CopyNotReady)
      /\ CopyNotReady = {} => \A y \in rc.todo : z <= y
  BY <1>2, NextOfTodo, Zenon
<1>6. /\ Shown \subseteq CopyOutdated
      /\ CopyNotReady # {} => Shown = {y \in CopyOutdated : CopyNotReady = {y}}
      /\ CopyNotReady = {} /\ CopyOutdated # {} =>
             Shown = {CHOOSE x \in CopyOutdated : \A y \in CopyOutdated : x <= y}
  BY ShownOfCopy, Zenon DEF StatusInv
<1>7. CASE CopyNotReady # {}
  <2>1. CopyNotReady = {z}
    BY <1>3, <1>5, <1>7, Zenon
  <2>2. QED
    BY <1>2, <1>5, <1>6, <2>1, Zenon
<1>8. CASE CopyNotReady = {}
  <2> DEFINE least == CHOOSE x \in CopyOutdated : \A y \in CopyOutdated : x <= y
  <2>1. CopyOutdated # {} => least \in CopyOutdated /\ \A y \in CopyOutdated : least <= y
    <3>1. CopyOutdated \in SUBSET Set
      BY Zenon DEF CopyOutdated
    <3>2. QED
      BY <3>1, LeastOf, Zenon
  <2>2. z \in CopyOutdated => Shown = {least}
    BY <1>6, <1>8, Zenon
  <2> HIDE DEF least
  <2>3. ASSUME z \in CopyOutdated
        PROVE  least = z
    <3>1. least <= z /\ z <= least /\ least \in Set /\ z \in Set
      BY <1>2, <1>4, <1>5, <1>8, <2>1, <2>3, Zenon
    <3>2. QED
      BY <3>1 DEF Set
  <2>4. QED
    BY <1>2, <1>5, <1>8, <2>2, <2>3, Zenon
<1>9. QED
  BY <1>7, <1>8, Zenon

\* Two sets with not-ready pods: nothing is done, and nothing is shown.
LEMMA CheckAgrees ==
    ASSUME StatusInv, CheckGroup, rc.sets = stsCache
    PROVE  rc'.pc # "mark" /\ (rc'.pc = "idle" => Shown = {})
<1>1. rc.pc = "check" /\ \A z \in Set : stsCache[z].onDelete
  BY Zenon DEF CheckGroup, StatusInv
<1>2. \/ rc' = Idle /\ Cardinality(CopyNotReady) > 1
      \/ rc'.pc = "update"
  BY DEF CheckGroup, EndReconcile, tooManyNotReady, CopyNotReady
<1>3. CASE Cardinality(CopyNotReady) > 1
  <2>1. CopyNotReady # {}
    BY <1>3, FS_EmptySet
  <2>2. ASSUME NEW z, CopyNotReady = {z}
        PROVE  FALSE
    <3>1. Cardinality({z}) = 1
      BY FS_Singleton, Zenon
    <3>2. QED
      BY <1>3, <2>2, <3>1
  <2>3. Shown = {z \in CopyOutdated : CopyNotReady = {z}}
    BY <1>1, <2>1, ShownOfCopy, Zenon
  <2>4. Shown = {}
    BY <2>2, <2>3, Zenon
  <2>5. QED
    BY <1>2, <2>4 DEF Idle
<1>4. QED
  BY <1>2, <1>3, Zenon DEF Idle

LEMMA UpdateAgrees ==
    ASSUME StatusInv, UpdateSet, rc.sets = stsCache
    PROVE  /\ rc'.pc = "mark" => Shown = {SetOf(p) : p \in rc'.queue}
           /\ rc'.pc = "idle" /\ ~shouldReconcile' => \A z \in Shown : podsToDelete(stsCache[z], z) = {}
<1> DEFINE z == MoveStatefulSetToFront(rc.todo, rc.front)
           queue == podsToDelete(rc.sets[z], z)
           nextSet == [rc EXCEPT !.todo = @ \ {z}]
<1>1. rc.pc = "update" /\ rc \in Updating
  BY RcByPc, Zenon DEF UpdateSet, StatusInv, TypeOK, RcType
<1>2. rc.front = CopyNotReady
  BY <1>1, Zenon DEF StatusInv
<1>3. CASE rc.todo = {}
  <2>1. rc' = Idle
    BY <1>3, Zenon DEF UpdateSet, EndReconcile
  <2>2. Shown \subseteq CopyOutdated /\ CopyOutdated \subseteq rc.todo
    BY <1>1, ShownOfCopy, Zenon DEF StatusInv
  <2>3. QED
    BY <1>3, <2>1, <2>2, Zenon DEF Idle
<1>4. CASE rc.todo # {}
  <2>1. \/ rc' = Idle /\ rc.sets[z].paused /\ z \in rc.front
        \/ rc' = nextSet
        \/ /\ ~rc.sets[z].paused /\ podsNotMatchingUpdateRevision(rc.sets[z], z) # {}
           /\ \/ queue = {} /\ rc' = Idle
              \/ queue # {} /\ rc' = [pc |-> "mark", queue |-> queue]
        \/ /\ podsNotMatchingUpdateRevision(rc.sets[z], z) = {}
           /\ hasStatefulSetNotReadyPods(rc.sets[z], z) /\ rc' = Idle
        \/ rc' = Idle /\ shouldReconcile'
    BY <1>4, Zenon DEF UpdateSet, EndReconcile, NextSet, PromoteRevision
  <2>2. nextSet.pc = "update"
    BY <1>1, Zenon DEF Updating
  <2>3. /\ z \in Set
        /\ z \in CopyOutdated => Shown = {z}
        /\ z \notin CopyOutdated /\ z \in CopyNotReady => Shown = {}
    BY <1>1, <1>4, ShownIsNext, Zenon
  <2>4. z \in CopyOutdated <=> ~rc.sets[z].paused /\ podsNotMatchingUpdateRevision(rc.sets[z], z) # {}
    BY <2>3, Zenon DEF CopyOutdated
  <2>5. z \in CopyNotReady <=> hasStatefulSetNotReadyPods(rc.sets[z], z)
    BY <2>3, Zenon DEF CopyNotReady
  <2>6. \A p \in queue : SetOf(p) = z
    BY ChosenOfSet, Zenon
  <2> HIDE DEF z, nextSet
  <2>7. CASE /\ ~rc.sets[z].paused /\ podsNotMatchingUpdateRevision(rc.sets[z], z) # {}
             /\ queue # {} /\ rc' = [pc |-> "mark", queue |-> queue]
    <3>1. Shown = {z} /\ rc'.queue = queue /\ rc'.pc = "mark"
      BY <2>3, <2>4, <2>7, Zenon
    <3> HIDE DEF queue
    <3>2. QED
      BY <2>6, <2>7, <3>1, Zenon
  <2>8. CASE /\ ~rc.sets[z].paused /\ podsNotMatchingUpdateRevision(rc.sets[z], z) # {}
             /\ queue = {} /\ rc' = Idle
    BY <2>3, <2>4, <2>8, Zenon DEF Idle
  <2>9. CASE rc' = nextSet
    BY <2>2, <2>9, Zenon
  <2>10. CASE rc' = Idle /\ shouldReconcile'
    BY <2>10, Zenon DEF Idle
  <2>11. CASE rc' = Idle /\ rc.sets[z].paused /\ z \in rc.front
    BY <1>2, <2>3, <2>4, <2>11, Zenon DEF Idle
  <2>12. CASE /\ podsNotMatchingUpdateRevision(rc.sets[z], z) = {}
              /\ hasStatefulSetNotReadyPods(rc.sets[z], z) /\ rc' = Idle
    BY <2>3, <2>4, <2>5, <2>12, Zenon DEF Idle
  <2>13. QED
    BY <2>1, <2>7, <2>8, <2>9, <2>10, <2>11, <2>12, Zenon
<1>5. QED
  BY <1>3, <1>4, Zenon

\* What applyZoneGating shows as progressing is what reconcileStatefulSetsGroup
\* takes down, for any number of sets, pods and revisions and whatever the age of
\* the caches: provided that the pod cache does not move on while a reconcile
\* lists the pods.
THEOREM PageShowsActiveSet ==
    ASSUME SnapshotPrompt
    PROVE  Spec => StatusShowsActiveSet
<1> DEFINE Agrees == rc.pc \in {"check", "update"} /\ rc.sets = stsCache =>
                       /\ rc'.pc = "mark" => Shown = {SetOf(p) : p \in rc'.queue}
                       /\ rc'.pc = "idle" /\ ~shouldReconcile' =>
                            \A z \in Shown : podsToDelete(stsCache[z], z) = {}
<1>1. Init => StatusInv
  <2> SUFFICES ASSUME Init PROVE StatusInv
    BY Zenon
  <2>1. TypeOK /\ rc = Idle
    BY InitType, Zenon DEF Init
  <2>2. rc.pc = "idle"
    BY <2>1, Zenon DEF Idle
  <2>3. QED
    BY <2>1, <2>2, Zenon DEF StatusInv
<1>2. StatusInv /\ [Next]_vars => StatusInv'
  BY StatusStep, Zenon
<1>3. StatusInv /\ [Next]_vars => [Agrees]_vars
  <2> SUFFICES ASSUME StatusInv, Next, rc.pc \in {"check", "update"}, rc.sets = stsCache
               PROVE  /\ rc'.pc = "mark" => Shown = {SetOf(p) : p \in rc'.queue}
                      /\ rc'.pc = "idle" /\ ~shouldReconcile' =>
                           \A z \in Shown : podsToDelete(stsCache[z], z) = {}
    BY Zenon
  <2>1. CASE CheckGroup
    BY <2>1, CheckAgrees, Zenon
  <2>2. CASE UpdateSet
    BY <2>2, UpdateAgrees, Zenon
  <2>3. CASE ReconcileFails
    BY <2>3, Zenon DEF ReconcileFails, EndReconcile, Idle
  <2>4. CASE rc' = rc
    BY <2>4, Zenon
  <2>5. QED
    BY <2>1, <2>2, <2>3, <2>4, Zenon
    DEF Next, Controller, Reconcile, StartReconcile, MarkPodAsDeleted, DeletePod, DeleteInFlight, Informers, SyncPods,
        SyncSets, Resync, invalidatePodEvictionCache, ExpireEntry, Cluster, PodCreated, PodStarts, PodStops, PodFails, PodEvicted, StatusUpdated,
        SetEdited, GroupEdited, rcVars
<1>4. QED
  BY <1>1, <1>2, <1>3, PTL DEF Spec, StatusShowsActiveSet, Shown

-----------------------------------------------------------------------------
(* The limit of a StatefulSet.                                             *)

\* The owners' part: a template is changed between reconciles, while no pod of
\* the set drains.
Calm ==
    \A z \in Set : sts'[z].updateRev # sts[z].updateRev =>
        rc.pc = "idle" /\ \A p \in PodsOf(z) : pod[p].st # "Draining"

Stale(obj, z) == Exists(obj) /\ obj.rev # sts[z].updateRev
Before(q, p) == SetOf(q) = SetOf(p) /\ q[2] < p[2]

\* A pod that drains is outdated, and the outdated pods before it terminate too.
DrainInOrder(objs) ==
    \A p \in Pod : objs[p].st = "Draining" =>
        /\ Stale(objs[p], SetOf(p))
        /\ \A q \in Pod : Before(q, p) /\ Stale(objs[q], SetOf(q)) => IsTerminating(objs[q])

\* What the copies of a reconcile tell of the pods, until it deletes one.
SeenAs(p) ==
    /\ p \in down => podCache[p].st # "Ready"
    /\ podCache[p].st = "Stuck" => pod[p].st = "Stuck"
    /\ Exists(podCache[p]) /\ ~IsTerminating(podCache[p]) =>
         Exists(pod[p]) /\ ~IsTerminating(pod[p]) /\ pod[p].rev = podCache[p].rev
    /\ Stale(pod[p], SetOf(p)) =>
         Stale(podCache[p], SetOf(p)) /\ (IsTerminating(podCache[p]) => IsTerminating(pod[p]))

CountedReady(z) == {p \in PodsOf(z) : podCache[p].st \in {"Ready", "Draining"}}

CopyTells ==
    rc.pc \in {"check", "update"} =>
        /\ DrainInOrder(podCache)
        /\ \A z \in Set : /\ rc.sets[z].updateRev = sts[z].updateRev
                          /\ rc.sets[z].ready = Cardinality(CountedReady(z))
        /\ \A p \in Pod : SeenAs(p)

Queued == IF rc.pc \in {"mark", "delete"} THEN rc.queue ELSE {}

\* The outdated pods before one that is to be deleted go first, except before a
\* stuck one.
QueueTells ==
    \A p \in Queued :
        /\ Stale(pod[p], SetOf(p)) /\ ~IsTerminating(pod[p])
        /\ \A q \in Queued : SetOf(q) = SetOf(p)
        /\ pod[p].st # "Stuck" =>
             \A q \in Pod : Before(q, p) /\ Stale(pod[q], SetOf(q)) => IsTerminating(pod[q]) \/ q \in Queued

\* The pods that are taken down, or that may be ready when their turn comes.
Spent(z) == {p \in PodsOf(z) : p \in down \/ (p \in Queued /\ pod[p].st # "Stuck")}

LimitInv ==
    /\ TypeOK /\ DownNotReady /\ left["evictions"] = 0
    /\ DrainInOrder(pod) /\ CopyTells /\ QueueTells
    /\ \A z \in Set : Cardinality(Spent(z)) <= MaxUnavailable[z]

\* The pods of a set that satisfy something are finitely many.
LEMMA SomePods ==
    ASSUME NEW z \in Set, NEW S \in SUBSET PodsOf(z)
    PROVE  IsFiniteSet(S) /\ Cardinality(S) \in Nat
BY PodsFinite, FS_Subset, FS_CardinalityType, Zenon

\* The last pod of some pods of one set.
LEMMA LastOf ==
    ASSUME NEW z \in Set, NEW S \in SUBSET PodsOf(z), S # {}
    PROVE  \E p \in S : \A q \in S : q[2] <= p[2]
<1> DEFINE Rest == {Replicas[z] - p[2] : p \in S}
<1>1. Replicas[z] \in Nat /\ \A p \in S : p[2] \in 1..Replicas[z]
  BY PodsAreReplicas, SizeAssumption, Zenon
<1>2. Rest \in SUBSET Nat /\ Rest # {}
  BY <1>1
<1> HIDE DEF Rest
<1>3. PICK m \in Rest : \A y \in Rest : ~(<<y, m>> \in OpToRel(<, Nat))
  BY <1>2, WFMin, NatLessThanWellFounded, Zenon
<1>4. ASSUME NEW y \in Rest, y < m
      PROVE  FALSE
  <2>1. <<y, m>> \in Nat \X Nat /\ <<y, m>>[1] < <<y, m>>[2]
    BY <1>2, <1>4, Zenon
  <2>2. <<y, m>> \in OpToRel(<, Nat)
    BY <2>1, Zenon DEF OpToRel
  <2>3. QED
    BY <1>3, <2>2, Zenon
<1>5. PICK p \in S : m = Replicas[z] - p[2]
  BY <1>3, Zenon DEF Rest
<1>6. ASSUME NEW q \in S
      PROVE  q[2] <= p[2]
  <2>1. Replicas[z] - q[2] \in Rest
    BY Zenon DEF Rest
  <2>2. ~(Replicas[z] - q[2] < m)
    BY <1>4, <2>1, Zenon
  <2>3. QED
    BY <1>1, <1>5, <2>2
<1>7. QED
  BY <1>6, Zenon

\* sort and podsToUpdate[:numPods]: the first n of some pods are at most n, and
\* the pods before one of them are among them.
LEMMA FirstOnes ==
    ASSUME NEW z \in Set, NEW S \in SUBSET PodsOf(z), NEW n \in Nat
    PROVE  LET first == {p \in S : Cardinality({q \in S : q[2] < p[2]}) < n}
           IN  /\ Cardinality(first) <= n
               /\ \A p \in first, q \in S : q \notin first => p[2] < q[2]
<1> DEFINE Lower(p) == {q \in S : q[2] < p[2]}
           first == {p \in S : Cardinality(Lower(p)) < n}
<1>0. ASSUME NEW p
      PROVE  Lower(p) \in SUBSET PodsOf(z) /\ IsFiniteSet(Lower(p)) /\ Cardinality(Lower(p)) \in Nat
  <2>1. Lower(p) \in SUBSET PodsOf(z)
    BY Zenon
  <2> HIDE DEF Lower
  <2>2. QED
    BY <2>1, SomePods, Zenon
<1>1. \A p \in S : p = <<z, p[2]>> /\ p[2] \in Int
  BY PodsAreReplicas, SizeAssumption
<1>2. Cardinality(first) <= n
  <2>1. first \in SUBSET PodsOf(z)
    BY Zenon
  <2>2. CASE first = {}
    <3> HIDE DEF first
    <3>1. Cardinality(first) = 0
      BY <2>2, FS_EmptySet, Zenon
    <3>2. QED
      BY <3>1
  <2>3. CASE first # {}
    <3>1. PICK p \in first : \A q \in first : q[2] <= p[2]
      <4> HIDE DEF first
      <4>1. QED
        BY <2>1, <2>3, LastOf, Zenon
    <3>2. first \subseteq Lower(p) \cup {p}
      <4>1. ASSUME NEW q \in first, q # p
            PROVE  q[2] < p[2]
        BY <1>1, <3>1, <4>1
      <4>2. QED
        BY <4>1, Zenon
    <3>3. Cardinality(Lower(p)) < n
      BY <3>1, Zenon
    <3> HIDE DEF first, Lower
    <3>4. IsFiniteSet(Lower(p) \cup {p}) /\ Cardinality(Lower(p) \cup {p}) <= Cardinality(Lower(p)) + 1
      <4>1. IsFiniteSet(Lower(p)) /\ Cardinality(Lower(p)) \in Nat
        BY <1>0, Zenon
      <4>2. IsFiniteSet(Lower(p) \cup {p})
        BY <4>1, FS_AddElement, Zenon
      <4>3. \/ Cardinality(Lower(p) \cup {p}) = Cardinality(Lower(p))
            \/ Cardinality(Lower(p) \cup {p}) = Cardinality(Lower(p)) + 1
        BY <4>1, FS_AddElement, Zenon
      <4>4. QED
        BY <4>1, <4>2, <4>3
    <3>5. Cardinality(first) <= Cardinality(Lower(p) \cup {p})
      BY <3>2, <3>4, FS_Subset, Zenon
    <3>6. Cardinality(first) \in Nat /\ Cardinality(Lower(p) \cup {p}) \in Nat
      BY <2>1, <3>4, SomePods, FS_CardinalityType, Zenon
    <3>7. QED
      BY <1>0, <3>3, <3>4, <3>5, <3>6
  <2>4. QED
    BY <2>2, <2>3, Zenon
<1>3. ASSUME NEW p \in first, NEW q \in S, q \notin first, ~(p[2] < q[2])
      PROVE  FALSE
  <2>1. Lower(q) \subseteq Lower(p)
    BY <1>1, <1>3
  <2>2. Cardinality(Lower(p)) < n /\ ~(Cardinality(Lower(q)) < n)
    BY <1>3, Zenon
  <2> HIDE DEF first, Lower
  <2>3. Cardinality(Lower(q)) <= Cardinality(Lower(p))
    BY <1>0, <2>1, FS_Subset, Zenon
  <2>4. QED
    BY <1>0, <2>2, <2>3
<1>4. QED
  BY <1>2, <1>3, Zenon

\* What a step other than a deletion does to a pod.
Moves(p) ==
    /\ pod'[p].st = "Draining" => pod'[p] = pod[p]
    /\ pod[p].st = "Stuck" => pod'[p].st = "Stuck"
    /\ Exists(pod[p]) /\ ~IsTerminating(pod[p]) =>
         Exists(pod'[p]) /\ ~IsTerminating(pod'[p]) /\ pod'[p].rev = pod[p].rev
    /\ Stale(pod'[p], SetOf(p)) =>
         /\ Stale(pod[p], SetOf(p)) /\ pod'[p].rev = pod[p].rev
         /\ IsTerminating(pod[p]) => IsTerminating(pod'[p])

LEMMA PodMoves ==
    ASSUME TypeOK, left["evictions"] = 0, [Next]_vars, ~\E q \in Pod : DeletePod(q), NEW p \in Pod
    PROVE  Moves(p)
<1>0. pod \in [Pod -> PodObject] /\ pod[p] \in PodObject
  BY Zenon DEF TypeOK
<1>1. CASE UNCHANGED pod
  BY <1>1, Zenon DEF Moves
<1>2. CASE \E q \in Pod : PodCreated(q)
  <2>1. PICK q \in Pod : PodCreated(q)
    BY <1>2, Zenon
  <2>2. ~Exists(pod[q]) /\ pod' = [pod EXCEPT ![q] = [st |-> "Pending", rev |-> sts[SetOf(q)].updateRev]]
    BY <2>1, Zenon DEF PodCreated
  <2>3. CASE p = q
    BY <1>0, <2>2, <2>3, Zenon DEF Moves, Stale, Exists, IsTerminating
  <2>4. CASE p # q
    BY <1>0, <1>1, <2>2, <2>4, Zenon DEF Moves
  <2>5. QED
    BY <2>3, <2>4, Zenon
<1>3. CASE \E q \in Pod : PodStarts(q) \/ PodStops(q) \/ PodFails(q)
  <2>1. PICK q \in Pod : PodStarts(q) \/ PodStops(q) \/ PodFails(q)
    BY <1>3, Zenon
  <2>2. \/ /\ pod[q].st \in {"Pending", "Unready"}
           /\ pod' = [pod EXCEPT ![q].st = "Stuck"] \/ pod' = [pod EXCEPT ![q].st = "Ready"]
        \/ /\ pod[q].st = "Ready" /\ pod' = [pod EXCEPT ![q].st = "Unready"]
        \/ /\ pod[q].st \in {"Draining", "Stopping"}
           /\ pod' = [pod EXCEPT ![q].st = "Stopping"] \/ pod' = [pod EXCEPT ![q].st = "Absent"]
    BY <2>1, Zenon DEF PodStarts, PodStops, PodFails, Become
  <2>3. CASE p = q
    BY <1>0, <2>2, <2>3 DEF Moves, Stale, Exists, IsTerminating, PodObject
  <2>4. CASE p # q
    BY <1>0, <2>2, <2>4, Zenon DEF Moves
  <2>5. QED
    BY <2>3, <2>4, Zenon
<1>4. CASE \E q \in Pod : PodEvicted(q)
  BY <1>4 DEF PodEvicted, Spend
<1>5. CASE \/ StartReconcile \/ CheckGroup \/ UpdateSet \/ ReconcileFails \/ Informers \/ GroupEdited \/ UNCHANGED vars
           \/ (\E q \in Pod : MarkPodAsDeleted(q)) \/ (\E z \in Set : StatusUpdated(z) \/ SetEdited(z))
  BY <1>1, <1>5, Zenon DEF StartReconcile, CheckGroup, UpdateSet, ReconcileFails, Informers, SyncPods, SyncSets, Resync,
                    invalidatePodEvictionCache, ExpireEntry, MarkPodAsDeleted, GroupEdited, StatusUpdated, SetEdited, vars
<1>6. QED
  BY <1>2, <1>3, <1>4, <1>5, Zenon DEF Next, Controller, Reconcile, Cluster

\* DeletePod on a pod of the queue.
LEMMA DeleteDoes ==
    ASSUME TypeOK, QueueTells, NEW p \in Pod, DeletePod(p)
    PROVE  /\ p \in rc.queue /\ rc.pc = "delete" /\ Queued = rc.queue
           /\ pod' = [pod EXCEPT ![p] = Deleted(@)]
           /\ pod'[p].st \in {"Draining", "Stopping", "Absent"} /\ pod'[p].rev = pod[p].rev
           /\ pod'[p].st = "Draining" => pod[p].st = "Ready"
           /\ down' \subseteq down \cup {p} /\ (pod[p].st # "Ready" => down' = down)
           /\ Queued' = rc.queue \ {p}
           /\ UNCHANGED <<sts, podCache, left>>
<1>1. p \in rc.queue /\ rc.pc = "delete" /\ Queued = rc.queue
  BY Zenon DEF DeletePod, DeleteInFlight, SortsFirst, Queued
<1>2. Exists(pod[p]) /\ ~IsTerminating(pod[p]) /\ pod \in [Pod -> PodObject] /\ pod[p] \in PodObject
  BY <1>1, Zenon DEF QueueTells, Stale, TypeOK
<1>3. /\ pod' = [pod EXCEPT ![p] = Deleted(@)] /\ NextPod(p)
      /\ down' = IF IsPodRunningAndReady(pod[p]) THEN down \cup {p} ELSE down
      /\ UNCHANGED <<sts, podCache, left>>
  BY <1>2, Zenon DEF DeletePod, caches
<1>4. pod'[p] = Deleted(pod[p])
  BY <1>2, <1>3, Zenon
<1>5. /\ pod'[p].st \in {"Draining", "Stopping", "Absent"} /\ pod'[p].rev = pod[p].rev
      /\ pod'[p].st = "Draining" => pod[p].st = "Ready"
  BY <1>2, <1>4, Zenon DEF Deleted, Exists, IsTerminating, PodObject, PodState
<1>6. down' \subseteq down \cup {p} /\ (pod[p].st # "Ready" => down' = down)
  BY <1>3, Zenon DEF IsPodRunningAndReady
<1>7. Queued' = rc.queue \ {p}
  <2>1. CASE rc.queue = {p}
    BY <1>3, <2>1, Zenon DEF NextPod, Queued, Idle
  <2>2. CASE rc.queue # {p}
    <3>1. rc' = [pc |-> "mark", queue |-> rc.queue \ {p}]
      BY <1>3, <2>2, Zenon DEF NextPod
    <3>2. rc'.pc = "mark" /\ rc'.queue = rc.queue \ {p}
      BY <3>1, Zenon
    <3>3. QED
      BY <3>2, Zenon DEF Queued
  <2>3. QED
    BY <2>1, <2>2, Zenon
<1>8. QED
  BY <1>1, <1>3, <1>5, <1>6, <1>7, Zenon

\* The order in which pods drain, by a deletion and by any other step.
LEMMA DrainsAfterDelete ==
    ASSUME LimitInv, NEW p \in Pod, DeletePod(p)
    PROVE  DrainInOrder(pod)'
<1>1. TypeOK /\ QueueTells /\ DrainInOrder(pod)
  BY Zenon DEF LimitInv
<1>2. /\ p \in rc.queue /\ Queued = rc.queue
      /\ pod' = [pod EXCEPT ![p] = Deleted(@)] /\ sts' = sts
      /\ pod'[p].st \in {"Draining", "Stopping", "Absent"} /\ pod'[p].rev = pod[p].rev
      /\ pod'[p].st = "Draining" => pod[p].st = "Ready"
  BY <1>1, DeleteDoes, Zenon
<1>3. \A q \in Pod \ {p} : pod'[q] = pod[q]
  BY <1>1, <1>2, Zenon DEF TypeOK
<1>4. Stale(pod[p], SetOf(p)) /\ ~IsTerminating(pod[p])
  BY <1>1, <1>2, Zenon DEF QueueTells
<1>5. Stale(pod'[p], SetOf(p)) => IsTerminating(pod'[p])
  BY <1>2, Zenon DEF Stale, Exists, IsTerminating
<1>6. \A q \in rc.queue : ~Before(q, p)
  <2>1. \A q \in rc.queue : p[2] <= q[2]
    BY Zenon DEF DeletePod, DeleteInFlight, SortsFirst
  <2>2. rc.queue \subseteq Pod
    BY <1>1, QueueOfSet, Zenon DEF TypeOK, RcType, DeletePod, DeleteInFlight
  <2>3. \A q \in Pod : q[2] \in Int
    BY SizeAssumption DEF Pod
  <2>4. QED
    BY <2>1, <2>2, <2>3 DEF Before
<1>7. ASSUME NEW d \in Pod, pod'[d].st = "Draining"
      PROVE  /\ Stale(pod'[d], SetOf(d))
             /\ \A q \in Pod : Before(q, d) /\ Stale(pod'[q], SetOf(q)) => IsTerminating(pod'[q])
  <2>1. CASE d = p
    <3>1. pod[p].st = "Ready"
      BY <1>2, <1>7, <2>1, Zenon
    <3>2. Stale(pod'[p], SetOf(p))
      BY <1>2, <1>4, <1>7, <2>1, Zenon DEF Stale, Exists
    <3>3. \A q \in Pod : Before(q, p) /\ Stale(pod[q], SetOf(q)) => IsTerminating(pod[q])
      BY <1>1, <1>2, <1>6, <3>1, Zenon DEF QueueTells
    <3>4. QED
      BY <1>3, <1>5, <2>1, <3>2, <3>3, Zenon
  <2>2. CASE d # p
    BY <1>1, <1>3, <1>5, <1>7, <2>2, Zenon DEF DrainInOrder
  <2>3. QED
    BY <2>1, <2>2, Zenon
<1>8. QED
  BY <1>2, <1>7, Zenon DEF DrainInOrder, Stale

LEMMA DrainsOtherwise ==
    ASSUME LimitInv, Calm, [Next]_vars, ~\E p \in Pod : DeletePod(p)
    PROVE  DrainInOrder(pod)'
<1>1. TypeOK /\ left["evictions"] = 0 /\ DrainInOrder(pod)
  BY Zenon DEF LimitInv
<1>2. ASSUME NEW d \in Pod, pod'[d].st = "Draining"
      PROVE  /\ Stale(pod[d], SetOf(d))'
             /\ \A q \in Pod : Before(q, d) /\ Stale(pod[q], SetOf(q))' => IsTerminating(pod'[q])
  <2>1. pod'[d] = pod[d]
    BY <1>1, <1>2, PodMoves, Zenon DEF Moves
  <2>2. SetOf(d) \in Set /\ d \in PodsOf(SetOf(d))
    BY PodHasSet, Zenon
  <2>3. sts'[SetOf(d)].updateRev = sts[SetOf(d)].updateRev
    BY <1>2, <2>1, <2>2, Zenon DEF Calm
  <2>4. Stale(pod[d], SetOf(d))
    BY <1>1, <1>2, <2>1, Zenon DEF DrainInOrder
  <2>5. ASSUME NEW q \in Pod, Before(q, d), Stale(pod[q], SetOf(q))'
        PROVE  IsTerminating(pod'[q])
    <3>1. Stale(pod'[q], SetOf(q))
      BY <2>3, <2>5, Zenon DEF Stale, Before
    <3>2. Stale(pod[q], SetOf(q)) /\ (IsTerminating(pod[q]) => IsTerminating(pod'[q]))
      BY <1>1, <3>1, PodMoves, Zenon DEF Moves
    <3>3. QED
      BY <1>1, <1>2, <2>1, <2>5, <3>2, Zenon DEF DrainInOrder
  <2>6. QED
    BY <2>1, <2>3, <2>4, <2>5, Zenon DEF Stale
<1>3. QED
  BY <1>2, Zenon DEF DrainInOrder

\* Between the copy of the sets and the first deletion.
LEMMA CopyPhase ==
    ASSUME SnapshotPrompt, TypeOK, left["evictions"] = 0, [Next]_vars, rc'.pc \in {"check", "update"}
    PROVE  \/ StartReconcile /\ rc.pc = "idle" /\ rc' = [pc |-> "check", sets |-> stsCache]
           \/ /\ rc.pc \in {"check", "update"} /\ rc'.sets = rc.sets /\ podCache' = podCache
              /\ down' \subseteq down /\ ~\E p \in Pod : DeletePod(p)
<1>1. CASE StartReconcile
  <2>1. rc.pc = "idle" /\ (rc' = rc \/ rc' = [pc |-> "check", sets |-> stsCache])
    BY <1>1, Zenon DEF StartReconcile, rcVars
  <2>2. rc' # rc
    BY <2>1, Zenon
  <2>3. QED
    BY <1>1, <2>1, <2>2, Zenon
<1>2. CASE CheckGroup
  <2>1. rc.pc = "check" /\ podCache' = podCache /\ down' = down
    BY <1>2, Zenon DEF CheckGroup, caches
  <2>2. rc'.sets = rc.sets
    BY <1>2 DEF CheckGroup, EndReconcile, Idle
  <2>3. QED
    BY <2>1, <2>2, Zenon DEF DeletePod, DeleteInFlight
<1>3. CASE UpdateSet
  <2>1. rc.pc = "update" /\ podCache' = podCache /\ down' = down
    BY <1>3, Zenon DEF UpdateSet, caches
  <2>2. rc'.sets = rc.sets
    BY <1>3, UpdateSetDoes, Zenon
  <2>3. QED
    BY <2>1, <2>2, Zenon DEF DeletePod, DeleteInFlight
<1>4. CASE \E p \in Pod : MarkPodAsDeleted(p) \/ DeletePod(p)
  <2>1. rc \in Deleting
    BY <1>4, RcByPc, Zenon DEF MarkPodAsDeleted, DeletePod, DeleteInFlight, TypeOK, RcType
  <2>2. rc' = Idle \/ rc'.pc \in {"mark", "delete"}
    BY <1>4, <2>1 DEF MarkPodAsDeleted, DeletePod, NextPod, EndReconcile, Deleting
  <2>3. QED
    BY <2>2 DEF Idle
<1>5. CASE ReconcileFails
  BY <1>5, Zenon DEF ReconcileFails, EndReconcile, Idle
<1>6. CASE Informers \/ UNCHANGED vars
  <2>1. rc' = rc /\ down' = down /\ podCache' = podCache
    BY <1>6, Zenon DEF Informers, SyncPods, SyncSets, Resync, invalidatePodEvictionCache, ExpireEntry, caches, rcVars, vars
  <2>2. QED
    BY <2>1, Zenon DEF DeletePod, DeleteInFlight
<1>7. CASE \E p \in Pod : PodEvicted(p)
  BY <1>7 DEF PodEvicted, Spend
<1>8. CASE \/ GroupEdited \/ (\E z \in Set : StatusUpdated(z) \/ SetEdited(z))
           \/ \E p \in Pod : PodCreated(p) \/ PodStarts(p) \/ PodStops(p) \/ PodFails(p)
  <2>1. rc' = rc /\ down' \subseteq down /\ podCache' = podCache
    BY <1>8, Zenon DEF GroupEdited, StatusUpdated, SetEdited, PodCreated, PodStarts, PodStops, PodFails, caches, rcVars
  <2>2. QED
    BY <2>1, Zenon DEF DeletePod, DeleteInFlight
<1>9. QED
  BY <1>1, <1>2, <1>3, <1>4, <1>5, <1>6, <1>7, <1>8, Zenon DEF Next, Controller, Reconcile, Cluster

LEMMA CopyStep ==
    ASSUME InformerPrompt, StatusPrompt, SnapshotPrompt, LimitInv, Calm, [Next]_vars
    PROVE  CopyTells'
<1> SUFFICES ASSUME rc'.pc \in {"check", "update"}
             PROVE  /\ DrainInOrder(podCache)'
                    /\ \A z \in Set : /\ rc'.sets[z].updateRev = sts'[z].updateRev
                                      /\ rc'.sets[z].ready = Cardinality(CountedReady(z)')
                    /\ \A p \in Pod : SeenAs(p)'
  BY Zenon DEF CopyTells
<1>1. TypeOK /\ left["evictions"] = 0 /\ DownNotReady /\ DrainInOrder(pod) /\ CopyTells
  BY Zenon DEF LimitInv
<1>2. CASE StartReconcile /\ rc.pc = "idle" /\ rc' = [pc |-> "check", sets |-> stsCache]
  <2>1. /\ podCache = pod /\ stsCache = sts /\ UNCHANGED <<pod, sts, podCache, down>>
        /\ \A z \in Set : StatusCurrent(z)
    BY <1>2, Zenon DEF StartReconcile, caches
  <2>2. DrainInOrder(podCache)'
    BY <1>1, <2>1, Zenon DEF DrainInOrder, Stale
  <2>3. \A z \in Set : CountedReady(z)' = {p \in PodsOf(z) : pod[p].st \in {"Ready", "Draining"}}
    BY <2>1, Zenon DEF CountedReady
  <2>4. \A z \in Set : rc'.sets[z].ready = Cardinality(CountedReady(z)')
    BY <1>2, <2>1, <2>3, Zenon DEF StatusCurrent
  <2>5. \A p \in Pod : SeenAs(p)'
    BY <1>1, <2>1, Zenon DEF SeenAs, DownNotReady, Stale
  <2>6. QED
    BY <1>2, <2>1, <2>2, <2>4, <2>5, Zenon
<1>3. CASE /\ rc.pc \in {"check", "update"} /\ rc'.sets = rc.sets /\ podCache' = podCache
           /\ down' \subseteq down /\ ~\E p \in Pod : DeletePod(p)
  <2>1. \A z \in Set : sts'[z].updateRev = sts[z].updateRev
    BY <1>3, Zenon DEF Calm
  <2>2. /\ DrainInOrder(podCache)
        /\ \A z \in Set : /\ rc.sets[z].updateRev = sts[z].updateRev
                          /\ rc.sets[z].ready = Cardinality(CountedReady(z))
        /\ \A p \in Pod : SeenAs(p)
    BY <1>1, <1>3, Zenon DEF CopyTells
  <2>4. ASSUME NEW p \in Pod
        PROVE  \A obj : (obj = podCache[p] \/ obj = pod'[p]) =>
                 ((Exists(obj) /\ obj.rev # sts'[SetOf(p)].updateRev) <=> Stale(obj, SetOf(p)))
    BY <2>1, PodHasSet, Zenon DEF Stale
  <2>5. DrainInOrder(podCache)'
    BY <1>3, <2>2, <2>4, Zenon DEF DrainInOrder, Stale
  <2>6. \A z \in Set : CountedReady(z)' = CountedReady(z)
    BY <1>3, Zenon DEF CountedReady
  <2>7. ASSUME NEW p \in Pod
        PROVE  SeenAs(p)'
    <3>1. Moves(p) /\ SeenAs(p)
      BY <1>1, <1>3, <2>2, PodMoves, Zenon
    <3>2. sts'[SetOf(p)].updateRev = sts[SetOf(p)].updateRev
      BY <2>1, PodHasSet, Zenon
    <3>3. QED
      BY <1>3, <3>1, <3>2, Zenon DEF Moves, SeenAs, Stale
  <2>8. QED
    BY <1>3, <2>1, <2>2, <2>5, <2>6, <2>7, Zenon
<1>4. QED
  BY <1>1, <1>2, <1>3, CopyPhase, Zenon

\* The queue of deletions is set by UpdateSet, and dealt with by DeletePod: where
\* no budget covers the pods, every pod that it holds is let go.
LEMMA QueueMoves ==
    ASSUME ~Protected, TypeOK, QueueTells, [Next]_vars
    PROVE  \/ \E p \in Pod : DeletePod(p)
           \/ UpdateSet
           \/ Queued' = {}
           \/ Queued' = Queued
<1>1. CASE StartReconcile
  <2>1. rc' = rc \/ rc' = [pc |-> "check", sets |-> stsCache]
    BY <1>1, Zenon DEF StartReconcile, rcVars
  <2>2. QED
    BY <2>1 DEF Queued
<1>2. CASE CheckGroup
  <2>1. rc' = Idle \/ rc'.pc = "update"
    BY <1>2 DEF CheckGroup, EndReconcile
  <2>2. QED
    BY <2>1 DEF Queued, Idle
<1>3. CASE \E p \in Pod : MarkPodAsDeleted(p)
  <2>1. PICK p \in Pod : MarkPodAsDeleted(p)
    BY <1>3, Zenon
  <2>2. rc.pc = "mark" /\ p \in rc.queue /\ rc \in Deleting
    BY <2>1, RcByPc, Zenon DEF MarkPodAsDeleted, SortsFirst, TypeOK, RcType
  <2>3. Exists(pod[p])
    BY <2>2, Zenon DEF QueueTells, Queued, Stale
  <2>4. rc' = [rc EXCEPT !.pc = "delete"]
    BY <2>1, <2>3, Zenon DEF MarkPodAsDeleted
  <2>5. QED
    BY <2>2, <2>4, Zenon DEF Queued, Deleting
<1>4. CASE ReconcileFails
  BY <1>4, Zenon DEF ReconcileFails, EndReconcile, Queued, Idle
<1>5. CASE Informers \/ Cluster \/ UNCHANGED vars
  <2>1. rc' = rc
    BY <1>5, Zenon DEF Informers, SyncPods, SyncSets, Resync, invalidatePodEvictionCache, ExpireEntry, Cluster, PodCreated, PodStarts, PodStops,
                PodFails, PodEvicted, GroupEdited, StatusUpdated, SetEdited, rcVars, vars
  <2>2. QED
    BY <2>1, Zenon DEF Queued
<1>6. QED
  BY <1>1, <1>2, <1>3, <1>4, <1>5, Zenon DEF Next, Controller, Reconcile

\* Without evictions only DeletePod takes pods down.
LEMMA DownShrinks ==
    ASSUME left["evictions"] = 0, [Next]_vars, ~\E p \in Pod : DeletePod(p)
    PROVE  down' \subseteq down
<1>1. CASE \E p \in Pod : PodEvicted(p)
  BY <1>1 DEF PodEvicted, Spend
<1>2. QED
  BY <1>1, Zenon DEF Next, vars, Controller, Reconcile, StartReconcile, CheckGroup, UpdateSet, MarkPodAsDeleted, ReconcileFails,
      Informers, SyncPods, SyncSets, Resync, invalidatePodEvictionCache, ExpireEntry, Cluster, PodCreated, PodStarts, PodStops, PodFails,
      StatusUpdated, SetEdited, GroupEdited

\* A step that leaves the queue as it is.
LEMMA QueueKept ==
    ASSUME LimitInv, Calm, [Next]_vars, ~\E p \in Pod : DeletePod(p), Queued' = Queued
    PROVE  QueueTells'
<1>1. TypeOK /\ left["evictions"] = 0 /\ QueueTells /\ Queued \subseteq Pod
  BY QueueOfSet, Zenon DEF LimitInv, TypeOK, RcType, Queued
<1>2. ASSUME NEW p \in Queued
      PROVE  /\ Stale(pod[p], SetOf(p))' /\ ~IsTerminating(pod'[p])
             /\ \A q \in Queued : SetOf(q) = SetOf(p)
             /\ pod'[p].st # "Stuck" =>
                  \A q \in Pod : Before(q, p) /\ Stale(pod[q], SetOf(q))' => IsTerminating(pod'[q]) \/ q \in Queued
  <2>1. rc.pc # "idle"
    BY <1>2, Zenon DEF Queued
  <2>2. \A z \in Set : sts'[z].updateRev = sts[z].updateRev
    BY <2>1, Zenon DEF Calm
  <2>3. \A q \in Pod : Moves(q) /\ (Stale(pod[q], SetOf(q))' <=> Stale(pod'[q], SetOf(q)))
    BY <1>1, <2>2, PodMoves, PodHasSet, Zenon DEF Stale
  <2>4. /\ Stale(pod[p], SetOf(p)) /\ ~IsTerminating(pod[p])
        /\ \A q \in Queued : SetOf(q) = SetOf(p)
        /\ pod[p].st # "Stuck" =>
             \A q \in Pod : Before(q, p) /\ Stale(pod[q], SetOf(q)) => IsTerminating(pod[q]) \/ q \in Queued
    BY <1>1, <1>2, Zenon DEF QueueTells
  <2>5. Stale(pod'[p], SetOf(p)) /\ ~IsTerminating(pod'[p])
    BY <1>1, <2>3, <2>4, Zenon DEF Moves, Stale
  <2>6. ASSUME pod'[p].st # "Stuck", NEW q \in Pod, Before(q, p), Stale(pod'[q], SetOf(q)), q \notin Queued
        PROVE  IsTerminating(pod'[q])
    <3>1. pod[p].st # "Stuck"
      BY <1>1, <2>3, <2>6, Zenon DEF Moves
    <3>2. Stale(pod[q], SetOf(q)) /\ (IsTerminating(pod[q]) => IsTerminating(pod'[q]))
      BY <2>3, <2>6, Zenon DEF Moves
    <3>3. QED
      BY <2>4, <2>6, <3>1, <3>2, Zenon
  <2>7. QED
    BY <1>1, <2>3, <2>4, <2>5, <2>6, Zenon
<1>3. QED
  BY <1>2, Zenon DEF QueueTells

\* A pod of the queue is deleted.
LEMMA QueueAfterDelete ==
    ASSUME LimitInv, NEW p \in Pod, DeletePod(p)
    PROVE  QueueTells'
<1>1. TypeOK /\ QueueTells
  BY Zenon DEF LimitInv
<1>2. /\ p \in rc.queue /\ Queued = rc.queue /\ Queued' = rc.queue \ {p}
      /\ pod' = [pod EXCEPT ![p] = Deleted(@)] /\ sts' = sts
      /\ pod'[p].st \in {"Draining", "Stopping", "Absent"}
  BY <1>1, DeleteDoes, Zenon
<1>3. \A q \in Pod \ {p} : pod'[q] = pod[q]
  BY <1>1, <1>2, Zenon DEF TypeOK
<1>4. Stale(pod'[p], SetOf(p)) => IsTerminating(pod'[p])
  BY <1>2, Zenon DEF Stale, Exists, IsTerminating
<1>5. rc.queue \subseteq Pod
  BY <1>1, QueueOfSet, Zenon DEF TypeOK, RcType, DeletePod, DeleteInFlight
<1>6. ASSUME NEW r \in rc.queue \ {p}
      PROVE  /\ Stale(pod'[r], SetOf(r)) /\ ~IsTerminating(pod'[r])
             /\ \A q \in rc.queue \ {p} : SetOf(q) = SetOf(r)
             /\ pod'[r].st # "Stuck" => \A q \in Pod : Before(q, r) /\ Stale(pod'[q], SetOf(q)) =>
                                            IsTerminating(pod'[q]) \/ q \in rc.queue \ {p}
  BY <1>1, <1>2, <1>3, <1>4, <1>5, Zenon DEF QueueTells
<1>7. QED
  BY <1>2, <1>6, Zenon DEF QueueTells, Stale

\* A step that neither deletes nor chooses pods leaves room.
LEMMA SpentShrinks ==
    ASSUME LimitInv, NEW z \in Set, Spent(z)' \subseteq Spent(z)
    PROVE  Cardinality(Spent(z)') <= MaxUnavailable[z]
<1>1. Spent(z) \in SUBSET PodsOf(z)
  BY Zenon DEF Spent
<1>2. IsFiniteSet(Spent(z)) /\ Cardinality(Spent(z)) \in Nat
  BY <1>1, SomePods, Zenon
<1>3. Cardinality(Spent(z)') <= Cardinality(Spent(z)) /\ Cardinality(Spent(z)') \in Nat
  BY <1>2, FS_Subset, FS_CardinalityType, Zenon
<1>4. Cardinality(Spent(z)) <= MaxUnavailable[z] /\ MaxUnavailable[z] \in Nat
  BY LimitAssumption, Zenon DEF LimitInv
<1>5. QED
  BY <1>2, <1>3, <1>4

LEMMA SpentOtherwise ==
    ASSUME LimitInv, [Next]_vars, ~\E p \in Pod : DeletePod(p), Queued' = {} \/ Queued' = Queued, NEW z \in Set
    PROVE  Spent(z)' \subseteq Spent(z)
<1>1. TypeOK /\ left["evictions"] = 0
  BY Zenon DEF LimitInv
<1>2. down' \subseteq down /\ Queued' \subseteq Queued
  BY <1>1, DownShrinks, Zenon
<1>3. \A p \in PodsOf(z) : pod[p].st = "Stuck" => pod'[p].st = "Stuck"
  BY <1>1, PodMoves, Zenon DEF Moves, PodsOf
<1>4. QED
  BY <1>2, <1>3, Zenon DEF Spent

LEMMA SpentAfterDelete ==
    ASSUME LimitInv, NEW p \in Pod, DeletePod(p), NEW z \in Set
    PROVE  Spent(z)' \subseteq Spent(z)
<1>1. TypeOK /\ QueueTells
  BY Zenon DEF LimitInv
<1>2. /\ p \in rc.queue /\ Queued = rc.queue /\ Queued' = rc.queue \ {p}
      /\ pod' = [pod EXCEPT ![p] = Deleted(@)]
      /\ down' \subseteq down \cup {p} /\ (pod[p].st # "Ready" => down' = down)
  BY <1>1, DeleteDoes, Zenon
<1>3. \A q \in Pod \ {p} : pod'[q] = pod[q]
  BY <1>1, <1>2, Zenon DEF TypeOK
<1>4. PodsOf(z) \subseteq Pod
  BY Zenon DEF PodsOf
<1>5. QED
  BY <1>2, <1>3, <1>4, Zenon DEF Spent

-----------------------------------------------------------------------------
(* The choice of updateStatefulSetPods.                                    *)

LEMMA UpdateChooses ==
    ASSUME TypeOK, UpdateSet
    PROVE  /\ rc.pc = "update" /\ UNCHANGED <<pod, podCache, down, left>>
           /\ Queued' = {} \/ \E z \in Set : Queued' = podsToDelete(rc.sets[z], z)
<1> DEFINE z == MoveStatefulSetToFront(rc.todo, rc.front)
           nextSet == [rc EXCEPT !.todo = @ \ {z}]
           queue == podsToDelete(rc.sets[z], z)
<1>1. rc.pc = "update" /\ UNCHANGED <<pod, podCache, down, left>> /\ rc \in Updating
  BY RcByPc, Zenon DEF UpdateSet, TypeOK, RcType, caches
<1>2. nextSet.pc = "update"
  BY <1>1, Zenon DEF Updating
<1>3. rc.todo # {} => z \in Set
  <2>1. rc.todo \in SUBSET Set
    BY <1>1, Zenon DEF Updating
  <2>2. rc.todo # {} => z \in rc.todo
    BY <2>1, NextOfTodo, Zenon
  <2>3. QED
    BY <2>1, <2>2, Zenon
<1>4. \/ rc' = Idle
      \/ rc' = nextSet
      \/ rc.todo # {} /\ rc' = [pc |-> "mark", queue |-> queue]
  BY Zenon DEF UpdateSet, EndReconcile, NextSet, PromoteRevision
<1> HIDE DEF z, nextSet, queue
<1>5. CASE rc' = Idle \/ rc' = nextSet
  BY <1>1, <1>2, <1>5 DEF Queued, Idle
<1>6. CASE rc.todo # {} /\ rc' = [pc |-> "mark", queue |-> queue]
  <2>1. Queued' = queue /\ z \in Set
    BY <1>3, <1>6, Zenon DEF Queued
  <2>2. QED
    BY <1>1, <2>1, Zenon DEF queue
<1>7. QED
  BY <1>4, <1>5, <1>6, Zenon

\* numPods is what the limit leaves beside the replicas that the status does not
\* count as ready.
LEMMA NumPodsBound ==
    ASSUME NEW s \in StsObject, NEW z \in Set, NEW outdated \in SUBSET PodsOf(z)
    PROVE  /\ numPods(s, z, outdated) \in Nat
           /\ \/ numPods(s, z, outdated) = 0
              \/ numPods(s, z, outdated) <= MaxUnavailable[z] - (Replicas[z] - s.ready)
<1>1. Cardinality(outdated) \in Nat
  BY SomePods, Zenon
<1>2. Replicas[z] \in Nat /\ MaxUnavailable[z] \in Nat /\ s.ready \in Nat /\ s.replicas \in Nat
  BY SizeAssumption, LimitAssumption, Zenon DEF StsObject
<1>3. expectedReplicas(s, z) \in Nat /\ expectedReplicas(s, z) >= Replicas[z]
  BY <1>2 DEF expectedReplicas
<1>4. QED
  BY <1>1, <1>2, <1>3 DEF numPods

\* The batch of a set, before terminating pods are left out of it.
FirstPods(z) ==
    LET outdated == podsNotMatchingUpdateRevision(rc.sets[z], z)
    IN  {p \in outdated : Cardinality({q \in outdated : q[2] < p[2]}) < numPods(rc.sets[z], z, outdated)}

LEMMA FirstPodsTell ==
    ASSUME LimitInv, rc.pc = "update", NEW z \in Set
    PROVE  LET outdated == {p \in PodsOf(z) : Stale(podCache[p], z)}
               notCounted == PodsOf(z) \ CountedReady(z)
           IN  /\ FirstPods(z) \subseteq outdated
               /\ \A p \in FirstPods(z), q \in outdated : q \notin FirstPods(z) => p[2] < q[2]
               /\ Cardinality(FirstPods(z)) \in Nat
               /\ FirstPods(z) # {} => Cardinality(FirstPods(z)) + Cardinality(notCounted) <= MaxUnavailable[z]
               /\ podsToDelete(rc.sets[z], z) =
                    {p \in outdated : /\ ~IsTerminating(podCache[p])
                                      /\ p \in FirstPods(z) \/ podCache[p].st = "Stuck"}
<1> DEFINE outdated == {p \in PodsOf(z) : Stale(podCache[p], z)}
           notCounted == PodsOf(z) \ CountedReady(z)
           s == rc.sets[z]
           n == numPods(s, z, outdated)
           first == {p \in outdated : Cardinality({q \in outdated : q[2] < p[2]}) < n}
<1>1. /\ s \in StsObject /\ s.updateRev = sts[z].updateRev /\ s.ready = Cardinality(CountedReady(z))
  BY RcByPc, Zenon DEF LimitInv, TypeOK, RcType, Updating, CopyTells
<1>2. podsNotMatchingUpdateRevision(s, z) = outdated
  BY <1>1, Zenon DEF podsNotMatchingUpdateRevision, listPodsByStatefulSet, Stale
<1>3. FirstPods(z) = first
  BY <1>2, Zenon DEF FirstPods
<1>4. podsToDelete(s, z) = {p \in outdated : /\ ~IsTerminating(podCache[p])
                                             /\ p \in first \/ podCache[p].st = "Stuck"}
  BY <1>2, Zenon DEF podsToDelete, isPodStuck
<1>5. outdated \in SUBSET PodsOf(z) /\ first \in SUBSET PodsOf(z)
  BY Zenon
<1>6. n \in Nat /\ (n = 0 \/ n <= MaxUnavailable[z] - (Replicas[z] - s.ready))
  <2> HIDE DEF outdated, s
  <2>1. QED
    BY <1>1, <1>5, NumPodsBound, Zenon
<1>7. Cardinality(first) <= n /\ \A p \in first, q \in outdated : q \notin first => p[2] < q[2]
  <2> HIDE DEF outdated, n
  <2>1. QED
    BY <1>5, <1>6, FirstOnes, Zenon
<1>8. Cardinality(first) \in Nat /\ IsFiniteSet(first)
  <2> HIDE DEF first
  <2>1. QED
    BY <1>5, SomePods, Zenon
<1>9. /\ Cardinality(notCounted) = Replicas[z] - Cardinality(CountedReady(z))
      /\ Cardinality(notCounted) \in Nat /\ Cardinality(CountedReady(z)) \in Nat
  <2>1. CountedReady(z) \in SUBSET PodsOf(z)
    BY Zenon DEF CountedReady
  <2>2. PodsOf(z) \cap CountedReady(z) = CountedReady(z) /\ notCounted \in SUBSET PodsOf(z)
    BY <2>1, Zenon
  <2>3. Cardinality(notCounted) = Cardinality(PodsOf(z)) - Cardinality(PodsOf(z) \cap CountedReady(z))
    BY PodsFinite, FS_Difference, Zenon
  <2> HIDE DEF notCounted
  <2>4. Cardinality(notCounted) \in Nat /\ Cardinality(CountedReady(z)) \in Nat
    BY <2>1, <2>2, SomePods, Zenon
  <2>5. QED
    BY <2>2, <2>3, <2>4, PodsFinite, Zenon
<1>10. first # {} => Cardinality(first) + Cardinality(notCounted) <= MaxUnavailable[z]
  <2>1. first # {} => Cardinality(first) # 0
    <3> HIDE DEF first
    <3>1. QED
      BY <1>8, FS_EmptySet, Zenon
  <2>2. MaxUnavailable[z] \in Nat /\ Replicas[z] \in Nat
    BY LimitAssumption, SizeAssumption, Zenon
  <2> HIDE DEF first, notCounted, n, s
  <2>3. QED
    BY <1>1, <1>6, <1>7, <1>8, <1>9, <2>1, <2>2
<1>11. first \subseteq outdated
  BY Zenon
<1> HIDE DEF first, n
<1>12. QED
  BY <1>3, <1>4, <1>7, <1>8, <1>10, <1>11, Zenon

LEMMA ChosenTells ==
    ASSUME LimitInv, Calm, UpdateSet, [Next]_vars
    PROVE  QueueTells' /\ \A z \in Set : Cardinality(Spent(z)') <= MaxUnavailable[z]
<1>0. TypeOK /\ ~\E p \in Pod : DeletePod(p)
  BY Zenon DEF LimitInv, UpdateSet, DeletePod, DeleteInFlight
<1>1. /\ rc.pc = "update" /\ UNCHANGED <<pod, podCache, down, left>>
      /\ Queued' = {} \/ \E z \in Set : Queued' = podsToDelete(rc.sets[z], z)
  BY <1>0, UpdateChooses, Zenon
<1>2. CASE Queued' = {}
  <2>1. \A z \in Set : Spent(z)' \subseteq Spent(z)
    BY <1>0, <1>2, SpentOtherwise, Zenon
  <2>2. QED
    BY <1>2, <2>1, SpentShrinks, Zenon DEF QueueTells
<1>3. ASSUME NEW z \in Set, Queued' = podsToDelete(rc.sets[z], z)
      PROVE  QueueTells' /\ \A y \in Set : Cardinality(Spent(y)') <= MaxUnavailable[y]
  <2> DEFINE outdated == {p \in PodsOf(z) : Stale(podCache[p], z)}
             notCounted == PodsOf(z) \ CountedReady(z)
             B == FirstPods(z)
             Q == Queued'
  <2>1. /\ B \subseteq outdated
        /\ \A p \in B, q \in outdated : q \notin B => p[2] < q[2]
        /\ Cardinality(B) \in Nat
        /\ B # {} => Cardinality(B) + Cardinality(notCounted) <= MaxUnavailable[z]
        /\ Q = {p \in outdated : ~IsTerminating(podCache[p]) /\ (p \in B \/ podCache[p].st = "Stuck")}
    BY <1>1, <1>3, FirstPodsTell, Zenon
  <2>2. \A p \in Pod : SeenAs(p)
    BY <1>1, Zenon DEF LimitInv, CopyTells
  <2>3. \A y \in Set : sts'[y].updateRev = sts[y].updateRev
    BY <1>1, Zenon DEF Calm
  <2>4. outdated \subseteq Pod /\ \A p \in outdated : SetOf(p) = z
    BY Zenon DEF PodsOf
  <2>5. \A p \in Pod : p[2] \in Int
    BY SizeAssumption DEF Pod
  <2> HIDE DEF B
  <2>6. ASSUME NEW p \in Q, pod[p].st # "Stuck"
        PROVE  p \in B
    BY <2>1, <2>2, <2>4, <2>6, Zenon DEF SeenAs
  <2>7. ASSUME NEW p \in Q
        PROVE  /\ Stale(pod[p], z) /\ ~IsTerminating(pod[p]) /\ SetOf(p) = z
               /\ pod[p].st # "Stuck" =>
                    \A q \in Pod : Before(q, p) /\ Stale(pod[q], SetOf(q)) => IsTerminating(pod[q]) \/ q \in Q
    <3>1. p \in outdated /\ ~IsTerminating(podCache[p]) /\ SetOf(p) = z
      BY <2>1, <2>4, Zenon
    <3>2. Stale(pod[p], z) /\ ~IsTerminating(pod[p])
      BY <2>2, <2>4, <3>1, Zenon DEF SeenAs, Stale
    <3>3. ASSUME pod[p].st # "Stuck", NEW q \in Pod, Before(q, p), Stale(pod[q], SetOf(q)), ~IsTerminating(pod[q])
          PROVE  q \in Q
      <4>1. q \in outdated /\ ~IsTerminating(podCache[q])
        BY <2>2, <3>1, <3>3, Zenon DEF SeenAs, Before, PodsOf
      <4>2. p \in B
        BY <2>6, <3>3, Zenon
      <4>3. ~(p[2] < q[2])
        BY <2>4, <2>5, <3>1, <3>3 DEF Before
      <4>4. q \in B
        BY <2>1, <4>1, <4>2, <4>3, Zenon
      <4>5. QED
        BY <2>1, <4>1, <4>4, Zenon
    <3>4. QED
      BY <3>1, <3>2, <3>3, Zenon
  <2>8. QueueTells'
    BY <1>1, <2>3, <2>4, <2>7, PodHasSet, Zenon DEF QueueTells, Stale
  <2>9. ASSUME NEW y \in Set \ {z}
        PROVE  Cardinality(Spent(y)') <= MaxUnavailable[y]
    <3>1. Spent(y)' \subseteq Spent(y)
      BY <1>1, <2>7, Zenon DEF Spent, PodsOf
    <3>2. QED
      BY <3>1, SpentShrinks, Zenon
  <2>10. Cardinality(Spent(z)') <= MaxUnavailable[z]
    <3> DEFINE chosen == {p \in Q : pod[p].st # "Stuck"}
    <3>1. Spent(z)' \subseteq Spent(z) \cup chosen
      BY <1>1, Zenon DEF Spent
    <3>2. CASE chosen = {}
      BY <3>1, <3>2, SpentShrinks, Zenon
    <3>3. CASE chosen # {}
      <4>1. PICK p \in Q : pod[p].st # "Stuck"
        BY <3>3, Zenon
      <4>2. p \in B /\ p \in outdated /\ ~IsTerminating(podCache[p]) /\ SetOf(p) = z
        BY <2>1, <2>4, <2>6, <4>1, Zenon
      <4>3. ASSUME NEW d \in PodsOf(z), podCache[d].st = "Draining"
            PROVE  d \in B
        <5>1. d \in Pod /\ SetOf(d) = z /\ p \in Pod /\ Stale(podCache[p], SetOf(p))
          BY <2>4, <4>2, Zenon DEF PodsOf
        <5>2. DrainInOrder(podCache)
          BY <1>1, Zenon DEF LimitInv, CopyTells
        <5>3. d \in outdated /\ ~Before(p, d)
          BY <4>2, <4>3, <5>1, <5>2, Zenon DEF DrainInOrder
        <5>4. QED
          BY <2>1, <4>2, <5>1, <5>3, Zenon DEF Before
      <4>4. Spent(z)' \subseteq B \cup notCounted
        <5>1. \A d \in down : d \in PodsOf(z) => d \in B \cup notCounted
          BY <2>2, <4>3, Zenon DEF SeenAs, CountedReady, PodsOf
        <5>2. chosen \subseteq B
          BY <2>6, Zenon
        <5>3. QED
          BY <1>1, <5>1, <5>2, Zenon DEF Spent
      <4>5. IsFiniteSet(B) /\ IsFiniteSet(notCounted) /\ Cardinality(notCounted) \in Nat
        <5>1. B \in SUBSET PodsOf(z) /\ notCounted \in SUBSET PodsOf(z)
          BY <2>1, Zenon
        <5> HIDE DEF notCounted
        <5>2. QED
          BY <5>1, SomePods, Zenon
      <4>6. B # {}
        BY <4>2, Zenon
      <4> HIDE DEF notCounted
      <4>7. IsFiniteSet(B \cup notCounted) /\ IsFiniteSet(B \cap notCounted)
            /\ Cardinality(B \cup notCounted) = Cardinality(B) + Cardinality(notCounted) - Cardinality(B \cap notCounted)
        BY <4>5, FS_Union, FS_Intersection, Zenon
      <4>8. Cardinality(B \cup notCounted) \in Nat /\ Cardinality(B \cap notCounted) \in Nat
        BY <4>7, FS_CardinalityType, Zenon
      <4>9. Cardinality(Spent(z)') <= Cardinality(B \cup notCounted) /\ Cardinality(Spent(z)') \in Nat
        BY <4>4, <4>7, FS_Subset, FS_CardinalityType, Zenon
      <4>10. MaxUnavailable[z] \in Nat
        BY LimitAssumption, Zenon
      <4>11. QED
        BY <2>1, <4>5, <4>6, <4>7, <4>8, <4>9, <4>10
    <3>4. QED
      BY <3>2, <3>3, Zenon
  <2>11. QED
    BY <2>8, <2>9, <2>10, Zenon
<1>4. QED
  BY <1>1, <1>2, <1>3, Zenon

LEMMA LimitStep ==
    ASSUME ~Protected, InformerPrompt, StatusPrompt, SnapshotPrompt, LimitInv, Calm, [Next]_vars
    PROVE  LimitInv'
<1>1. TypeOK /\ DownNotReady /\ QueueTells /\ left["evictions"] = 0
  BY Zenon DEF LimitInv
<1>2. TypeOK' /\ DownNotReady'
  BY <1>1, TypeStep, DownNotReadyStep, Zenon
<1>3. left'["evictions"] = 0
  <2>1. UNCHANGED left \/ Spend("edits") \/ Spend("faults") \/ Spend("evictions")
    BY Zenon DEF Next, vars, Controller, Reconcile, StartReconcile, CheckGroup, UpdateSet, MarkPodAsDeleted,
         DeletePod, ReconcileFails, Informers, SyncPods, SyncSets, Resync, invalidatePodEvictionCache, ExpireEntry, Cluster, PodCreated, PodStarts,
         PodStops, PodFails, PodEvicted, StatusUpdated, SetEdited, GroupEdited
  <2>2. left \in [{"edits", "faults", "evictions"} -> Nat]
    BY <1>1, Zenon DEF TypeOK
  <2>3. QED
    BY <1>1, <2>1, <2>2 DEF Spend
<1>4. CopyTells'
  BY CopyStep, Zenon
<1>5. DrainInOrder(pod)'
  BY DrainsAfterDelete, DrainsOtherwise, Zenon
<1>6. QueueTells' /\ \A z \in Set : Cardinality(Spent(z)') <= MaxUnavailable[z]
  <2>1. CASE \E p \in Pod : DeletePod(p)
    BY <2>1, QueueAfterDelete, SpentAfterDelete, SpentShrinks, Zenon
  <2>2. CASE UpdateSet
    BY <2>2, ChosenTells, Zenon
  <2>3. CASE /\ ~\E p \in Pod : DeletePod(p)
             /\ Queued' = {} \/ Queued' = Queued
    <3>1. \A z \in Set : Cardinality(Spent(z)') <= MaxUnavailable[z]
      BY <2>3, SpentOtherwise, SpentShrinks, Zenon
    <3>2. Queued' = {} => QueueTells'
      BY Zenon DEF QueueTells
    <3>3. QED
      BY <2>3, <3>1, <3>2, QueueKept, Zenon
  <2>4. QED
    BY <1>1, <2>1, <2>2, <2>3, QueueMoves, Zenon
<1>7. QED
  BY <1>2, <1>3, <1>4, <1>5, <1>6, Zenon DEF LimitInv

\* As long as a template is only changed between reconciles and while no pod of the
\* set drains, updateStatefulSetPods takes no more pods of a set down at once than
\* its limit, for any number of sets and pods, pods that fail, get stuck or are
\* slow to stop, and failing calls: provided that the caches and the status are
\* current when a reconcile starts, the pods are listed before the cache moves on,
\* and nobody else deletes pods.
THEOREM LimitKept ==
    ASSUME ~Protected, InformerPrompt, StatusPrompt, SnapshotPrompt, MaxEvictions = 0
    PROVE  Spec /\ [][Calm]_vars => []WithinMaxUnavailable
<1>1. Init => LimitInv
  <2> SUFFICES ASSUME Init PROVE LimitInv
    BY Zenon
  <2>1. TypeOK /\ rc = Idle /\ down = {} /\ left["evictions"] = 0
    <3>1. rc = Idle /\ down = {} /\ left = [edits |-> MaxEdits, faults |-> MaxFaults, evictions |-> MaxEvictions]
      BY Zenon DEF Init
    <3>2. QED
      BY <3>1, InitType, Zenon
  <2>2. Queued = {} /\ rc.pc = "idle"
    BY <2>1, Zenon DEF Queued, Idle
  <2>3. \A p \in Pod : pod[p].st # "Draining"
    BY DEF Init
  <2>4. \A z \in Set : Spent(z) = {}
    BY <2>1, <2>2, Zenon DEF Spent
  <2>5. \A z \in Set : Cardinality(Spent(z)) <= MaxUnavailable[z]
    BY <2>4, FS_EmptySet, LimitAssumption
  <2>6. QED
    BY <2>1, <2>2, <2>3, <2>5, Zenon DEF LimitInv, DownNotReady, DrainInOrder, CopyTells, QueueTells
<1>2. LimitInv /\ [Next]_vars /\ [Calm]_vars => LimitInv'
  <2>1. UNCHANGED vars => Calm
    BY Zenon DEF vars, Calm
  <2>2. QED
    BY <2>1, LimitStep, Zenon
<1>3. LimitInv => WithinMaxUnavailable
  <2> SUFFICES ASSUME LimitInv, NEW z \in Set
               PROVE  Cardinality({p \in down : SetOf(p) = z}) <= MaxUnavailable[z]
    BY Zenon DEF WithinMaxUnavailable
  <2> DEFINE T == {p \in down : SetOf(p) = z}
  <2>1. T \subseteq Spent(z) /\ Spent(z) \in SUBSET PodsOf(z)
    BY Zenon DEF LimitInv, TypeOK, Spent, PodsOf
  <2>2. Cardinality(Spent(z)) <= MaxUnavailable[z] /\ MaxUnavailable[z] \in Nat
    BY LimitAssumption, Zenon DEF LimitInv
  <2> HIDE DEF T
  <2>3. IsFiniteSet(Spent(z)) /\ Cardinality(Spent(z)) \in Nat
    BY <2>1, SomePods, Zenon
  <2>4. Cardinality(T) <= Cardinality(Spent(z)) /\ Cardinality(T) \in Nat
    BY <2>1, <2>3, FS_Subset, FS_CardinalityType, Zenon
  <2>5. Cardinality(T) <= MaxUnavailable[z]
    BY <2>2, <2>3, <2>4
  <2>6. QED
    BY <2>5, Zenon DEF T
<1>4. QED
  BY <1>1, <1>2, <1>3, PTL DEF Spec
=============================================================================
