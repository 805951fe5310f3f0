-------------------------- MODULE ZpdbBudgetProofs --------------------------
(***************************************************************************)
(* What a handler has counted when it decides, and from it the guarantees  *)
(* of the eviction webhook under the three timing assumptions: the budget  *)
(* itself, the promise of ZpdbPromise, and the release of the mutexes.     *)
(***************************************************************************)
EXTENDS ZpdbProofs

\* The list and the cache together account for every pod that must count.
LEMMA ListedAllStep ==
    ASSUME TypeOK, ScanPrompt, LockHeld, EvictionVisible, ListedAll, [Next]_vars
    PROVE  ListedAll'
<1> SUFFICES ASSUME NEW r \in Req, req'[r].pc = "tally"
             PROVE  /\ IsFiniteSet(req'[r].unready)
                    /\ \A p \in MustCount(req[r], req[r].zone)' :
                          p \in req'[r].unready \/ (p \in req'[r].ready /\ pending'[p])
                    /\ Unstaffed(req[r], req[r].zone)' => \E b \in req'[r].unready : ZoneOf(b) = req'[r].zone
  BY DEF ListedAll, ZoneOf
<1>0. Evaluating(r)'
  BY SMTT(40) DEF Evaluating
<1>1. CASE AcquireLock(r)
  BY <1>1, SMTT(40) DEF AcquireLock, Idle, TypeOK
<1>2. CASE Tally(r)
  BY <1>2, SMTT(40) DEF Tally, Finish, Idle, TypeOK
<1>3. ASSUME NEW z \in Zone, ListPods(r, z)
      PROVE  /\ IsFiniteSet(req'[r].unready)
             /\ \A p \in MustCount(req[r], req[r].zone)' :
                   p \in req'[r].unready \/ (p \in req'[r].ready /\ pending'[p])
             /\ Unstaffed(req[r], req[r].zone)' => \E b \in req'[r].unready : ZoneOf(b) = req'[r].zone
  <2> DEFINE q == req[r]
             missing == {p \in PodsOf(z) : state[p] = "Absent"}
             tested == {p \in PodsOf(z) \ missing : considerPod(q.cfg, q.pod, p)}
             others == {p \in tested : ~(p = q.pod /\ q.same)}
             ready == {p \in others : ListedReady(q.cfg, p)}
             unknown == unknownPods(q, z, tested, missing)
  <2>1. q \in Scanning /\ Evaluating(r)
    BY <1>3, ReqByPc, SMTT(40) DEF ListPods, Evaluating
  <2>2. /\ req'[r].pod = q.pod /\ req'[r].cfg = q.cfg /\ req'[r].zone = z /\ req'[r].ready = ready
        /\ req'[r].unready = unknown \cup (others \ ready) /\ pending' = pending
    BY <1>3 DEF ListPods, TypeOK
  <2>3. MustCount(req[r], req[r].zone)' \subseteq MustCount(q, z)
    <3>1. MustCount(req[r], z)' \subseteq MustCount(q, z)
      BY <1>0, <2>1, <2>2, MustCountStep, SMTT(40)
    <3>2. MustCount(req[r], req[r].zone)' = MustCount(req[r], z)'
      BY <2>2 DEF MustCount
    <3>3. QED
      BY <3>1, <3>2, SMTT(40)
  <2>4. IsFiniteSet(req'[r].unready)
    <3>1. others \ ready \subseteq Pod /\ unknown \subseteq Pod \cup {<<z, PartitionOf(q.pod)>>}
      BY DEF PodsOf, unknownPods
    <3>2. IsFiniteSet(Pod \cup {<<z, PartitionOf(q.pod)>>})
      BY PodAssumption, FS_AddElement, Zenon
    <3>3. QED
      BY <2>2, <3>1, <3>2, FS_Subset, ZenonT(60)
  <2>5. ASSUME NEW p \in MustCount(q, z)
        PROVE  p \in unknown \/ p \in others \ ready \/ (p \in ready /\ pending[p])
    <3>1. p \in Disrupted(q.cfg) /\ p \in PodsOf(z) /\ p # q.pod /\ considerPod(q.cfg, q.pod, p)
      BY <2>5 DEF MustCount, Disrupted, PodsOf
    <3>2. CASE state[p] = "Absent"
      BY <3>1, <3>2, SMTT(40) DEF unknownPods
    <3>3. CASE state[p] # "Absent"
      <4>1. p \in others
        BY <3>1, <3>3, SMTT(40)
      <4>2. CASE p \in ready
        <5>1. ListedReady(q.cfg, p) /\ q.cfg \in Config
          BY <2>1, <4>2, SMTT(40) DEF Scanning
        <5>2. QED
          BY <3>1, <4>2, <5>1, SMTT(40) DEF EvictionVisible
      <4>3. QED
        BY <4>1, <4>2, SMTT(40)
    <3>4. QED
      BY <3>2, <3>3
  <2>6. ASSUME Unstaffed(q, z) PROVE \E b \in unknown : ZoneOf(b) = z
    <3>1. tested = {}
      <4> SUFFICES ASSUME NEW p \in tested PROVE FALSE
        OBVIOUS
      <4>1. p \in Zone \X Partition /\ p \in Pod /\ p[1] = z /\ p[2] = PartitionOf(q.pod)
        BY <2>6, PodAssumption DEF PodsOf, ZoneOf, considerPod, PartitionOf, Unstaffed
      <4>2. p = <<z, PartitionOf(q.pod)>>
        BY <4>1
      <4>3. QED
        BY <2>6, <4>1, <4>2, SMTT(40) DEF Unstaffed
    <3>2. CASE missing = {}
      <4>1. unknown = {<<z, PartitionOf(q.pod)>>}
        BY <2>6, <3>1, <3>2, SMTT(40) DEF unknownPods, Unstaffed
      <4>2. <<z, PartitionOf(q.pod)>> \in unknown
        BY <4>1
      <4>3. ZoneOf(<<z, PartitionOf(q.pod)>>) = z
        BY DEF ZoneOf
      <4>4. QED
        BY <4>2, <4>3, ZenonT(60)
    <3>3. CASE missing # {}
      <4>1. unknown = missing
        BY <3>3, SMTT(40) DEF unknownPods
      <4>2. QED
        BY <3>3, <4>1, SMTT(40) DEF PodsOf
    <3>4. QED
      BY <3>2, <3>3, SMTT(40)
  <2>7. Unstaffed(req[r], req[r].zone)' => Unstaffed(q, z)
    BY <2>2, SMTT(40) DEF Unstaffed, PartitionOf
  <2>8. QED
    BY <2>2, <2>3, <2>4, <2>5, <2>6, <2>7, SMTT(40)
<1>4. CASE SameEval(r)
  <2>1. /\ Evaluating(r) /\ req[r].pc = "tally"
        /\ req'[r].pod = req[r].pod /\ req'[r].cfg = req[r].cfg /\ req'[r].zone = req[r].zone
        /\ req'[r].unready = req[r].unready /\ req'[r].ready = req[r].ready
    BY <1>4, SameFields DEF SameEval
  <2>2. PICK z : req[r].zone = z
    OBVIOUS
  <2>3. /\ MustCount(req[r], req[r].zone)' = MustCount(req[r], z)'
        /\ Unstaffed(req[r], req[r].zone)' <=> Unstaffed(req[r], z)'
    BY <2>1, <2>2, SMTT(40) DEF MustCount, Unstaffed
  <2>4. /\ MustCount(req[r], z)' \subseteq MustCount(req[r], z)
        /\ Unstaffed(req[r], z)' <=> Unstaffed(req[r], z)
    BY <1>0, <2>1, MustCountStep
  <2>5. ASSUME NEW p \in req[r].ready, pending[p] PROVE pending'[p]
    <3>1. p \in Pod /\ HeldAsReady(p)
      BY <2>1, ReqByPc, SMTT(40) DEF Tallying, HeldAsReady
    <3>2. ~DeliverEvent(p) /\ ~Relist(p) /\ ~ExpireEntry(p)
      BY <3>1, SMTT(40) DEF DeliverEvent, Relist, ExpireEntry
    <3>3. ~Restart
      BY <2>1, SMTT(40) DEF Restart, Idle
    <3>4. QED
      BY <2>5, <3>1, <3>2, <3>3, PendingStep, SMTT(40)
  <2>6. /\ IsFiniteSet(req[r].unready)
        /\ \A p \in MustCount(req[r], z) : p \in req[r].unready \/ (p \in req[r].ready /\ pending[p])
        /\ Unstaffed(req[r], z) => \E b \in req[r].unready : ZoneOf(b) = z
    BY <2>1, <2>2, SMTT(40) DEF ListedAll
  <2>7. QED
    BY <2>1, <2>2, <2>3, <2>4, <2>5, <2>6, SMTT(40)
<1>5. QED
  BY <1>0, <1>1, <1>2, <1>3, <1>4, EvalStep, SMTT(40)

\* What CountedAll says of one handler and one zone.
Counted(q, z) ==
    /\ MustCount(q, z) \subseteq q.bad
    /\ ~Pdb[q.cfg].partitioned /\ z # ZoneOf(q.pod) => MustCount(q, z) = {}
    /\ Unstaffed(q, z) => \E b \in q.bad : ZoneOf(b) = z

\* A tally adds exactly what the list and the cache account for.
LEMMA CountedAllStep ==
    ASSUME TypeOK, LockHeld, ListedAll, CountedAll, [Next]_vars
    PROVE  CountedAll'
<1> SUFFICES ASSUME NEW r \in Req, Evaluating(r)'
             PROVE  IsFiniteSet(req'[r].bad) /\ \A z \in req'[r].scanned : Counted(req[r], z)'
  BY SMTT(40) DEF CountedAll, Counted
<1>1. CASE AcquireLock(r)
  <2>1. req'[r].bad = {} /\ req'[r].scanned = {}
    BY <1>1, SMTT(40) DEF AcquireLock, Evaluating, Idle, TypeOK
  <2>2. QED
    BY <2>1, FS_EmptySet, SMTT(40)
<1>2. ASSUME /\ Evaluating(r)
             /\ req'[r].pod = req[r].pod /\ req'[r].cfg = req[r].cfg
             /\ req[r].bad \subseteq req'[r].bad,
             NEW z \in req[r].scanned
      PROVE  Counted(req[r], z)'
  <2>1. Counted(req[r], z)
    BY <1>2, SMTT(40) DEF CountedAll, Counted
  <2>2. /\ MustCount(req[r], z)' \subseteq MustCount(req[r], z)
        /\ Unstaffed(req[r], z)' <=> Unstaffed(req[r], z)
    BY <1>2, MustCountStep, SMTT(40)
  <2>3. QED
    BY <1>2, <2>1, <2>2, SMTT(40) DEF Counted, ZoneOf
<1>3. ASSUME NEW z \in Zone, ListPods(r, z)
      PROVE  IsFiniteSet(req'[r].bad) /\ \A y \in req'[r].scanned : Counted(req[r], y)'
  <2>1. /\ Evaluating(r) /\ req'[r].pod = req[r].pod /\ req'[r].cfg = req[r].cfg
        /\ req'[r].bad = req[r].bad /\ req'[r].scanned = req[r].scanned
    BY <1>3, SMTT(40) DEF ListPods, Evaluating, TypeOK
  <2>2. QED
    BY <1>2, <2>1, SMTT(40) DEF CountedAll
<1>4. CASE SameEval(r)
  <2>1. /\ Evaluating(r) /\ req'[r].pod = req[r].pod /\ req'[r].cfg = req[r].cfg
        /\ req'[r].bad = req[r].bad /\ req'[r].scanned = req[r].scanned
    BY <1>4, SameFields, SMTT(40) DEF SameEval
  <2>2. QED
    BY <1>2, <2>1, SMTT(40) DEF CountedAll
<1>5. CASE Tally(r)
  <2> DEFINE q == req[r]
  <2>1. q \in Tallying /\ Evaluating(r)
    BY <1>5, ReqByPc, SMTT(40) DEF Tally, Evaluating
  <2>2. /\ req'[r].pod = q.pod /\ req'[r].cfg = q.cfg
        /\ req'[r].bad = q.bad \cup unavailable(q) /\ req'[r].scanned = q.scanned \cup {q.zone}
        /\ Pdb[q.cfg].partitioned \/ q.zone = ZoneOf(q.pod) \/ unavailable(q) = {}
    BY <1>5, SMTT(40) DEF Tally, Finish, Evaluating, Idle, TypeOK
  <2>3. IsFiniteSet(req'[r].bad)
    <3>1. IsFiniteSet(q.bad) /\ IsFiniteSet(q.unready)
      BY <1>5, <2>1, SMTT(40) DEF CountedAll, ListedAll, Tally
    <3>2. {p \in q.ready : pending[p]} \subseteq Pod
      BY <2>1 DEF Tallying
    <3>3. IsFiniteSet(unavailable(q))
      BY <3>1, <3>2, PodAssumption, FS_Subset, FS_Union, Zenon DEF unavailable
    <3>4. IsFiniteSet(q.bad \cup unavailable(q))
      BY <3>1, <3>3, FS_Union, Zenon
    <3>5. QED
      BY <2>2, <3>4, SMTT(40)
  <2>4. PICK z : z = q.zone
    BY SMTT(40)
  <2>5. /\ MustCount(q, z) \subseteq unavailable(q)
        /\ Unstaffed(q, z) => \E b \in unavailable(q) : ZoneOf(b) = z
    BY <1>5, <2>4, SMTT(40) DEF ListedAll, Tally, unavailable
  <2>6. /\ MustCount(req[r], z)' \subseteq MustCount(q, z)
        /\ Unstaffed(req[r], z)' <=> Unstaffed(q, z)
    BY <2>1, <2>2, MustCountStep, SMTT(40)
  <2>7. Counted(req[r], z)'
    BY <2>2, <2>4, <2>5, <2>6, SMTT(40) DEF Counted, ZoneOf
  <2>8. QED
    BY <1>2, <2>1, <2>2, <2>3, <2>4, <2>7, SMTT(40)
<1>6. QED
  BY <1>1, <1>3, <1>4, <1>5, EvalStep, SMTT(40)

-----------------------------------------------------------------------------
(* The two guarantees.                                                     *)

\* What holds when a request is granted under budget c.
LEMMA GrantFacts ==
    ASSUME TypeOK, InBudgetZones, CountedAll, NEW c \in Config, NEW r \in Req, Grant(r), req[r].cfg = c
    PROVE  /\ Evaluating(r) /\ req[r].pod \in Pod
           /\ ZoneOf(req[r].pod) \in Pdb[c].sts /\ considerSts(c, ZoneOf(req[r].pod)) \subseteq req[r].scanned
           /\ IsFiniteSet(req[r].bad)
           /\ Cardinality(req[r].bad) + 1 <= Budget(c, ZoneOf(req[r].pod))
           /\ \A z \in req[r].scanned : Counted(req[r], z)
<1>1. req[r] \in Scanning /\ Evaluating(r) /\ ~maxReached(req[r])
  BY ReqByPc, SMTT(40) DEF Grant, Validate, Evaluating
<1>2. considerSts(c, ZoneOf(req[r].pod)) \subseteq req[r].scanned
  BY SMTT(40) DEF Grant, Validate
<1>3. /\ req[r].pod \in Pod /\ req[r].max \in Nat
  BY <1>1, SMTT(40) DEF Scanning
<1>4. IsFiniteSet(req[r].bad) /\ \A z \in req[r].scanned : Counted(req[r], z)
  BY <1>1, SMTT(40) DEF CountedAll, Counted
<1>5. ZoneOf(req[r].pod) \in Pdb[c].sts /\ req[r].max <= Budget(c, ZoneOf(req[r].pod))
  BY <1>1 DEF InBudgetZones
<1>6. Cardinality(req[r].bad) \in Nat /\ Budget(c, ZoneOf(req[r].pod)) \in Nat
  BY <1>4, FS_CardinalityType, BudgetType, SMTT(40)
<1>7. Cardinality(req[r].bad) + 1 <= Budget(c, ZoneOf(req[r].pod))
  BY <1>1, <1>3, <1>5, <1>6, SMTT(40) DEF maxReached
<1>8. QED
  BY <1>1, <1>2, <1>3, <1>4, <1>5, <1>7, SMTT(40)

\* In zone mode a grant finds every disrupted pod in the zone it is for.
LEMMA GrantIsolated ==
    ASSUME TypeOK, InBudgetZones, CountedAll, NEW c \in Config, ~Pdb[c].partitioned,
           NEW r \in Req, Grant(r), req[r].cfg = c, NEW p \in Disrupted(c)
    PROVE  ZoneOf(p) = ZoneOf(req[r].pod)
<1> SUFFICES ASSUME ZoneOf(p) # ZoneOf(req[r].pod) PROVE FALSE
  BY SMTT(40)
<1>1. ZoneOf(p) \in Pdb[c].sts
  BY SMTT(40) DEF InBudgetZones
<1>2. ZoneOf(p) \in req[r].scanned
  BY <1>1, GrantFacts, SMTT(40) DEF considerSts
<1>3. MustCount(req[r], ZoneOf(p)) = {}
  BY <1>2, GrantFacts, SMTT(40) DEF Counted
<1>4. p \in MustCount(req[r], ZoneOf(p))
  BY DEF MustCount, considerPod
<1>5. QED
  BY <1>3, <1>4, SMTT(40)

\* A grant never adds a second zone.
LEMMA ZoneIsolationStep ==
    ASSUME TypeOK, LockHeld, InBudgetZones, CountedAll, ZoneIsolation, [Next]_vars
    PROVE  ZoneIsolation'
<1> SUFFICES ASSUME NEW c \in Config, ~Pdb[c].partitioned, NEW p \in Disrupted(c)', NEW q \in Disrupted(c)'
             PROVE  ZoneOf(p) = ZoneOf(q)
  BY DEF ZoneIsolation, ZoneOf
<1>1. CASE p \in Disrupted(c) /\ q \in Disrupted(c)
  BY <1>1, SMTT(40) DEF ZoneIsolation
<1>2. ASSUME NEW r \in Req, Grant(r), req[r].cfg = c, NEW s \in Disrupted(c)'
      PROVE  ZoneOf(s) = ZoneOf(req[r].pod)
  <2>1. CASE s \in Disrupted(c)
    BY <1>2, <2>1, GrantIsolated, SMTT(40)
  <2>2. ASSUME NEW t \in Req, Grant(t), req[t].cfg = c, req[t].pod = s PROVE t = r
    BY <1>2, <2>2, GrantFacts, NoOtherGrant, SMTT(40)
  <2>3. QED
    BY <2>1, <2>2, DisruptedGrows, SMTT(40)
<1>3. CASE \E r \in Req : Grant(r) /\ req[r].cfg = c
  BY <1>2, <1>3, SMTT(40)
<1>4. QED
  BY <1>1, <1>3, DisruptedGrows

\* In partition mode the limit does not depend on the zone.
LEMMA PartitionBudget ==
    ASSUME NEW c \in Config, Pdb[c].partitioned, NEW y, NEW z
    PROVE  Budget(c, y) = Budget(c, z)
<1>1. Pdb[c].pct = 0 /\ Pdb[c].max \in Nat
  BY ConfigAssumption DEF ParseAndValidate
<1>2. \A spec, status : maxUnavailablePods(c, spec, status) = Pdb[c].max
  BY <1>1 DEF maxUnavailablePods
<1>3. QED
  BY <1>2 DEF Budget

\* The zones of a finite set of pods are no more than the pods.
LEMMA ZonesOfPods ==
    ASSUME NEW S, IsFiniteSet(S)
    PROVE  /\ IsFiniteSet({ZoneOf(b) : b \in S})
           /\ Cardinality({ZoneOf(b) : b \in S}) <= Cardinality(S)
<1> DEFINE T == {ZoneOf(b) : b \in S}
           f == [b \in S |-> ZoneOf(b)]
<1>1. f \in Surjection(S, T)
  BY DEF Surjection
<1>2. QED
  BY <1>1, FS_Surjection, SMTT(40)

\* A subset of a finite set plus one element has at most one element more.
LEMMA OneMore ==
    ASSUME NEW S, IsFiniteSet(S), NEW x, NEW T, T \subseteq S \cup {x}
    PROVE  IsFiniteSet(T) /\ Cardinality(T) <= Cardinality(S) + 1
<1>1. /\ IsFiniteSet(S \cup {x}) /\ Cardinality(S) \in Nat
      /\ Cardinality(S \cup {x}) = IF x \in S THEN Cardinality(S) ELSE Cardinality(S) + 1
  BY FS_AddElement, FS_CardinalityType, SMTT(40)
<1>2. IsFiniteSet(T) /\ Cardinality(T) <= Cardinality(S \cup {x}) /\ Cardinality(T) \in Nat
  BY <1>1, FS_Subset, FS_CardinalityType, SMTT(40)
<1>3. QED
  BY <1>1, <1>2

\* The claim of BudgetRespected for one budget and one disrupted pod.
Within(c, p) ==
    IF Pdb[c].partitioned
    THEN Cardinality(Unserved(c, PartitionOf(p))) <= Budget(c, ZoneOf(p))
    ELSE Cardinality(Disrupted(c) \cap PodsOf(ZoneOf(p))) <= Budget(c, ZoneOf(p))

\* Fewer disrupted pods cannot exceed a budget that more respect.
LEMMA WithinShrinks ==
    ASSUME NEW c \in Config, NEW p, Within(c, p),
           Pdb[c].partitioned => Unserved(c, PartitionOf(p))' \subseteq Unserved(c, PartitionOf(p)),
           ~Pdb[c].partitioned => Disrupted(c)' \subseteq Disrupted(c)
    PROVE  Within(c, p)'
<1>1. Budget(c, ZoneOf(p)) \in Nat /\ Budget(c, ZoneOf(p))' = Budget(c, ZoneOf(p))
  BY BudgetType, ZenonT(60) DEF Budget, maxUnavailablePods, SpecReplicas, PodsOf, ZoneOf, PercentageOf
<1>2. CASE Pdb[c].partitioned
  <2> DEFINE S == Unserved(c, PartitionOf(p))
             T == Unserved(c, PartitionOf(p))'
  <2>1. IsFiniteSet(S)
    BY ConfigAssumption, FS_Subset, Zenon DEF Unserved
  <2>2. Cardinality(T) <= Cardinality(S) /\ Cardinality(S) \in Nat /\ Cardinality(T) \in Nat
    BY <1>2, <2>1, FS_Subset, FS_CardinalityType, SMTT(40)
  <2>3. Cardinality(S) <= Budget(c, ZoneOf(p))
    BY <1>2 DEF Within
  <2>4. Cardinality(T) <= Budget(c, ZoneOf(p))
    BY <1>1, <2>2, <2>3, SMTT(40)
  <2>5. QED
    BY <1>1, <1>2, <2>4 DEF Within
<1>3. CASE ~Pdb[c].partitioned
  <2> DEFINE S == Disrupted(c) \cap PodsOf(ZoneOf(p))
             T == Disrupted(c)' \cap PodsOf(ZoneOf(p))
  <2>1. IsFiniteSet(S) /\ T \subseteq S
    BY <1>3, ReplicasType, FS_Subset, SMTT(40)
  <2>2. Cardinality(T) <= Cardinality(S) /\ Cardinality(S) \in Nat /\ Cardinality(T) \in Nat
    BY <2>1, FS_Subset, FS_CardinalityType, SMTT(40)
  <2>3. Cardinality(S) <= Budget(c, ZoneOf(p))
    BY <1>3, SMTT(40) DEF Within
  <2>4. Cardinality(T) <= Budget(c, ZoneOf(p))
    BY <1>1, <2>2, <2>3, SMTT(40)
  <2>5. (Disrupted(c) \cap PodsOf(ZoneOf(p)))' = T
    BY DEF PodsOf, ZoneOf
  <2>6. QED
    BY <1>1, <1>3, <2>4, <2>5, SMTT(40) DEF Within
<1>4. QED
  BY <1>2, <1>3, SMTT(40)

\* A grant adds one pod to fewer counted pods than the limit.
LEMMA BudgetRespectedStep ==
    ASSUME TypeOK, LockHeld, InBudgetZones, CountedAll, BudgetRespected, [Next]_vars
    PROVE  BudgetRespected'
<1> SUFFICES ASSUME NEW c \in Config, NEW p \in Disrupted(c)' PROVE Within(c, p)'
  BY DEF BudgetRespected, Within
<1>0. p \in Pod
  BY DEF Disrupted
<1>1. CASE ~\E r \in Req : Grant(r) /\ req[r].cfg = c
  <2>1. Disrupted(c)' \subseteq Disrupted(c)
    BY <1>1, DisruptedGrows, SMTT(40)
  <2>2. Within(c, p)
    BY <2>1 DEF BudgetRespected, Within
  <2>3. Unserved(c, PartitionOf(p))' \subseteq Unserved(c, PartitionOf(p))
    BY <2>1 DEF Unserved, PartitionOf
  <2>4. QED
    BY <2>1, <2>2, <2>3, WithinShrinks, SMTT(40)
<1>2. ASSUME NEW r \in Req, Grant(r), req[r].cfg = c PROVE Within(c, p)'
  <2> DEFINE pod == req[r].pod
             z == ZoneOf(pod)
             bad == req[r].bad
  <2>1. Disrupted(c)' \subseteq Disrupted(c) \cup {pod}
    BY <1>2, GrantFacts, NoOtherGrant, DisruptedGrows, SMTT(40)
  <2>2. /\ pod \in Pod /\ z \in Pdb[c].sts /\ considerSts(c, z) \subseteq req[r].scanned
        /\ IsFiniteSet(bad) /\ Cardinality(bad) + 1 <= Budget(c, z)
        /\ \A y \in req[r].scanned : Counted(req[r], y)
    BY <1>2, GrantFacts, SMTT(40)
  <2>3. Budget(c, z) \in Nat /\ Cardinality(bad) \in Nat
    BY <2>2, BudgetType, FS_CardinalityType, SMTT(40)
  <2>4. \A y : Budget(c, y)' = Budget(c, y)
    BY ZenonT(60) DEF Budget, maxUnavailablePods, SpecReplicas, PodsOf, ZoneOf, PercentageOf
  <2>5. CASE ~Pdb[c].partitioned
    <3>1. ZoneOf(p) = z
      BY <1>2, <2>1, <2>5, GrantIsolated, SMTT(40)
    <3>2. Disrupted(c)' \cap PodsOf(z) \subseteq bad \cup {pod}
      <4> SUFFICES ASSUME NEW s \in Disrupted(c), s \in PodsOf(z), s # pod PROVE s \in bad
        BY <2>1, SMTT(40)
      <4>1. z \in req[r].scanned
        BY <2>2, <2>5, SMTT(40) DEF considerSts
      <4>2. s \in MustCount(req[r], z)
        BY <1>2, <2>5, SMTT(40) DEF MustCount, considerPod, PodsOf
      <4>3. QED
        BY <2>2, <4>1, <4>2, SMTT(40) DEF Counted
    <3>3. Cardinality(Disrupted(c)' \cap PodsOf(z)) <= Cardinality(bad) + 1
          /\ IsFiniteSet(Disrupted(c)' \cap PodsOf(z))
      BY <2>2, <3>2, OneMore, SMTT(40)
    <3>4. Cardinality(Disrupted(c)' \cap PodsOf(z)) <= Budget(c, z)
      BY <2>2, <2>3, <3>3, FS_CardinalityType, SMTT(40)
    <3>5. (Disrupted(c) \cap PodsOf(ZoneOf(p)))' = Disrupted(c)' \cap PodsOf(z)
      BY <3>1 DEF PodsOf, ZoneOf
    <3>6. Budget(c, ZoneOf(p))' = Budget(c, z)
      BY <2>4, <3>1, SMTT(40) DEF ZoneOf
    <3>7. QED
      BY <2>5, <3>4, <3>5, <3>6, SMTT(40) DEF Within
  <2>6. CASE Pdb[c].partitioned /\ PartitionOf(p) # PartitionOf(pod)
    <3>1. p \in Disrupted(c)
      BY <2>1, <2>6, SMTT(40)
    <3>2. Within(c, p)
      BY <3>1, SMTT(40) DEF BudgetRespected, Within
    <3>3. \A y : <<y, PartitionOf(p)>> # pod
      BY <2>6, SMTT(40) DEF PartitionOf
    <3>4. Unserved(c, PartitionOf(p))' \subseteq Unserved(c, PartitionOf(p))
      BY <2>1, <3>3, SMTT(40) DEF Unserved, PartitionOf
    <3>5. QED
      BY <2>6, <3>2, <3>4, WithinShrinks, SMTT(40)
  <2>7. CASE Pdb[c].partitioned /\ PartitionOf(p) = PartitionOf(pod)
    <3> DEFINE T == {ZoneOf(b) : b \in bad}
    <3>0. PICK i : i = PartitionOf(pod)
      OBVIOUS
    <3>1. Unserved(c, i)' \subseteq T \cup {z}
      <4> SUFFICES ASSUME NEW y \in Pdb[c].sts, y # z, <<y, i>> \notin Pod \/ <<y, i>> \in Disrupted(c)'
                   PROVE  y \in T
        BY SMTT(40) DEF Unserved, PartitionOf
      <4>1. Counted(req[r], y)
        BY <2>2, <2>7, SMTT(40) DEF considerSts
      <4>2. CASE <<y, i>> \notin Pod
        <5>1. Unstaffed(req[r], y)
          BY <1>2, <2>7, <3>0, <4>2, SMTT(40) DEF Unstaffed
        <5>2. QED
          BY <4>1, <5>1, SMTT(40) DEF Counted
      <4>3. CASE <<y, i>> \in Disrupted(c)'
        <5>1. <<y, i>> # pod /\ ZoneOf(<<y, i>>) = y /\ PartitionOf(<<y, i>>) = i
          BY SMTT(40) DEF ZoneOf, PartitionOf
        <5>2. <<y, i>> \in MustCount(req[r], y)
          BY <1>2, <2>1, <3>0, <4>3, <5>1, SMTT(40) DEF MustCount, considerPod
        <5>3. QED
          BY <4>1, <5>1, <5>2, SMTT(40) DEF Counted
      <4>4. QED
        BY <4>2, <4>3, SMTT(40)
    <3>2. IsFiniteSet(T) /\ Cardinality(T) <= Cardinality(bad) /\ Cardinality(T) \in Nat
      BY <2>2, ZonesOfPods, FS_CardinalityType, Zenon
    <3>3. /\ Cardinality(Unserved(c, i)') <= Cardinality(T) + 1
          /\ Cardinality(Unserved(c, i)') \in Nat
      BY <3>1, <3>2, OneMore, FS_CardinalityType, ZenonT(60)
    <3>4. Cardinality(Unserved(c, i)') <= Budget(c, z)
      BY <2>2, <2>3, <3>2, <3>3, SMTT(40)
    <3>5. Budget(c, ZoneOf(p))' = Budget(c, z)
      BY <2>4, <2>7, PartitionBudget, SMTT(40) DEF ZoneOf
    <3>6. Unserved(c, PartitionOf(p))' = Unserved(c, i)'
      BY <2>7, <3>0 DEF Unserved, PartitionOf
    <3>7. QED
      BY <2>7, <3>4, <3>5, <3>6, SMTT(40) DEF Within
  <2>8. QED
    BY <2>5, <2>6, <2>7, SMTT(40)
<1>3. QED
  BY <1>1, <1>2, SMTT(40)

-----------------------------------------------------------------------------

\* Nothing is evicted and no handler runs initially.
LEMMA IInvInit == Init => IInv
<1> SUFFICES ASSUME Init PROVE IInv
  OBVIOUS
<1>1. TypeOK
  BY TypeInit
<1>2. \A c \in Config : Disrupted(c) = {}
  BY DEF Init, Disrupted, Idle
<1>3. \A r \in Req : req[r].pc = "idle"
  BY SMTT(40) DEF Init, Idle
<1>4. LockHeld /\ ListedAll /\ CountedAll
  BY <1>3 DEF LockHeld, ListedAll, CountedAll, Evaluating
<1>5. NoStaleEvent /\ DownNotReady
  BY SMTT(40) DEF Init, NoStaleEvent, DownNotReady
<1>6. EvictionVisible /\ InBudgetZones /\ ZoneIsolation /\ BudgetRespected
  BY <1>2, <1>3, SMTT(40) DEF EvictionVisible, InBudgetZones, ZoneIsolation, BudgetRespected, Evaluating
<1>7. QED
  BY <1>1, <1>4, <1>5, <1>6, SMTT(40) DEF IInv

\* Every step of the model preserves the strengthened invariant.
LEMMA IInvStep ==
    ASSUME InformerPrompt, ScanPrompt, ApiPrompt, IInv, [Next]_vars
    PROVE  IInv'
<1> USE DEF IInv
<1>1. TypeOK'
  BY TypeHandler, TypeCluster, TypeRest DEF Next
<1>2. LockHeld'
  BY LockHeldStep
<1>3. NoStaleEvent'
  BY NoStaleEventStep
<1>4. DownNotReady'
  BY DownNotReadyStep
<1>5. EvictionVisible'
  BY <1>4, EvictionVisibleStep
<1>6. InBudgetZones'
  BY InBudgetZonesStep
<1>7. ListedAll'
  BY ListedAllStep
<1>8. CountedAll'
  BY CountedAllStep
<1>9. ZoneIsolation'
  BY ZoneIsolationStep
<1>10. BudgetRespected'
  BY BudgetRespectedStep
<1>11. QED
  BY <1>1, <1>2, <1>3, <1>4, <1>5, <1>6, <1>7, <1>8, <1>9, <1>10, SMTT(40)

\* With prompt informers, scans and API server, the strengthened invariant
\* holds of the eviction webhook for any zones, pods, budgets and handlers.
THEOREM Inductive ==
    ASSUME InformerPrompt, ScanPrompt, ApiPrompt
    PROVE  Spec => []IInv
<1>1. IInv /\ [Next]_vars => IInv'
  BY IInvStep
<1>2. QED
  BY IInvInit, <1>1, PTL, SMTT(40) DEF Spec

\* Evictions allowed under a zone-mode budget stay within one zone, whatever
\* the interleaving of handlers, informer events, expiries and restarts.
THEOREM EvictionsStayInOneZone ==
    ASSUME InformerPrompt, ScanPrompt, ApiPrompt
    PROVE  Spec => []ZoneIsolation
<1>1. IInv => ZoneIsolation
  BY DEF IInv
<1>2. QED
  BY <1>1, Inductive, PTL

\* Evictions allowed under a budget never exceed its limit, per zone in zone
\* mode and per partition across zones in partition mode.
THEOREM EvictionsStayWithinBudget ==
    ASSUME InformerPrompt, ScanPrompt, ApiPrompt
    PROVE  Spec => []BudgetRespected
<1>1. IInv => BudgetRespected
  BY DEF IInv
<1>2. QED
  BY <1>1, Inductive, PTL

\* An allowed eviction is seen by every later decision, in the eviction cache
\* or in the live pod.
THEOREM EvictionsStayVisible ==
    ASSUME InformerPrompt, ScanPrompt, ApiPrompt
    PROVE  Spec => []EvictionVisible
<1>1. IInv => EvictionVisible
  BY DEF IInv
<1>2. QED
  BY <1>1, Inductive, PTL


-----------------------------------------------------------------------------
(* Zpdb implements ZpdbPromise.  A grant is one step of the promise, the   *)
(* return of a pod another, and every other step leaves the pods out of    *)
(* service as they are.                                                    *)

\* Pod p alone may have left the pods out of service.
OnlyReturns(p) == \A c \in Config : \A q \in Disrupted(c) : q # p => q \in Disrupted(c)'

\* The answers and the record of disrupted pods are kept.
Keeps ==
    /\ downBy' = downBy
    /\ \A r \in Req : req[r].pc = "allowed" => req'[r] = req[r]

LEMMA KeepsDisrupted ==
    ASSUME Keeps, NEW c \in Config
    PROVE  Disrupted(c) \subseteq Disrupted(c)'
BY DEF Keeps, Disrupted

\* A step of one handler leaves the others alone.
LEMMA OthersUntouched ==
    ASSUME TypeOK, NEW r \in Req, Handler(r), NEW s \in Req, s # r
    PROVE  req'[s] = req[s]
<1>1. ASSUME NEW answer, Finish(r, answer) PROVE req'[s] = req[s]
  BY <1>1 DEF Finish, TypeOK
<1>2. ASSUME NEW p \in Target, NEW o \in 0..MaxOverride, ReceiveRequest(r, p, o) PROVE req'[s] = req[s]
  BY <1>2 DEF ReceiveRequest, TypeOK
<1>3. CASE AcquireLock(r)
  BY <1>3 DEF AcquireLock, TypeOK
<1>4. ASSUME NEW z \in Zone, ListPods(r, z) PROVE req'[s] = req[s]
  BY <1>4 DEF ListPods, TypeOK
<1>5. CASE ListFails(r)
  BY <1>1, <1>5 DEF ListFails
<1>6. CASE Tally(r)
  BY <1>1, <1>6 DEF Tally, TypeOK
<1>7. CASE Validate(r)
  BY <1>1, <1>7 DEF Validate
<1>8. QED
  BY <1>2, <1>3, <1>4, <1>5, <1>6, <1>7 DEF Handler

\* A step of a handler keeps what is out of service.
LEMMA HandlerKeeps ==
    ASSUME TypeOK, NEW r \in Req, Handler(r)
    PROVE  Keeps
<1>1. downBy' = downBy
  BY ZenonT(60) DEF Handler, ReceiveRequest, AcquireLock, ListPods, ListFails, Tally, Validate, podVars
<1>2. req[r].pc # "allowed"
  BY ZenonT(60) DEF Handler, ReceiveRequest, AcquireLock, ListPods, ListFails, Tally, Validate
<1>3. QED
  BY <1>1, <1>2, OthersUntouched DEF Keeps

\* A step takes at most one pod out of the pods out of service.
LEMMA OnePodReturns ==
    ASSUME TypeOK, [Next]_vars
    PROVE  \/ \A c \in Config : Disrupted(c) \subseteq Disrupted(c)'
           \/ \E p \in Pod : OnlyReturns(p)
<1>1. ASSUME NEW r \in Req, Handler(r) PROVE \A c \in Config : Disrupted(c) \subseteq Disrupted(c)'
  BY <1>1, HandlerKeeps, KeepsDisrupted
<1>2. CASE Informer \/ ConfigChange \/ UNCHANGED vars
  <2>1. Keeps
    BY <1>2 DEF Informer, DeliverEvent, Relist, ExpireEntry, ConfigChange, podVars, vars, Keeps
  <2>2. QED
    BY <2>1, KeepsDisrupted
<1>3. CASE Restart
  <2>1. Keeps
    BY <1>3 DEF Restart, Keeps
  <2>2. QED
    BY <2>1, KeepsDisrupted
<1>4. ASSUME NEW r \in Req, ActOnEviction(r) PROVE \A c \in Config : Disrupted(c) \subseteq Disrupted(c)'
  <2> SUFFICES ASSUME NEW c \in Config, NEW p \in Disrupted(c) PROVE p \in Disrupted(c)'
    OBVIOUS
  <2>0. p \in Pod
    BY DEF Disrupted
  <2>1. CASE c \in downBy[p]
    <3>1. c \in downBy'[p]
      BY <1>4, <2>0, <2>1 DEF ActOnEviction, TypeOK
    <3>2. QED
      BY <2>0, <3>1 DEF Disrupted
  <2>2. ASSUME NEW s \in Req, req[s].pc = "allowed", req[s].pod = p, req[s].cfg = c PROVE p \in Disrupted(c)'
    <3>1. CASE s = r
      <4>1. c # NoCfg
        BY ConfigAssumption
      <4>2. c \in downBy'[p]
        BY <1>4, <2>0, <2>2, <3>1, <4>1 DEF ActOnEviction, TypeOK
      <4>3. QED
        BY <2>0, <4>2 DEF Disrupted
    <3>2. CASE s # r
      <4>1. req'[s] = req[s]
        BY <1>4, <3>2 DEF ActOnEviction, TypeOK
      <4>2. QED
        BY <2>0, <2>2, <4>1 DEF Disrupted
    <3>3. QED
      BY <3>1, <3>2
  <2>3. QED
    BY <2>1, <2>2 DEF Disrupted
<1>5. ASSUME NEW r \in Req, DropEviction(r) PROVE \E p \in Pod : OnlyReturns(p)
  <2>1. req[r].pod \in Pod
    BY <1>5, ReqByPc DEF DropEviction, Answered
  <2>2. ASSUME NEW c \in Config, NEW q \in Disrupted(c), q # req[r].pod PROVE q \in Disrupted(c)'
    <3>1. downBy' = downBy
      BY <1>5 DEF DropEviction, podVars
    <3>2. \A s \in Req : req[s].pc = "allowed" /\ req[s].pod = q => req'[s] = req[s]
      BY <1>5, <2>2 DEF DropEviction, TypeOK
    <3>3. QED
      BY <3>1, <3>2 DEF Disrupted
  <2>3. QED
    BY <2>1, <2>2 DEF OnlyReturns
<1>6. ASSUME NEW p \in Pod, PodCreated(p) \/ PodStarted(p) \/ PodDisrupted(p) \/ PodRemoved(p)
      PROVE  \A c \in Config : Disrupted(c) \subseteq Disrupted(c)'
  <2>1. Keeps
    BY <1>6 DEF PodCreated, PodStarted, PodDisrupted, PodRemoved, Keeps
  <2>2. QED
    BY <2>1, KeepsDisrupted
<1>7. ASSUME NEW p \in Pod, PodReady(p) \/ PodSettled(p) PROVE OnlyReturns(p)
  <2> SUFFICES ASSUME NEW c \in Config, NEW q \in Disrupted(c), q # p PROVE q \in Disrupted(c)'
    BY DEF OnlyReturns
  <2>1. q \in Pod /\ req' = req
    BY <1>7 DEF PodReady, PodSettled, Disrupted
  <2>2. downBy'[q] = downBy[q]
    BY <1>7, <2>1 DEF PodReady, PodSettled, TypeOK
  <2>3. QED
    BY <2>1, <2>2 DEF Disrupted
<1>8. QED
  BY <1>1, <1>2, <1>3, <1>4, <1>5, <1>6, <1>7 DEF Next, Cluster

-----------------------------------------------------------------------------
(* The refinement.                                                         *)

\* The instance counts as the module does.
LEMMA SameCardinality == \A S : Promise!Cardinality(S) = Cardinality(S)
BY DEF Promise!Cardinality, Cardinality

\* What a grant answers, and that it answers nobody else.
LEMMA GrantAnswers ==
    ASSUME TypeOK, NEW r \in Req, Grant(r)
    PROVE  /\ req[r].pc = "scan" /\ req'[r] = Allow(req[r].pod, req[r].cfg)
           /\ req'[r].pc = "allowed"
           /\ \A s \in Req \ {r} : req'[s] = req[s]
<1>1. req[r].pc = "scan" /\ req' = [req EXCEPT ![r] = Allow(req[r].pod, req[r].cfg)]
  BY Zenon DEF Grant, Validate, Finish
<1>2. DOMAIN req = Req
  BY DEF TypeOK
<1>3. req'[r] = Allow(req[r].pod, req[r].cfg) /\ \A s \in Req \ {r} : req'[s] = req[s]
  BY <1>1, <1>2
<1>4. Allow(req[r].pod, req[r].cfg).pc = "allowed"
  BY DEF Allow
<1>5. QED
  BY <1>1, <1>3, <1>4

\* A grant adds the pod to the pods out of service by its budget, and by no
\* other.
LEMMA GrantAdds ==
    ASSUME TypeOK, LockHeld, InBudgetZones, CountedAll, [Next]_vars, NEW r \in Req, Grant(r)
    PROVE  \E c \in Config, p \in Pod :
              /\ ZoneOf(p) \in Pdb[c].sts
              /\ Disrupted(c)' = Disrupted(c) \cup {p}
              /\ \A d \in Config \ {c} : Disrupted(d)' = Disrupted(d)
<1>1. req[r] \in Scanning /\ Evaluating(r)
  BY ReqByPc, SMTT(40) DEF Grant, Validate, Evaluating
<1>2. PICK c \in Config : req[r].cfg = c
  BY <1>1 DEF Scanning
<1>3. PICK p \in Pod : req[r].pod = p
  BY <1>1 DEF Scanning
<1>4. ZoneOf(p) \in Pdb[c].sts
  BY <1>2, <1>3, GrantFacts, SMTT(40)
<1>5. Handler(r)
  BY DEF Grant, Handler
<1>6. \A d \in Config : Disrupted(d) \subseteq Disrupted(d)'
  BY <1>5, HandlerKeeps, KeepsDisrupted
<1>7. p \in Disrupted(c)'
  <2>1. req'[r] = Allow(p, c)
    BY <1>2, <1>3, GrantAnswers
  <2>2. QED
    BY <2>1 DEF Allow, Disrupted
<1>8. ASSUME NEW s \in Req, Grant(s) PROVE s = r
  <2>1. s # r => req'[s] = req[s]
    BY GrantAnswers
  <2>2. req'[s].pc = "allowed" /\ req[s].pc = "scan"
    BY <1>8, GrantAnswers
  <2>3. QED
    BY <2>1, <2>2
<1>9. ASSUME NEW d \in Config, NEW q \in Disrupted(d)', q \notin Disrupted(d) PROVE d = c /\ q = p
  BY <1>2, <1>3, <1>8, <1>9, DisruptedGrows
<1>10. QED
  BY <1>4, <1>6, <1>7, <1>9

\* A step of Zpdb is a step of the promise or leaves it alone.
LEMMA PromiseStep ==
    ASSUME IInv, IInv', [Next]_vars
    PROVE  [Promise!Next]_([c \in Config |-> Disrupted(c)])
<1> USE DEF IInv
<1> DEFINE out == [c \in Config |-> Disrupted(c)]
           outNext == [c \in Config |-> Disrupted(c)']
           Limit == [c \in Config |-> [z \in Zone |-> Budget(c, z)]]
<1>0. out' = outNext
  OBVIOUS
<1>1. CASE \E r \in Req : Grant(r)
  <2>1. PICK c \in Config, p \in Pod :
              /\ ZoneOf(p) \in Pdb[c].sts
              /\ Disrupted(c)' = Disrupted(c) \cup {p}
              /\ \A d \in Config \ {c} : Disrupted(d)' = Disrupted(d)
    BY <1>1, GrantAdds
  <2>2. out' = [out EXCEPT ![c] = @ \cup {p}]
    BY <1>0, <2>1
  <2>3. ZoneOf(p) = p[1] /\ PartitionOf(p) = p[2] /\ p[1] \in Zone
    BY PodAssumption DEF ZoneOf, PartitionOf
  <2>4. Limit[c][p[1]] = Budget(c, ZoneOf(p)) /\ out[c] \cup {p} = Disrupted(c)'
    BY <2>1, <2>3
  <2>5. p \in Disrupted(c)'
    BY <2>1
  <2>6. Budget(c, ZoneOf(p))' = Budget(c, ZoneOf(p))
    BY ZenonT(60) DEF Budget, maxUnavailablePods, SpecReplicas, PodsOf, ZoneOf, PercentageOf
  <2>7. ASSUME Pdb[c].partitioned PROVE Promise!HasRoom(c, p)
    <3>1. Cardinality(Unserved(c, PartitionOf(p))') <= Budget(c, ZoneOf(p))
      BY <2>5, <2>6, <2>7 DEF BudgetRespected, PartitionOf
    <3>2. Unserved(c, PartitionOf(p))' = {z \in Pdb[c].sts : <<z, p[2]>> \notin Pod \/ <<z, p[2]>> \in Disrupted(c)'}
      BY <2>3 DEF Unserved, PartitionOf
    <3>3. QED
      BY <2>4, <2>7, <3>1, <3>2, SameCardinality DEF Promise!HasRoom
  <2>8. ASSUME ~Pdb[c].partitioned PROVE Promise!HasRoom(c, p)
    <3>1. \A q \in Disrupted(c)' : q[1] = p[1] /\ q \in Pod
      BY <2>5, <2>8 DEF ZoneIsolation, ZoneOf, Disrupted
    <3>2. Disrupted(c)' = (Disrupted(c) \cap PodsOf(ZoneOf(p)))'
      BY <3>1 DEF PodsOf, ZoneOf
    <3>3. Cardinality((Disrupted(c) \cap PodsOf(ZoneOf(p)))') <= Budget(c, ZoneOf(p))
      BY <2>5, <2>6, <2>8 DEF BudgetRespected, ZoneOf
    <3>4. QED
      BY <2>4, <2>8, <3>1, <3>2, <3>3, SameCardinality DEF Promise!HasRoom
  <2>9. Promise!HasRoom(c, p)
    BY <2>7, <2>8
  <2>10. Promise!Evict(c, p)
    BY <2>1, <2>2, <2>3, <2>9 DEF Promise!Evict
  <2>11. QED
    BY <2>10 DEF Promise!Next
<1>2. CASE ~\E r \in Req : Grant(r)
  <2>1. \A c \in Config : Disrupted(c)' \subseteq Disrupted(c)
    BY <1>2, DisruptedGrows
  <2>2. CASE \A c \in Config : Disrupted(c) \subseteq Disrupted(c)'
    <3>1. \A c \in Config : Disrupted(c)' = Disrupted(c)
      BY <2>1, <2>2
    <3>2. out' = out
      BY <1>0, <3>1
    <3>3. QED
      BY <3>2
  <2>3. ASSUME NEW p \in Pod, OnlyReturns(p) PROVE Promise!Return(p)
    <3> DEFINE C == {c \in Config : p \notin Disrupted(c)'}
    <3>1. C \in SUBSET Config
      OBVIOUS
    <3>2. \A c \in Config : Disrupted(c)' = IF c \in C THEN Disrupted(c) \ {p} ELSE Disrupted(c)
      BY <2>1, <2>3 DEF OnlyReturns
    <3>3. out' = [c \in Config |-> IF c \in C THEN out[c] \ {p} ELSE out[c]]
      BY <1>0, <3>2
    <3>4. QED
      BY <3>1, <3>3 DEF Promise!Return
  <2>4. QED
    BY <2>2, <2>3, OnePodReturns DEF Promise!Next
<1>3. QED
  BY <1>1, <1>2

\* HandlePodEvictionRequest with its cache, mutexes and informer implements the
\* promise, for every topology, every set of budgets and any number of handlers.
THEOREM PromiseKept ==
    ASSUME InformerPrompt, ScanPrompt, ApiPrompt
    PROVE  Spec => KeepsPromise
<1>1. Init => Promise!Init
  <2> SUFFICES ASSUME Init PROVE \A c \in Config : Disrupted(c) = {}
    BY DEF Promise!Init
  <2>1. QED
    BY DEF Init, Disrupted, Idle
<1>2. IInv /\ IInv' /\ [Next]_vars => [Promise!Next]_([c \in Config |-> Disrupted(c)])
  BY PromiseStep
<1>3. QED
  BY <1>1, <1>2, Inductive, PTL DEF Spec, KeepsPromise, Promise!Spec

-----------------------------------------------------------------------------
(* The mutexes.                                                            *)

\* Only a restart makes a handler forget the budget it evaluates.
LEMMA ForgottenByRestart ==
    ASSUME TypeOK, [Next]_vars, NEW r \in Req, Evaluating(r), req'[r] = Idle,
           ~Handler(r), ~ActOnEviction(r), ~DropEviction(r)
    PROVE  Restart
<1>1. req[r] # Idle /\ req[r].pc \in {"scan", "tally"}
  BY SMTT(40) DEF Evaluating, Idle
<1>2. ASSUME NEW s \in Req, s # r, Handler(s) PROVE FALSE
  <2>1. req'[r] = req[r]
    BY <1>2, OthersUntouched
  <2>2. QED
    BY <1>1, <2>1
<1>3. ASSUME NEW s \in Req, s # r, ActOnEviction(s) \/ DropEviction(s) PROVE FALSE
  BY <1>1, <1>3 DEF ActOnEviction, DropEviction, TypeOK
<1>4. ASSUME NEW p \in Pod, PodCreated(p) PROVE FALSE
  <2>1. req'[r] = req[r] \/ req'[r] = [req[r] EXCEPT !.same = FALSE]
    BY <1>4, SMTT(40) DEF PodCreated
  <2>2. SameEval(r)
    BY <2>1 DEF SameEval
  <2>3. req'[r].pc = req[r].pc
    BY <2>2, SameFields
  <2>4. req'[r].pc = "idle"
    <3>1. Idle.pc = "idle"
      BY DEF Idle
    <3>2. QED
      BY <3>1, Zenon
  <2>5. "idle" \notin {"scan", "tally"}
    OBVIOUS
  <2>6. QED
    BY <1>1, <2>3, <2>4, <2>5, Zenon
<1>5. ASSUME NEW p \in Pod, PodStarted(p) \/ PodReady(p) \/ PodSettled(p) \/ PodDisrupted(p) \/ PodRemoved(p)
      PROVE  FALSE
  BY <1>1, <1>5, ZenonT(60) DEF PodStarted, PodReady, PodSettled, PodDisrupted, PodRemoved
<1>6. ASSUME Informer \/ ConfigChange \/ UNCHANGED vars PROVE FALSE
  BY <1>1, <1>6, ZenonT(60) DEF Informer, DeliverEvent, Relist, ExpireEntry, ConfigChange, vars
<1>7. QED
  BY <1>2, <1>3, <1>4, <1>5, <1>6, SMTT(40) DEF Next, Cluster

\* A handler comes to hold a mutex only by taking it, for the budget it is about
\* to evaluate.
LEMMA LockTaken ==
    ASSUME TypeOK, [Next]_vars, NEW n \in Name, NEW r \in Req, locks'[n] = r, locks[n] # r
    PROVE  AcquireLock(r) /\ n = Pdb[req[r].cfg].name /\ locks' # locks
<1>0. r # NoReq
  BY ReqAssumption
<1>1. ASSUME NEW s \in Req, NEW answer, Finish(s, answer) PROVE FALSE
  BY <1>0, <1>1 DEF Finish
<1>2. ASSUME NEW s \in Req, AcquireLock(s) PROVE s = r /\ n = Pdb[req[r].cfg].name
  BY <1>0, <1>2 DEF AcquireLock, TypeOK
<1>3. locks' # locks
  OBVIOUS
<1>4. ASSUME NEW s \in Req, Handler(s) PROVE AcquireLock(s)
  BY <1>1, <1>3, <1>4, ZenonT(60) DEF Handler, ReceiveRequest, ListPods, ListFails, Tally, Validate
<1>5. ~Restart
  BY <1>0 DEF Restart
<1>6. ASSUME Cluster \/ Informer \/ ConfigChange \/ UNCHANGED vars PROVE FALSE
  BY <1>3, <1>6, ZenonT(60) DEF Cluster, ActOnEviction, DropEviction, PodCreated, PodStarted, PodReady, PodSettled,
       PodDisrupted, PodRemoved, Informer, DeliverEvent, Relist, ExpireEntry, ConfigChange, vars
<1>7. QED
  BY <1>2, <1>3, <1>4, <1>5, <1>6 DEF Next

\* The step of a handler that holds a mutex releases it or goes on under it.
LEMMA MutexStep ==
    ASSUME TypeOK, MutexReleased, [Next]_vars
    PROVE  MutexReleased'
<1> SUFFICES ASSUME NEW n \in Name, NEW r \in Req, locks'[n] = r
             PROVE  Evaluating(r)' /\ Pdb[req'[r].cfg].name = n
  <2>1. locks' \in [Name -> Req \cup {NoReq}]
    BY TypeHandler, TypeCluster, TypeRest DEF Next, TypeOK
  <2>2. QED
    BY <2>1 DEF MutexReleased, Evaluating
<1>0. r # NoReq
  BY ReqAssumption
<1>1. CASE locks[n] = r
  <2>1. Evaluating(r) /\ Pdb[req[r].cfg].name = n
    BY <1>0, <1>1 DEF MutexReleased
  <2>2. ASSUME NEW answer, Finish(r, answer) PROVE FALSE
    BY <1>0, <1>1, <2>2 DEF Finish
  <2>3. CASE SameEval(r)
    <3>1. req'[r].pc = req[r].pc /\ req'[r].cfg = req[r].cfg
      BY <2>3, SameFields
    <3>2. QED
      BY <2>1, <3>1, Zenon DEF Evaluating
  <2>4. CASE Handler(r)
    <3>1. ASSUME NEW p \in Target, NEW o \in 0..MaxOverride, ReceiveRequest(r, p, o) PROVE FALSE
      BY <2>1, <3>1, SMTT(40) DEF ReceiveRequest, Evaluating
    <3>2. CASE AcquireLock(r)
      BY <2>1, <3>2, SMTT(40) DEF AcquireLock, Evaluating
    <3>3. ASSUME NEW z \in Zone, ListPods(r, z) PROVE Evaluating(r)' /\ Pdb[req'[r].cfg].name = n
      BY <2>1, <3>3 DEF ListPods, Evaluating, TypeOK
    <3>4. CASE Tally(r)
      BY <2>1, <2>2, <3>4 DEF Tally, Evaluating, TypeOK
    <3>5. CASE ListFails(r) \/ Validate(r)
      BY <2>2, <3>5, Zenon DEF ListFails, Validate
    <3>6. QED
      BY <2>4, <3>1, <3>2, <3>3, <3>4, <3>5 DEF Handler
  <2>5. CASE ActOnEviction(r) \/ DropEviction(r)
    BY <2>1, <2>5, SMTT(40) DEF ActOnEviction, DropEviction, Evaluating
  <2>6. CASE req'[r] = Idle /\ ~Handler(r) /\ ~ActOnEviction(r) /\ ~DropEviction(r)
    <3>1. Restart
      BY <2>1, <2>6, ForgottenByRestart
    <3>2. QED
      BY <1>0, <3>1 DEF Restart
  <2>7. QED
    BY <2>1, <2>3, <2>4, <2>5, <2>6, StepOfOthers, SMTT(40) DEF SameEval
<1>2. CASE locks[n] # r
  <2>1. AcquireLock(r) /\ n = Pdb[req[r].cfg].name /\ locks' # locks
    BY <1>0, <1>2, LockTaken
  <2>2. QED
    BY <2>1 DEF AcquireLock, Evaluating, TypeOK
<1>3. QED
  BY <1>1, <1>2

\* No handler, whatever it runs into, keeps the mutex of a budget: for any
\* number of handlers, budgets and reconfigurations, and without any assumption
\* on timing.
THEOREM MutexesReleased == Spec => []MutexReleased
<1>1. Init => MutexReleased
  BY DEF Init, MutexReleased
<1>2. TypeOK /\ MutexReleased /\ [Next]_vars => MutexReleased'
  BY MutexStep
<1>3. QED
  BY <1>1, <1>2, TypeCorrect, PTL DEF Spec
=============================================================================
