----------------------------- MODULE ZpdbProofs -----------------------------
(***************************************************************************)
(* Proofs about Zpdb: type correctness, and how one step changes a         *)
(* handler, the mutexes, the eviction cache and the disrupted pods.  The   *)
(* guarantees are derived in ZpdbBudgetProofs.                             *)
(***************************************************************************)
EXTENDS Zpdb, FiniteSetTheorems, TLAPS

\* What TypeOK says about the local state of one handler, by its pc.
LEMMA ReqByPc ==
    ASSUME TypeOK, NEW r \in Req
    PROVE  /\ req[r].pc = "idle" => req[r] = Idle
           /\ req[r].pc = "lock" => req[r] \in Waiting
           /\ req[r].pc = "scan" => req[r] \in Scanning
           /\ req[r].pc = "tally" => req[r] \in Tallying
           /\ req[r].pc = "allowed" => req[r] \in Answered
           /\ req[r].pc \in {"idle", "lock", "scan", "tally", "allowed"}
BY DEF TypeOK, Idle, Waiting, Scanning, Tallying, Answered

\* The limit of a request under a budget is a natural number.
LEMMA LimitType ==
    ASSUME NEW c \in Config, NEW spec \in Nat, NEW status \in Nat, NEW o \in Nat
    PROVE  /\ maxUnavailablePods(c, spec, status) \in Nat
           /\ limit(maxUnavailablePods(c, spec, status), o) \in Nat
<1> DEFINE m == IF spec < status THEN spec ELSE status
<1>1. m \in Nat /\ Pdb[c].pct \in Nat /\ Pdb[c].max \in Nat
  BY ConfigAssumption
<1>2. Pdb[c].pct * m \in Nat
  BY <1>1
<1>3. PercentageOf(Pdb[c].pct, m) \in Nat
  BY <1>2 DEF PercentageOf
<1>4. maxUnavailablePods(c, spec, status) \in Nat
  BY <1>1, <1>3 DEF maxUnavailablePods
<1>5. QED
  BY <1>4 DEF limit

\* A zone has finitely many pods.
LEMMA ReplicasType ==
    ASSUME NEW z
    PROVE  IsFiniteSet(PodsOf(z)) /\ SpecReplicas(z) \in Nat
BY PodAssumption, FS_Subset, FS_CardinalityType DEF PodsOf, SpecReplicas

\* The initial state is well typed.
LEMMA TypeInit == Init => TypeOK
BY DEF Init, TypeOK, PodState, Event, Idle

\* Releasing a mutex keeps the lock table well formed.
LEMMA FinishType ==
    ASSUME TypeOK, NEW r \in Req, NEW answer \in {Idle} \cup Answered, Finish(r, answer)
    PROVE  /\ req' \in [Req -> {Idle} \cup Waiting \cup Scanning \cup Tallying \cup Answered]
           /\ locks' \in [Name -> Req \cup {NoReq}]
BY DEF TypeOK, Finish

\* A change of a pod object keeps the objects and the events well formed.
LEMMA BecomeType ==
    ASSUME TypeOK, NEW p \in Pod, NEW s \in PodState, NEW e \in Event, Become(p, s, e)
    PROVE  state' \in [Pod -> PodState] /\ evq' \in [Pod -> Seq(Event)]
BY DEF TypeOK, Become, Emit

\* The steps of the request handler keep the types.
LEMMA TypeHandler ==
    ASSUME TypeOK, NEW r \in Req, Handler(r)
    PROVE  TypeOK'
<1>1. ASSUME NEW p \in Target, NEW o \in 0..MaxOverride, ReceiveRequest(r, p, o)
      PROVE  TypeOK'
  <2>0. p \in Pod
    BY PodAssumption
  <2>1. Allow(p, NoCfg) \in Answered
    BY <2>0 DEF Allow, Answered
  <2>2. \A c \in Config : [pc |-> "lock", pod |-> p, same |-> TRUE, cfg |-> c, max |-> o] \in Waiting
    BY <2>0 DEF Waiting
  <2>3. QED
    BY <1>1, <2>1, <2>2, SMTT(40) DEF ReceiveRequest, TypeOK, podVars
<1>2. CASE AcquireLock(r)
  <2> DEFINE c == req[r].cfg
             z == ZoneOf(req[r].pod)
  <2>1. req[r] \in Waiting
    BY <1>2, ReqByPc DEF AcquireLock
  <2>2. c \in Config /\ req[r].max \in Nat /\ Pdb[c].name \in Name
    BY <2>1, ConfigAssumption, BoundAssumption DEF Waiting
  <2>3. PICK status \in 0..SpecReplicas(z) :
          LET max == limit(maxUnavailablePods(c, SpecReplicas(z), status), req[r].max)
          IN  IF DeniedOutright(c, z, max)
              THEN req' = [req EXCEPT ![r] = Idle] /\ UNCHANGED locks
              ELSE /\ req' = [req EXCEPT ![r] =
                              [pc |-> "scan", pod |-> req[r].pod, same |-> req[r].same,
                               cfg |-> c, max |-> max, scanned |-> {}, bad |-> {}]]
                   /\ locks' = [locks EXCEPT ![Pdb[c].name] = r]
    BY <1>2 DEF AcquireLock
  <2> DEFINE max == limit(maxUnavailablePods(c, SpecReplicas(z), status), req[r].max)
  <2>4. max \in Nat
    <3>1. SpecReplicas(z) \in Nat
      BY ReplicasType
    <3>2. status \in Nat
      BY <3>1, SMTT(40)
    <3>3. QED
      BY <2>2, <3>1, <3>2, LimitType
  <2>5. CASE DeniedOutright(c, z, max)
    BY <1>2, <2>3, <2>5, SMTT(40) DEF TypeOK, AcquireLock, podVars
  <2>6. CASE ~DeniedOutright(c, z, max)
    <3>1. max # 0
      BY <2>6, SMTT(40) DEF DeniedOutright
    <3>2. [pc |-> "scan", pod |-> req[r].pod, same |-> req[r].same, cfg |-> c,
           max |-> max, scanned |-> {}, bad |-> {}] \in Scanning
      BY <2>1, <2>2, <2>4, <3>1 DEF Scanning, Waiting
    <3>3. QED
      BY <1>2, <2>2, <2>3, <2>6, <3>2, Zenon DEF TypeOK, AcquireLock, podVars
  <2>7. QED
    BY <2>5, <2>6
<1>3. ASSUME NEW z \in Zone, ListPods(r, z)
      PROVE  TypeOK'
  <2>1. req[r] \in Scanning
    BY <1>3, ReqByPc DEF ListPods
  <2>2. PICK unready \in SUBSET (Zone \X Partition), ready \in SUBSET Pod :
          req' = [req EXCEPT ![r] =
                    [pc |-> "tally", pod |-> req[r].pod, same |-> req[r].same,
                     cfg |-> req[r].cfg, max |-> req[r].max, scanned |-> req[r].scanned,
                     bad |-> req[r].bad, zone |-> z, ready |-> ready, unready |-> unready]]
    <3> DEFINE missing == {p \in PodsOf(z) : state[p] = "Absent"}
               tested == {p \in PodsOf(z) \ missing : considerPod(req[r].cfg, req[r].pod, p)}
               others == {p \in tested : ~(p = req[r].pod /\ req[r].same)}
               rdy == {p \in others : ListedReady(req[r].cfg, p)}
               unr == unknownPods(req[r], z, tested, missing) \cup (others \ rdy)
    <3>1. req[r].pod \in Zone \X Partition /\ PartitionOf(req[r].pod) \in Partition
      BY <2>1, PodAssumption DEF Scanning, PartitionOf
    <3>2. rdy \in SUBSET Pod /\ missing \subseteq Pod /\ others \subseteq Pod
      BY DEF PodsOf
    <3>3. unknownPods(req[r], z, tested, missing) \in SUBSET (Zone \X Partition)
      BY <3>1, <3>2, PodAssumption DEF unknownPods
    <3>4. unr \in SUBSET (Zone \X Partition)
      BY <3>2, <3>3, PodAssumption
    <3>5. req' = [req EXCEPT ![r] =
                    [pc |-> "tally", pod |-> req[r].pod, same |-> req[r].same,
                     cfg |-> req[r].cfg, max |-> req[r].max, scanned |-> req[r].scanned,
                     bad |-> req[r].bad, zone |-> z, ready |-> rdy, unready |-> unr]]
      BY <1>3, Zenon DEF ListPods
    <3>6. QED
      BY <3>2, <3>4, <3>5, Zenon
  <2>3. [pc |-> "tally", pod |-> req[r].pod, same |-> req[r].same,
         cfg |-> req[r].cfg, max |-> req[r].max, scanned |-> req[r].scanned,
         bad |-> req[r].bad, zone |-> z, ready |-> ready, unready |-> unready] \in Tallying
    BY <2>1 DEF Scanning, Tallying
  <2>4. QED
    BY <1>3, <2>2, <2>3, ZenonT(60) DEF TypeOK, ListPods, podVars
<1>4. CASE ListFails(r)
  BY <1>4, FinishType DEF ListFails, TypeOK, podVars
<1>5. CASE Tally(r)
  <2>1. req[r] \in Tallying
    BY <1>5, ReqByPc DEF Tally
  <2>2. unavailable(req[r]) \in SUBSET (Zone \X Partition)
    BY <2>1, PodAssumption DEF Tallying, unavailable
  <2>3. [pc |-> "scan", pod |-> req[r].pod, same |-> req[r].same, cfg |-> req[r].cfg,
         max |-> req[r].max, scanned |-> req[r].scanned \cup {req[r].zone},
         bad |-> req[r].bad \cup unavailable(req[r])] \in Scanning
    BY <2>1, <2>2 DEF Scanning, Tallying
  <2>4. QED
    BY <1>5, <2>3, FinishType, Zenon DEF TypeOK, Tally, podVars
<1>6. CASE Validate(r)
  <2>1. req[r] \in Scanning
    BY <1>6, ReqByPc DEF Validate
  <2>2. Allow(req[r].pod, req[r].cfg) \in Answered
    BY <2>1 DEF Allow, Answered, Scanning
  <2>3. QED
    BY <1>6, <2>2, FinishType, Zenon DEF TypeOK, Validate, podVars, recordEviction
<1>7. QED
  BY <1>1, <1>2, <1>3, <1>4, <1>5, <1>6, SMTT(40) DEF Handler

\* The steps of the cluster keep the types.
LEMMA TypeCluster == TypeOK /\ Cluster => TypeOK'
<1> SUFFICES ASSUME TypeOK, Cluster PROVE TypeOK'
  OBVIOUS
<1>1. ASSUME NEW r \in Req, ActOnEviction(r) PROVE TypeOK'
  <2>1. req[r] \in Answered
    BY <1>1, ReqByPc, SMTT(40) DEF ActOnEviction
  <2>2. state' \in [Pod -> PodState] /\ evq' \in [Pod -> Seq(Event)]
    BY <1>1, <2>1, BecomeType DEF ActOnEviction, TypeOK, PodState, Event, Answered
  <2>3. QED
    BY <1>1, <2>1, <2>2, ZenonT(60) DEF ActOnEviction, TypeOK, Answered
<1>2. ASSUME NEW r \in Req, DropEviction(r) PROVE TypeOK'
  BY <1>2 DEF DropEviction, TypeOK, podVars
<1>3. ASSUME NEW p \in Pod, PodCreated(p) PROVE TypeOK'
  <2>1. state' \in [Pod -> PodState] /\ evq' \in [Pod -> Seq(Event)]
    BY <1>3, BecomeType DEF PodCreated, PodState, Event
  <2>2. ASSUME NEW r \in Req, req[r].pc \in {"lock", "scan", "tally"}
        PROVE  [req[r] EXCEPT !.same = FALSE] \in Waiting \cup Scanning \cup Tallying
    <3>1. CASE req[r] \in Waiting
      BY <3>1, Zenon DEF Waiting
    <3>2. CASE req[r] \in Scanning
      BY <3>2, Zenon DEF Scanning
    <3>3. CASE req[r] \in Tallying
      BY <3>3, Zenon DEF Tallying
    <3>4. QED
      BY <2>2, <3>1, <3>2, <3>3, ReqByPc
  <2>3. req' \in [Req -> {Idle} \cup Waiting \cup Scanning \cup Tallying \cup Answered]
    BY <1>3, <2>2, SMTT(40) DEF PodCreated, TypeOK
  <2>4. QED
    BY <1>3, <2>1, <2>3, SMTT(40) DEF PodCreated, TypeOK
<1>4. ASSUME NEW p \in Pod, PodStarted(p) PROVE TypeOK'
  BY <1>4, BecomeType DEF PodStarted, TypeOK, PodState, Event
<1>5. ASSUME NEW p \in Pod, PodReady(p) PROVE TypeOK'
  <2>1. state' \in [Pod -> PodState] /\ evq' \in [Pod -> Seq(Event)]
    BY <1>5, BecomeType DEF PodReady, PodState, Event
  <2>2. QED
    BY <1>5, <2>1, Zenon DEF PodReady, TypeOK
<1>6. ASSUME NEW p \in Pod, PodSettled(p) PROVE TypeOK'
  BY <1>6 DEF PodSettled, TypeOK, PodState
<1>7. ASSUME NEW p \in Pod, PodDisrupted(p) PROVE TypeOK'
  <2>1. state' \in [Pod -> PodState] /\ evq' \in [Pod -> Seq(Event)]
    BY <1>7, BecomeType DEF PodDisrupted, PodState, Event
  <2>2. QED
    BY <1>7, <2>1, SMTT(40) DEF PodDisrupted, TypeOK
<1>8. ASSUME NEW p \in Pod, PodRemoved(p) PROVE TypeOK'
  <2>1. state' \in [Pod -> PodState] /\ evq' \in [Pod -> Seq(Event)]
    BY <1>8, BecomeType DEF PodRemoved, PodState, Event
  <2>2. QED
    BY <1>8, <2>1, SMTT(40) DEF PodRemoved, TypeOK
<1>9. QED
  BY <1>1, <1>2, <1>3, <1>4, <1>5, <1>6, <1>7, <1>8, SMTT(40) DEF Cluster

\* Informer events, expiries, configuration changes and restarts keep the types.
LEMMA TypeRest ==
    ASSUME TypeOK, Informer \/ ConfigChange \/ Restart \/ UNCHANGED vars
    PROVE  TypeOK'
<1>1. ASSUME NEW p \in Pod, DeliverEvent(p) \/ Relist(p) PROVE TypeOK'
  <2>1. \A e : invalidatePodEvictionCache(p, e) \in [Pod -> BOOLEAN]
    BY DEF invalidatePodEvictionCache, TypeOK
  <2>2. pending' \in [Pod -> BOOLEAN]
    BY <1>1, <2>1 DEF DeliverEvent, Relist
  <2>3. evq' \in [Pod -> Seq(Event)]
    <3>1. CASE DeliverEvent(p)
      <4>1. evq[p] \in Seq(Event) /\ evq[p] # <<>>
        BY <3>1 DEF DeliverEvent, TypeOK
      <4>2. Tail(evq[p]) \in Seq(Event)
        BY <4>1
      <4>3. QED
        BY <3>1, <4>2 DEF DeliverEvent, TypeOK
    <3>2. CASE Relist(p)
      BY <3>2 DEF Relist, TypeOK
    <3>3. QED
      BY <1>1, <3>1, <3>2, SMTT(40)
  <2>4. QED
    BY <1>1, <2>2, <2>3 DEF DeliverEvent, Relist, TypeOK
<1>2. ASSUME NEW p \in Pod, ExpireEntry(p) PROVE TypeOK'
  BY <1>2 DEF ExpireEntry, TypeOK, podVars
<1>3. CASE ConfigChange
  BY <1>3 DEF ConfigChange, TypeOK, podVars
<1>4. CASE Restart
  BY <1>4 DEF Restart, TypeOK
<1>5. CASE UNCHANGED vars
  BY <1>5 DEF vars, TypeOK
<1>6. QED
  BY <1>1, <1>2, <1>3, <1>4, <1>5, SMTT(40) DEF Informer

\* Every variable of the eviction webhook model keeps its type: in particular
\* a handler only evaluates a budget with a positive limit.
THEOREM TypeCorrect == Spec => []TypeOK
<1>1. TypeOK /\ [Next]_vars => TypeOK'
  BY TypeHandler, TypeCluster, TypeRest DEF Next
<1>2. QED
  BY TypeInit, <1>1, PTL DEF Spec

-----------------------------------------------------------------------------
(* How a step can change the local state of one handler, the mutexes and   *)
(* the set of disrupted pods.                                              *)

\* Handler r ends with a recorded permission.
Grant(r) == Validate(r) /\ ~maxReached(req[r])

\* Handler r keeps evaluating; at most the uid comparison changes.
SameEval(r) ==
    /\ Evaluating(r)
    /\ req'[r] = req[r] \/ req'[r] = [req[r] EXCEPT !.same = FALSE]

\* A step that is not one of r's own leaves r alone, forgets it (restart) or
\* changes the outcome of its uid comparison.
LEMMA StepOfOthers ==
    ASSUME TypeOK, [Next]_vars, NEW r \in Req
    PROVE  \/ Handler(r) \/ ActOnEviction(r) \/ DropEviction(r)
           \/ req'[r] = req[r] \/ req'[r] = Idle
           \/ /\ req[r].pc \in {"lock", "scan", "tally"}
              /\ req'[r] = [req[r] EXCEPT !.same = FALSE]
<1>1. ASSUME NEW s \in Req, Handler(s), s # r PROVE req'[r] = req[r]
  BY <1>1, Zenon DEF Handler, ReceiveRequest, AcquireLock, ListPods, ListFails, Tally, Validate, Finish, TypeOK
<1>2. ASSUME NEW s \in Req, ActOnEviction(s) \/ DropEviction(s), s # r PROVE req'[r] = req[r]
  BY <1>2 DEF ActOnEviction, DropEviction, TypeOK
<1>3. ASSUME NEW p \in Pod, PodCreated(p)
      PROVE  \/ req'[r] = req[r]
             \/ /\ req[r].pc \in {"lock", "scan", "tally"}
                /\ req'[r] = [req[r] EXCEPT !.same = FALSE]
  BY <1>3, SMTT(40) DEF PodCreated
<1>4. ASSUME NEW p \in Pod, PodStarted(p) \/ PodReady(p) \/ PodSettled(p) \/ PodDisrupted(p) \/ PodRemoved(p)
      PROVE  req' = req
  BY <1>4 DEF PodStarted, PodReady, PodSettled, PodDisrupted, PodRemoved
<1>5. ASSUME Informer \/ ConfigChange \/ UNCHANGED vars PROVE req' = req
  BY <1>5 DEF Informer, DeliverEvent, Relist, ExpireEntry, ConfigChange, vars
<1>6. CASE Restart
  BY <1>6 DEF Restart
<1>7. QED
  BY <1>1, <1>2, <1>3, <1>4, <1>5, <1>6, Zenon DEF Next, Cluster

\* A handler that evaluates a budget after a step has just taken the mutex,
\* listed or tallied a zone, or was evaluating it before.
LEMMA EvalStep ==
    ASSUME TypeOK, [Next]_vars, NEW r \in Req, Evaluating(r)'
    PROVE  AcquireLock(r) \/ (\E z \in Zone : ListPods(r, z)) \/ Tally(r) \/ SameEval(r)
<1>1. ASSUME NEW p \in Target, NEW o \in 0..MaxOverride, ReceiveRequest(r, p, o) PROVE FALSE
  BY <1>1 DEF ReceiveRequest, Evaluating, Allow, TypeOK
<1>2. CASE ListFails(r)
  BY <1>2, SMTT(40) DEF ListFails, Finish, Evaluating, Idle, TypeOK
<1>3. CASE Validate(r)
  BY <1>3, SMTT(40) DEF Validate, Finish, Evaluating, Idle, Allow, TypeOK
<1>4. CASE ActOnEviction(r) \/ DropEviction(r)
  BY <1>4 DEF ActOnEviction, DropEviction, Evaluating, Idle, TypeOK
<1>5. CASE req'[r] = req[r]
  BY <1>5, SMTT(40) DEF SameEval, Evaluating
<1>6. CASE req'[r] = Idle
  BY <1>6 DEF Idle, Evaluating
<1>7. CASE req[r].pc \in {"lock", "scan", "tally"} /\ req'[r] = [req[r] EXCEPT !.same = FALSE]
  <2>1. req'[r].pc = req[r].pc
    BY <1>7, ReqByPc DEF Waiting, Scanning, Tallying
  <2>2. QED
    BY <1>7, <2>1 DEF SameEval, Evaluating
<1>8. QED
  BY <1>1, <1>2, <1>3, <1>4, <1>5, <1>6, <1>7, StepOfOthers, SMTT(40) DEF Handler

\* What stays the same in the local state under SameEval.
LEMMA SameFields ==
    ASSUME TypeOK, NEW r \in Req, SameEval(r)
    PROVE  /\ req'[r].pc = req[r].pc /\ req'[r].pod = req[r].pod /\ req'[r].cfg = req[r].cfg
           /\ req'[r].max = req[r].max /\ req'[r].scanned = req[r].scanned
           /\ req'[r].bad = req[r].bad
           /\ req[r].pc = "tally" => /\ req'[r].zone = req[r].zone
                                     /\ req'[r].unready = req[r].unready
                                     /\ req'[r].ready = req[r].ready
BY ReqByPc DEF SameEval, Evaluating, Scanning, Tallying

\* An answered permission under budget c was there before or is granted now.
LEMMA AllowedStep ==
    ASSUME TypeOK, [Next]_vars, NEW c \in Config, NEW r \in Req,
           req'[r].pc = "allowed", req'[r].cfg = c
    PROVE  \/ req'[r] = req[r]
           \/ Grant(r) /\ req[r].cfg = c /\ req[r].pod = req'[r].pod
<1>1. ASSUME NEW q \in Target, NEW o \in 0..MaxOverride, ReceiveRequest(r, q, o) PROVE FALSE
  BY <1>1, ConfigAssumption, SMTT(40) DEF ReceiveRequest, Allow, TypeOK
<1>2. CASE AcquireLock(r)
  BY <1>2, SMTT(40) DEF AcquireLock, Idle, TypeOK
<1>3. ASSUME NEW z \in Zone, ListPods(r, z) PROVE FALSE
  BY <1>3, SMTT(40) DEF ListPods, TypeOK
<1>4. CASE ListFails(r) \/ Tally(r)
  BY <1>4, SMTT(40) DEF ListFails, Tally, Finish, Idle, TypeOK
<1>5. CASE Validate(r)
  BY <1>5, SMTT(40) DEF Validate, Finish, Idle, Allow, TypeOK, Grant
<1>6. CASE ActOnEviction(r) \/ DropEviction(r) \/ req'[r] = Idle
  BY <1>6 DEF ActOnEviction, DropEviction, Idle, TypeOK
<1>7. CASE req[r].pc \in {"lock", "scan", "tally"} /\ req'[r] = [req[r] EXCEPT !.same = FALSE]
  BY <1>7, ReqByPc, SMTT(40) DEF Waiting, Scanning, Tallying
<1>8. QED
  BY <1>1, <1>2, <1>3, <1>4, <1>5, <1>6, <1>7, StepOfOthers, SMTT(40) DEF Handler

\* The set of pods disrupted under a budget grows by grants only.
LEMMA DisruptedGrows ==
    ASSUME TypeOK, [Next]_vars, NEW c \in Config, NEW p \in Disrupted(c)'
    PROVE  \/ p \in Disrupted(c)
           \/ \E r \in Req : Grant(r) /\ req[r].cfg = c /\ req[r].pod = p
<1>1. p \in Pod
  BY DEF Disrupted
<1>2. CASE c \in downBy'[p]
  <2>1. CASE c \in downBy[p]
    BY <1>1, <2>1, SMTT(40) DEF Disrupted
  <2>2. CASE \E r \in Req : ActOnEviction(r)
    BY <1>1, <1>2, <2>1, <2>2, SMTT(40) DEF ActOnEviction, TypeOK, Disrupted
  <2>3. CASE (\E r \in Req : Handler(r) \/ DropEviction(r)) \/ Informer \/ ConfigChange \/ Restart \/ UNCHANGED vars
    BY <1>2, <2>1, <2>3, ZenonT(60) DEF Handler, ReceiveRequest, AcquireLock, ListPods, ListFails, Tally, Validate,
         DropEviction, Informer, DeliverEvent, Relist, ExpireEntry, ConfigChange, Restart, vars, podVars, Disrupted
  <2>4. ASSUME NEW q \in Pod, PodCreated(q) \/ PodStarted(q) \/ PodDisrupted(q) \/ PodRemoved(q)
        PROVE  p \in Disrupted(c)
    BY <1>1, <1>2, <2>4 DEF PodCreated, PodStarted, PodDisrupted, PodRemoved, Disrupted
  <2>5. ASSUME NEW q \in Pod, PodReady(q) \/ PodSettled(q) PROVE p \in Disrupted(c)
    BY <1>1, <1>2, <2>5 DEF PodReady, PodSettled, Disrupted, TypeOK
  <2>6. QED
    BY <2>2, <2>3, <2>4, <2>5, SMTT(40) DEF Next, Cluster
<1>3. QED
  BY <1>1, <1>2, AllowedStep DEF Disrupted

-----------------------------------------------------------------------------
(* The mutex and the visibility of evictions.                              *)

\* A mutex held by a handler that goes on evaluating stays with it.
LEMMA LockStays ==
    ASSUME TypeOK, [Next]_vars, NEW r \in Req, SameEval(r), NEW n \in Name, locks[n] = r
    PROVE  locks'[n] = r \/ req'[r] = Idle
<1>1. ASSUME NEW s \in Req, Finish(s, Idle) \/ (\E p, c : Finish(s, Allow(p, c)))
      PROVE  locks'[n] = r
  <2>1. s # r
    BY <1>1, SameFields, SMTT(40) DEF Finish, Idle, Allow, SameEval, Evaluating, TypeOK
  <2>2. QED
    BY <1>1, <2>1 DEF Finish
<1>2. ASSUME NEW s \in Req, Handler(s) PROVE locks'[n] = r
  <2>1. CASE AcquireLock(s)
    BY <2>1, ReqAssumption, SMTT(40) DEF AcquireLock, TypeOK
  <2>2. CASE ListFails(s) \/ Tally(s) \/ Validate(s)
    BY <1>1, <2>2, SMTT(40) DEF ListFails, Tally, Validate
  <2>3. QED
    BY <1>2, <2>1, <2>2, SMTT(40) DEF Handler, ReceiveRequest, ListPods
<1>3. CASE Cluster \/ Informer \/ ConfigChange \/ UNCHANGED vars
  BY <1>3 DEF Cluster, ActOnEviction, DropEviction, PodCreated, PodStarted, PodReady, PodSettled, PodDisrupted,
       PodRemoved, Informer, DeliverEvent, Relist, ExpireEntry, ConfigChange, vars
<1>4. CASE Restart
  BY <1>4, SMTT(40) DEF Restart, SameEval, Evaluating
<1>5. QED
  BY <1>2, <1>3, <1>4 DEF Next

\* Evaluation happens under the mutex of the evaluated budget, always.
LEMMA LockHeldStep ==
    ASSUME TypeOK, LockHeld, [Next]_vars
    PROVE  LockHeld'
<1> SUFFICES ASSUME NEW r \in Req, Evaluating(r)' PROVE (locks[Pdb[req[r].cfg].name] = r)'
  BY SMTT(40) DEF LockHeld
<1>1. CASE AcquireLock(r)
  <2>1. req[r] \in Waiting
    BY <1>1, ReqByPc, SMTT(40) DEF AcquireLock
  <2>2. req[r].cfg \in Config /\ Pdb[req[r].cfg].name \in Name
    BY <2>1, ConfigAssumption, SMTT(40) DEF Waiting
  <2>3. locks' = [locks EXCEPT ![Pdb[req[r].cfg].name] = r] /\ req'[r].cfg = req[r].cfg
    BY <1>1, SMTT(40) DEF AcquireLock, TypeOK, Evaluating, Idle
  <2>4. QED
    BY <2>2, <2>3, SMTT(40) DEF TypeOK
<1>2. ASSUME NEW z \in Zone, ListPods(r, z) PROVE (locks[Pdb[req[r].cfg].name] = r)'
  BY <1>2, SMTT(40) DEF ListPods, TypeOK, LockHeld, Evaluating
<1>3. CASE Tally(r)
  BY <1>3, SMTT(40) DEF Tally, Finish, TypeOK, LockHeld, Evaluating, Idle
<1>4. CASE SameEval(r)
  <2>1. req[r].cfg \in Config /\ Pdb[req[r].cfg].name \in Name
    BY <1>4, ReqByPc, ConfigAssumption, SMTT(40) DEF SameEval, Evaluating, Scanning, Tallying
  <2>2. locks[Pdb[req[r].cfg].name] = r
    BY <1>4, SMTT(40) DEF LockHeld, SameEval
  <2>3. req'[r] # Idle
    BY SMTT(40) DEF Evaluating, Idle
  <2>4. QED
    BY <1>4, <2>1, <2>2, <2>3, LockStays, SameFields, SMTT(40)
<1>5. QED
  BY <1>1, <1>2, <1>3, <1>4, EvalStep, SMTT(40)

\* While r evaluates budget c no other handler is granted an eviction under c.
LEMMA NoOtherGrant ==
    ASSUME TypeOK, LockHeld, NEW r \in Req, Evaluating(r), NEW s \in Req, Grant(s),
           req[s].cfg = req[r].cfg
    PROVE  s = r
BY DEF LockHeld, Grant, Validate, Evaluating

\* Where the elements of the tail of an event queue come from.
LEMMA TailIndex ==
    ASSUME NEW s \in Seq(Event), s # <<>>, NEW i \in 1..Len(Tail(s))
    PROVE  i + 1 \in 1..Len(s) /\ Tail(s)[i] = s[i + 1]
<1>1. Len(s) \in Nat /\ Len(s) # 0
  OBVIOUS
<1>2. Tail(s) \in Seq(Event) /\ Len(Tail(s)) = Len(s) - 1
  BY <1>1
<1>3. i \in Nat /\ 1 <= i /\ i <= Len(s) - 1
  BY <1>2
<1>4. i + 1 \in 1..Len(s)
  BY <1>1, <1>3, SMTT(40)
<1>5. QED
  BY <1>1, <1>2, <1>3, <1>4

\* Start-up events precede readiness and the queue is first in, first out.
LEMMA NoStaleEventStep ==
    ASSUME TypeOK, InformerPrompt, NoStaleEvent, [Next]_vars
    PROVE  NoStaleEvent'
<1> DEFINE Fresh(q) == \A i \in 1..Len(q) : q[i] # "NotRunning"
<1> SUFFICES ASSUME NEW p \in Pod, IsPodRunningAndReady(p)' PROVE Fresh(evq'[p])
  BY DEF NoStaleEvent
<1>1. evq[p] \in Seq(Event) /\ (IsPodRunningAndReady(p) => Fresh(evq[p]))
  BY SMTT(40) DEF TypeOK, NoStaleEvent
<1>2. CASE state' = state /\ evq' = evq
  BY <1>1, <1>2 DEF IsPodRunningAndReady
<1>3. ASSUME NEW q \in Pod, NEW s \in PodState \ {"Ready", "Settled"}, NEW e, Become(q, s, e)
      PROVE  Fresh(evq'[p])
  <2>1. p # q
    BY <1>3 DEF Become, IsPodRunningAndReady, TypeOK
  <2>2. state'[p] = state[p] /\ evq'[p] = evq[p]
    BY <1>3, <2>1, SMTT(40) DEF Become, Emit, TypeOK
  <2>3. QED
    BY <1>1, <2>2 DEF IsPodRunningAndReady
<1>4. ASSUME NEW r \in Req, ActOnEviction(r) PROVE Fresh(evq'[p])
  <2>1. req[r].pod \in Pod
    BY <1>4, ReqByPc DEF ActOnEviction, Answered
  <2>2. QED
    BY <1>2, <1>3, <1>4, <2>1, SMTT(40) DEF ActOnEviction, PodState
<1>5. ASSUME NEW q \in Pod, PodCreated(q) \/ PodStarted(q) \/ PodDisrupted(q) \/ PodRemoved(q)
      PROVE  Fresh(evq'[p])
  BY <1>3, <1>5 DEF PodCreated, PodStarted, PodDisrupted, PodRemoved, PodState
<1>6. ASSUME NEW q \in Pod, PodReady(q) PROVE Fresh(evq'[p])
  <2>1. CASE p = q
    <3>1. Fresh(evq[p]) /\ evq'[p] = Append(evq[p], "Running")
      BY <1>6, <2>1, SMTT(40) DEF PodReady, Become, Emit, TypeOK
    <3>2. QED
      BY <1>1, <3>1, SMTT(40)
  <2>2. CASE p # q
    BY <1>1, <1>6, <2>2, SMTT(40) DEF PodReady, Become, Emit, TypeOK, IsPodRunningAndReady
  <2>3. QED
    BY <2>1, <2>2
<1>7. ASSUME NEW q \in Pod, PodSettled(q) PROVE Fresh(evq'[p])
  BY <1>1, <1>7 DEF PodSettled, TypeOK, IsPodRunningAndReady
<1>8. ASSUME NEW q \in Pod, DeliverEvent(q) PROVE Fresh(evq'[p])
  <2>1. Fresh(evq[p]) /\ (evq'[p] = evq[p] \/ (evq[p] # <<>> /\ evq'[p] = Tail(evq[p])))
    BY <1>1, <1>8, SMTT(40) DEF DeliverEvent, TypeOK, IsPodRunningAndReady
  <2>2. ASSUME evq[p] # <<>>, NEW i \in 1..Len(Tail(evq[p]))
        PROVE  Tail(evq[p])[i] # "NotRunning"
    <3>1. i + 1 \in 1..Len(evq[p]) /\ Tail(evq[p])[i] = evq[p][i + 1]
      BY <1>1, <2>2, TailIndex, SMTT(40)
    <3>2. QED
      BY <2>1, <3>1, SMTT(40)
  <2>3. QED
    BY <2>1, <2>2, Zenon
<1>9. ASSUME NEW q \in Pod, Relist(q) PROVE Fresh(evq'[p])
  BY <1>1, <1>9, SMTT(40) DEF Relist, TypeOK, IsPodRunningAndReady
<1>10. CASE Restart
  BY <1>10, SMTT(40) DEF Restart
<1>11. CASE (\E r \in Req : Handler(r) \/ DropEviction(r)) \/ ConfigChange \/ UNCHANGED vars
  BY <1>2, <1>11, ZenonT(60) DEF Handler, ReceiveRequest, AcquireLock, ListPods, ListFails, Tally, Validate,
       DropEviction, ConfigChange, vars, podVars
<1>12. ASSUME NEW q \in Pod, ExpireEntry(q) PROVE Fresh(evq'[p])
  BY <1>2, <1>12 DEF ExpireEntry, podVars
<1>13. QED
  BY <1>4, <1>5, <1>6, <1>7, <1>8, <1>9, <1>10, <1>11, <1>12, SMTT(40) DEF Next, Cluster, Informer

\* A pod taken by an eviction stays unready until it counts as back.
LEMMA DownNotReadyStep ==
    ASSUME TypeOK, DownNotReady, [Next]_vars
    PROVE  DownNotReady'
<1> SUFFICES ASSUME NEW p \in Pod, NEW c \in downBy'[p] PROVE ~ListedReady(c, p)'
  BY DEF DownNotReady
<1>1. c \in downBy[p] => ~ListedReady(c, p)
  BY DEF DownNotReady
<1>2. CASE state' = state /\ downBy' = downBy
  BY <1>1, <1>2 DEF ListedReady, IsPodRunningAndReady
<1>3. CASE state'[p] \notin {"Ready", "Settled"}
  BY <1>3 DEF ListedReady, IsPodRunningAndReady
<1>4. ASSUME NEW r \in Req, ActOnEviction(r) PROVE ~ListedReady(c, p)'
  <2>1. req[r].pod \in Pod
    BY <1>4, ReqByPc DEF ActOnEviction, Answered
  <2>2. CASE req[r].pod = p
    <3>1. state'[p] \notin {"Ready", "Settled"}
      BY <1>4, <2>2, SMTT(40) DEF ActOnEviction, Become, TypeOK
    <3>2. QED
      BY <1>3, <3>1, SMTT(40)
  <2>3. CASE req[r].pod # p
    <3>1. state'[p] = state[p] /\ downBy'[p] = downBy[p]
      BY <1>4, <2>1, <2>3, SMTT(40) DEF ActOnEviction, Become, TypeOK
    <3>2. QED
      BY <1>1, <3>1, SMTT(40) DEF ListedReady, IsPodRunningAndReady
  <2>4. QED
    BY <2>2, <2>3, SMTT(40)
<1>5. ASSUME NEW q \in Pod, PodCreated(q) \/ PodStarted(q) \/ PodDisrupted(q) \/ PodRemoved(q)
      PROVE  ~ListedReady(c, p)'
  <2>1. downBy' = downBy
    BY <1>5 DEF PodCreated, PodStarted, PodDisrupted, PodRemoved
  <2>2. state'[p] = state[p] \/ state'[p] \notin {"Ready", "Settled"}
    BY <1>5, SMTT(40) DEF PodCreated, PodStarted, PodDisrupted, PodRemoved, Become, TypeOK
  <2>3. QED
    BY <1>1, <1>3, <2>1, <2>2 DEF ListedReady, IsPodRunningAndReady
<1>6. ASSUME NEW q \in Pod, PodReady(q) PROVE ~ListedReady(c, p)'
  BY <1>1, <1>6, SMTT(40) DEF PodReady, Become, TypeOK, ListedReady, IsPodRunningAndReady
<1>7. ASSUME NEW q \in Pod, PodSettled(q) PROVE ~ListedReady(c, p)'
  BY <1>1, <1>7, SMTT(40) DEF PodSettled, TypeOK, ListedReady, IsPodRunningAndReady
<1>8. CASE (\E r \in Req : Handler(r) \/ DropEviction(r)) \/ ConfigChange \/ Informer \/ Restart \/ UNCHANGED vars
  BY <1>2, <1>8, ZenonT(60) DEF Handler, ReceiveRequest, AcquireLock, ListPods, ListFails, Tally, Validate, DropEviction,
       ConfigChange, Informer, DeliverEvent, Relist, ExpireEntry, Restart, vars, podVars
<1>9. QED
  BY <1>4, <1>5, <1>6, <1>7, <1>8, ZenonT(60) DEF Next, Cluster

\* A pod becomes ready for a budget by its own start-up steps only.
LEMMA ReadyStep ==
    ASSUME TypeOK, [Next]_vars, NEW c \in Config, NEW p \in Pod, ListedReady(c, p)'
    PROVE  ListedReady(c, p) \/ PodReady(p) \/ PodSettled(p)
<1>1. CASE state'[p] = state[p]
  BY <1>1 DEF ListedReady, IsPodRunningAndReady
<1>2. state'[p] \in {"Ready", "Settled"}
  BY DEF ListedReady, IsPodRunningAndReady
<1>3. ASSUME NEW q \in Pod, NEW s \in PodState \ {"Ready", "Settled"}, NEW e, Become(q, s, e)
      PROVE  state'[p] = state[p]
  BY <1>2, <1>3, SMTT(40) DEF Become, TypeOK
<1>4. ASSUME NEW r \in Req, ActOnEviction(r) PROVE state'[p] = state[p]
  <2>1. req[r].pod \in Pod
    BY <1>4, ReqByPc DEF ActOnEviction, Answered
  <2>2. QED
    BY <1>3, <1>4, <2>1, SMTT(40) DEF ActOnEviction, PodState
<1>5. ASSUME NEW q \in Pod, PodCreated(q) \/ PodStarted(q) \/ PodDisrupted(q) \/ PodRemoved(q)
      PROVE  state'[p] = state[p]
  BY <1>3, <1>5, SMTT(40) DEF PodCreated, PodStarted, PodDisrupted, PodRemoved, PodState
<1>6. ASSUME NEW q \in Pod, PodReady(q) \/ PodSettled(q), q # p PROVE state'[p] = state[p]
  BY <1>6, SMTT(40) DEF PodReady, PodSettled, Become, TypeOK
<1>7. CASE (\E r \in Req : Handler(r) \/ DropEviction(r)) \/ ConfigChange \/ Informer \/ Restart \/ UNCHANGED vars
  BY <1>1, <1>7, ZenonT(60) DEF Handler, ReceiveRequest, AcquireLock, ListPods, ListFails, Tally, Validate, DropEviction,
       ConfigChange, Informer, DeliverEvent, Relist, ExpireEntry, Restart, vars, podVars
<1>8. QED
  BY <1>1, <1>4, <1>5, <1>6, <1>7, ZenonT(60) DEF Next, Cluster

\* A cache entry goes away with an event that says the pod is not running,
\* when it expires, or with the process.
LEMMA PendingStep ==
    ASSUME TypeOK, [Next]_vars, NEW p \in Pod, pending[p], ~pending'[p]
    PROVE  \/ DeliverEvent(p) /\ Head(evq[p]) = "NotRunning"
           \/ Relist(p) /\ LatestEvent(p) = "NotRunning"
           \/ ExpireEntry(p) \/ Restart
<1>1. ASSUME NEW r \in Req, Handler(r) PROVE FALSE
  BY <1>1, Zenon DEF Handler, ReceiveRequest, AcquireLock, ListPods, ListFails, Tally, Validate, recordEviction, TypeOK
<1>2. CASE Cluster \/ ConfigChange \/ UNCHANGED vars
  BY <1>2 DEF Cluster, ActOnEviction, DropEviction, PodCreated, PodStarted, PodReady, PodSettled, PodDisrupted,
       PodRemoved, ConfigChange, vars
<1>3. ASSUME NEW q \in Pod, NEW e, pending' = invalidatePodEvictionCache(q, e)
      PROVE  q = p /\ e = "NotRunning"
  BY <1>3, SMTT(40) DEF invalidatePodEvictionCache, TypeOK
<1>4. ASSUME NEW q \in Pod, ExpireEntry(q) PROVE q = p
  BY <1>4, SMTT(40) DEF ExpireEntry, TypeOK
<1>5. QED
  BY <1>1, <1>2, <1>3, <1>4, ZenonT(60) DEF Next, Informer, DeliverEvent, Relist

\* An allowed eviction is in the cache or visible in the live pod.
LEMMA EvictionVisibleStep ==
    ASSUME TypeOK, InformerPrompt, ApiPrompt, NoStaleEvent, DownNotReady', EvictionVisible, [Next]_vars
    PROVE  EvictionVisible'
<1> SUFFICES ASSUME NEW c \in Config, NEW p \in Disrupted(c)'
             PROVE  pending'[p] \/ ~ListedReady(c, p)'
  BY DEF EvictionVisible
<1>1. p \in Pod
  BY SMTT(40) DEF Disrupted
<1>2. CASE c \in downBy'[p]
  BY <1>1, <1>2, SMTT(40) DEF DownNotReady
<1>3. ASSUME NEW r \in Req, req'[r].pc = "allowed", req'[r].pod = p, req'[r].cfg = c
      PROVE  pending'[p] \/ ~ListedReady(c, p)'
  <2>1. CASE Grant(r) /\ req[r].pod = p
    BY <1>1, <2>1, SMTT(40) DEF Grant, Validate, recordEviction, TypeOK
  <2>2. CASE req'[r] = req[r]
    <3>1. InFlight(p) /\ (\E s \in Pod : InFlight(s))
      BY <1>1, <1>3, <2>2, ConfigAssumption, SMTT(40) DEF InFlight
    <3>2. pending[p] \/ ~ListedReady(c, p)
      BY <1>1, <1>3, <2>2, SMTT(40) DEF EvictionVisible, Disrupted
    <3>3. CASE ~ListedReady(c, p)
      <4>1. ~PodReady(p) /\ ~PodSettled(p)
        BY <3>1, SMTT(40) DEF PodReady, PodSettled
      <4>2. QED
        BY <1>1, <3>3, <4>1, ReadyStep, ZenonT(60)
    <3>4. CASE pending[p] /\ ~pending'[p]
      <4>1. \/ DeliverEvent(p) /\ Head(evq[p]) = "NotRunning"
            \/ Relist(p) /\ LatestEvent(p) = "NotRunning"
        <5>1. ~ExpireEntry(p)
          BY <3>1, SMTT(40) DEF ExpireEntry
        <5>2. ~Restart
          BY <3>1 DEF Restart
        <5>3. QED
          BY <1>1, <3>4, <5>1, <5>2, PendingStep, SMTT(40)
      <4>2. ~IsPodRunningAndReady(p)
        <5>1. CASE Relist(p) /\ LatestEvent(p) = "NotRunning"
          BY <5>1, SMTT(40) DEF LatestEvent, IsPodRunningAndReady
        <5>2. CASE DeliverEvent(p) /\ Head(evq[p]) = "NotRunning"
          <6>1. evq[p] \in Seq(Event) /\ evq[p] # <<>>
            BY <1>1, <5>2, SMTT(40) DEF DeliverEvent, TypeOK
          <6>2. 1 \in 1..Len(evq[p]) /\ evq[p][1] = "NotRunning"
            BY <5>2, <6>1, SMTT(40)
          <6>3. QED
            BY <1>1, <6>2, SMTT(40) DEF NoStaleEvent
        <5>3. QED
          BY <4>1, <5>1, <5>2, SMTT(40)
      <4>3. state' = state
        BY <4>1 DEF DeliverEvent, Relist
      <4>4. QED
        BY <4>2, <4>3, SMTT(40) DEF ListedReady, IsPodRunningAndReady
    <3>5. QED
      BY <3>2, <3>3, <3>4, SMTT(40)
  <2>3. QED
    BY <1>3, <2>1, <2>2, AllowedStep, SMTT(40)
<1>4. QED
  BY <1>2, <1>3, ZenonT(60) DEF Disrupted

-----------------------------------------------------------------------------
(* The limits, and what a handler has counted when it decides.             *)

\* Multiplication by a natural number is monotone.
LEMMA ProductMonotone ==
    ASSUME NEW k \in Nat, NEW m \in Nat, NEW n \in Nat, m <= n
    PROVE  k * m <= k * n
<1>1. PICK d \in Nat : n = m + d
  <2>1. n - m \in Nat /\ n = m + (n - m)
    OBVIOUS
  <2>2. QED
    BY <2>1
<1>2. k * n = k * m + k * d
  BY <1>1
<1>3. k * d \in Nat /\ k * m \in Nat
  BY <1>1, SMTT(40)
<1>4. QED
  BY <1>2, <1>3

\* The status of a StatefulSet can only lower the limit of a request.
LEMMA LimitWithinBudget ==
    ASSUME NEW c \in Config, NEW z, NEW status \in 0..SpecReplicas(z), NEW o \in 0..MaxOverride
    PROVE  limit(maxUnavailablePods(c, SpecReplicas(z), status), o) <= Budget(c, z)
<1> DEFINE spec == SpecReplicas(z)
           pct == Pdb[c].pct
<1>1. spec \in Nat
  BY ReplicasType
<1>2. status \in Nat /\ status <= spec
  BY <1>1
<1>3. pct \in Nat /\ Pdb[c].max \in Nat /\ o \in Nat /\ MaxOverride \in Nat /\ o <= MaxOverride
  BY ConfigAssumption, BoundAssumption, SMTT(40)
<1>4. pct * status <= pct * spec /\ pct * status \in Nat /\ pct * spec \in Nat
  BY <1>1, <1>2, <1>3, ProductMonotone, SMTT(40)
<1>5. PercentageOf(pct, status) \in Nat /\ PercentageOf(pct, spec) \in Nat
      /\ PercentageOf(pct, status) <= PercentageOf(pct, spec)
  <2> HIDE DEF pct, spec
  <2>1. (pct * status) \div 100 <= (pct * spec) \div 100
        /\ (pct * status) \div 100 \in Nat /\ (pct * spec) \div 100 \in Nat
    BY <1>4, SMTT(40)
  <2>2. QED
    BY <2>1 DEF PercentageOf
<1>6. /\ maxUnavailablePods(c, spec, status) \in Nat
      /\ maxUnavailablePods(c, spec, spec) \in Nat
      /\ maxUnavailablePods(c, spec, status) <= maxUnavailablePods(c, spec, spec)
  BY <1>1, <1>2, <1>3, <1>5, SMTT(40) DEF maxUnavailablePods
<1>7. Pdb[c].max > 0 => /\ maxUnavailablePods(c, spec, status) = Pdb[c].max
                        /\ maxUnavailablePods(c, spec, spec) = Pdb[c].max
  BY SMTT(40) DEF maxUnavailablePods
<1>8. QED
  BY <1>3, <1>6, <1>7 DEF limit, Budget

\* The largest limit under a budget is a natural number.
LEMMA BudgetType == ASSUME NEW c \in Config, NEW z PROVE Budget(c, z) \in Nat
BY LimitType, ReplicasType, BoundAssumption, SMTT(40) DEF Budget

\* Only pods of a budget's zones are decided and evicted under it.
LEMMA InBudgetZonesStep ==
    ASSUME TypeOK, InBudgetZones, [Next]_vars
    PROVE  InBudgetZones'
<1>1. ASSUME NEW r \in Req, Evaluating(r)'
      PROVE  /\ ZoneOf(req'[r].pod) \in Pdb[req'[r].cfg].sts
             /\ req'[r].max <= Budget(req'[r].cfg, ZoneOf(req'[r].pod))
  <2>1. CASE AcquireLock(r)
    <3> DEFINE c == req[r].cfg
               z == ZoneOf(req[r].pod)
    <3>1. req[r] \in Waiting
      BY <2>1, ReqByPc, SMTT(40) DEF AcquireLock
    <3>2. c \in Config /\ req[r].max \in 0..MaxOverride
      BY <3>1, SMTT(40) DEF Waiting
    <3>3. PICK status \in 0..SpecReplicas(z) :
            LET max == limit(maxUnavailablePods(c, SpecReplicas(z), status), req[r].max)
            IN  IF DeniedOutright(c, z, max)
                THEN req' = [req EXCEPT ![r] = Idle] /\ UNCHANGED locks
                ELSE /\ req' = [req EXCEPT ![r] =
                                [pc |-> "scan", pod |-> req[r].pod, same |-> req[r].same,
                                 cfg |-> c, max |-> max, scanned |-> {}, bad |-> {}]]
                     /\ locks' = [locks EXCEPT ![Pdb[c].name] = r]
      BY <2>1, SMTT(40) DEF AcquireLock
    <3> DEFINE max == limit(maxUnavailablePods(c, SpecReplicas(z), status), req[r].max)
    <3>4. /\ ~DeniedOutright(c, z, max)
          /\ req'[r].pod = req[r].pod /\ req'[r].cfg = c /\ req'[r].max = max
      <4>1. ~DeniedOutright(c, z, max)
        <5>1. DeniedOutright(c, z, max) => req'[r] = Idle
          BY <3>3, SMTT(40) DEF TypeOK
        <5>2. req'[r] # Idle
          BY <1>1, SMTT(40) DEF Evaluating, Idle
        <5>3. QED
          BY <5>1, <5>2, SMTT(40)
      <4>2. req'[r] = [pc |-> "scan", pod |-> req[r].pod, same |-> req[r].same,
                       cfg |-> c, max |-> max, scanned |-> {}, bad |-> {}]
        BY <3>3, <4>1, SMTT(40) DEF TypeOK
      <4> HIDE DEF max
      <4>3. req'[r].pod = req[r].pod /\ req'[r].cfg = c /\ req'[r].max = max
        BY <4>2, SMTT(40)
      <4>4. QED
        BY <4>1, <4>3, ZenonT(60)
    <3>5. max <= Budget(c, z)
      BY <3>2, LimitWithinBudget, SMTT(40)
    <3>6. QED
      BY <3>4, <3>5, SMTT(40) DEF DeniedOutright
  <2>2. ASSUME NEW z \in Zone, ListPods(r, z)
        PROVE  /\ Evaluating(r) /\ req'[r].pod = req[r].pod /\ req'[r].cfg = req[r].cfg
               /\ req'[r].max = req[r].max
    BY <2>2, SMTT(40) DEF ListPods, TypeOK, Evaluating
  <2>3. ASSUME Tally(r)
        PROVE  /\ Evaluating(r) /\ req'[r].pod = req[r].pod /\ req'[r].cfg = req[r].cfg
               /\ req'[r].max = req[r].max
    BY <1>1, <2>3, SMTT(40) DEF Tally, Finish, Idle, TypeOK, Evaluating
  <2>4. ASSUME SameEval(r)
        PROVE  /\ Evaluating(r) /\ req'[r].pod = req[r].pod /\ req'[r].cfg = req[r].cfg
               /\ req'[r].max = req[r].max
    BY <2>4, SameFields, SMTT(40) DEF SameEval
  <2>5. QED
    BY <1>1, <2>1, <2>2, <2>3, <2>4, EvalStep, ZenonT(60) DEF InBudgetZones
<1>2. ASSUME NEW c \in Config, NEW p \in Disrupted(c)' PROVE ZoneOf(p) \in Pdb[c].sts
  <2>1. ASSUME NEW r \in Req, Grant(r) PROVE Evaluating(r)
    BY <2>1, SMTT(40) DEF Grant, Validate, Evaluating
  <2>2. QED
    BY <2>1, DisruptedGrows, SMTT(40) DEF InBudgetZones
<1>3. (\A r \in Req : Evaluating(r) =>
          /\ ZoneOf(req[r].pod) \in Pdb[req[r].cfg].sts
          /\ req[r].max <= Budget(req[r].cfg, ZoneOf(req[r].pod)))'
  BY <1>1, ZenonT(60) DEF Budget, maxUnavailablePods, SpecReplicas, PodsOf, ZoneOf, PercentageOf
<1>4. QED
  BY <1>2, <1>3, SMTT(40) DEF InBudgetZones, ZoneOf

\* What a handler must count does not grow while it evaluates its budget.
LEMMA MustCountStep ==
    ASSUME TypeOK, LockHeld, [Next]_vars, NEW r \in Req, Evaluating(r), Evaluating(r)',
           req'[r].pod = req[r].pod, req'[r].cfg = req[r].cfg, NEW z
    PROVE  /\ MustCount(req[r], z)' \subseteq MustCount(req[r], z)
           /\ Unstaffed(req[r], z)' <=> Unstaffed(req[r], z)
<1>1. PICK c \in Config : req[r].cfg = c
  BY ReqByPc, ZenonT(60) DEF Evaluating, Scanning, Tallying
<1>2. ~Grant(r)
  BY SMTT(40) DEF Grant, Validate, Finish, Allow, Evaluating, TypeOK
<1>3. ASSUME NEW p \in Disrupted(c)' PROVE p \in Disrupted(c)
  BY <1>1, <1>2, <1>3, DisruptedGrows, NoOtherGrant, SMTT(40)
<1>4. req'[r].cfg = c
  BY <1>1, SMTT(40)
<1>5. MustCount(req[r], z)' = {p \in Disrupted(c)' : ZoneOf(p) = z /\ p # req[r].pod
                                                     /\ considerPod(c, req[r].pod, p)}
  BY <1>1, <1>4 DEF MustCount, considerPod, ZoneOf, PartitionOf
<1>6. QED
  BY <1>1, <1>3, <1>5, ZenonT(60) DEF MustCount, Unstaffed, PartitionOf

=============================================================================
