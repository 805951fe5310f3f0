-------------------------------- MODULE Zpdb --------------------------------
(***************************************************************************)
(* The pod eviction webhook of pkg/zpdb: concurrent eviction requests      *)
(* decided against live pod lists, a per-budget mutex, and an in-memory    *)
(* cache of pods whose eviction has just been allowed.                     *)
(*                                                                         *)
(* A StatefulSet is a zone.  A pod <<z, i>> is the pod of ordinal i in     *)
(* zone z; i is also the partition that the pod name regular expression    *)
(* extracts.  A budget is the parsed ZoneAwarePodDisruptionBudget.         *)
(***************************************************************************)
EXTENDS Integers, FiniteSets, Sequences

CONSTANTS
    Zone,            \* StatefulSets, one per zone
    Partition,       \* pod ordinals
    Pod,             \* the pods that the StatefulSets' replicas ask for
    Config,          \* budgets (a name with one content) that may be loaded
    Pdb,             \* Pdb[c]: the parsed content of budget c
    Name,            \* names of budgets
    Target,          \* the pods whose eviction is requested
    Faulty,          \* the pods that may also be disrupted involuntarily
    Req,             \* request handlers (goroutines)
    NoCfg, NoReq,    \* no budget, no lock holder
    MaxOverride,     \* largest rollout-max-unavailable passed as override
    MaxLag,          \* bound on undelivered informer events per pod
    InformerPrompt,  \* events of a start-up are delivered before readiness
    ScanPrompt,      \* no event is delivered between a list and its tally
    ApiPrompt        \* an answered eviction is acted upon promptly

ASSUME PodAssumption ==
    Pod \subseteq Zone \X Partition /\ IsFiniteSet(Pod) /\ Target \cup Faulty \subseteq Pod

\* What ParseAndValidate lets through: a number or a percentage, a percentage
\* only without a partition expression, a delay only with one.
ParseAndValidate(b) ==
    /\ b.delay => b.partitioned
    /\ b.pct > 0 => ~b.partitioned /\ b.max = 0

ASSUME ConfigAssumption ==
    /\ NoCfg \notin Config
    /\ Pdb \in [Config -> [name : Name, max : Nat, pct : 0..100, partitioned : BOOLEAN,
                          delay : BOOLEAN, sts : SUBSET Zone]]
    /\ \A c \in Config : ParseAndValidate(Pdb[c]) /\ IsFiniteSet(Pdb[c].sts)

ASSUME ReqAssumption == NoReq \notin Req
ASSUME BoundAssumption == MaxOverride \in Nat /\ MaxLag \in Nat \ {0}
ASSUME TimingAssumption ==
    InformerPrompt \in BOOLEAN /\ ScanPrompt \in BOOLEAN /\ ApiPrompt \in BOOLEAN

VARIABLES
    state,    \* state[p]: the pod object held by the API server
    evq,      \* evq[p]: informer events not delivered yet, oldest first
    pending,  \* pending[p]: p has an unexpired entry in podEvictionCache
    pdbs,     \* budgets in the config cache
    locks,    \* locks[name]: handler that holds the budget's mutex
    req,      \* req[r]: local state of handler r; req[r].same: the pod of that
              \* name still has the uid of the pod that the handler has read
    downBy    \* history: budgets under which p was evicted and is not back

vars == <<state, evq, pending, pdbs, locks, req, downBy>>
podVars == <<state, evq, downBy>>

PodState == {"Absent", "Pending", "Unready", "Ready", "Settled", "Terminating", "Failed"}
Event == {"Running", "NotRunning", "Tombstone"}
ZoneOf(p) == p[1]
PartitionOf(p) == p[2]
PodsOf(z) == {p \in Pod : ZoneOf(p) = z}

Idle == [pc |-> "idle"]
Waiting == [pc : {"lock"}, pod : Pod, same : BOOLEAN, cfg : Config, max : 0..MaxOverride]
Scanning == [pc : {"scan"}, pod : Pod, same : BOOLEAN, cfg : Config, max : Nat \ {0},
             scanned : SUBSET Zone, bad : SUBSET (Zone \X Partition)]
Tallying == [pc : {"tally"}, pod : Pod, same : BOOLEAN, cfg : Config, max : Nat \ {0},
             scanned : SUBSET Zone, bad : SUBSET (Zone \X Partition),
             zone : Zone, unready : SUBSET (Zone \X Partition), ready : SUBSET Pod]
Answered == [pc : {"allowed"}, pod : Pod, cfg : Config \cup {NoCfg}]

DelayConfigured == \E c \in Config : Pdb[c].delay

Init ==
    /\ state = [p \in Pod |-> IF DelayConfigured THEN "Settled" ELSE "Ready"]
    /\ evq = [p \in Pod |-> <<>>]
    /\ pending = [p \in Pod |-> FALSE]
    /\ pdbs = {}
    /\ locks = [n \in Name |-> NoReq]
    /\ req = [r \in Req |-> Idle]
    /\ downBy = [p \in Pod |-> {}]

-----------------------------------------------------------------------------
(* Helpers of the handler.                                                 *)

\* util.IsPodRunningAndReady on a live pod.
IsPodRunningAndReady(p) == state[p] \in {"Ready", "Settled"}

\* Terminal, pending and terminating pods are evicted without a budget check.
canIgnorePDBForPod(p) == state[p] \in {"Pending", "Failed", "Terminating"}

\* The part of validator.isReady that depends on the listed pod only: with a
\* cross-zone eviction delay the pod must have been ready for that long.
ListedReady(c, p) ==
    IF Pdb[c].delay THEN state[p] = "Settled" ELSE IsPodRunningAndReady(p)

SpecReplicas(z) == Cardinality(PodsOf(z))

\* floor(pct * replicas / 100) with a minimum of one.
PercentageOf(pct, replicas) ==
    LET result == (pct * replicas) \div 100 IN IF result < 1 THEN 1 ELSE result

maxUnavailablePods(c, spec, status) ==
    LET replicas == IF spec < status THEN spec ELSE status
    IN  IF Pdb[c].max > 0 THEN Pdb[c].max
        ELSE IF Pdb[c].pct = 0 \/ spec = 0 \/ replicas = 0 THEN 0
        ELSE PercentageOf(Pdb[c].pct, replicas)

\* The rollout controller's override applies when the budget yields zero.
limit(max, override) == IF max = 0 THEN override ELSE max

\* The zones that the decision about a pod of zone z reads.
considerStsMutant(c, z) == IF Pdb[c].partitioned THEN Pdb[c].sts \ {z} ELSE {z}

considerSts(c, z) == IF Pdb[c].partitioned THEN Pdb[c].sts \ {z} ELSE Pdb[c].sts

\* In partition mode only the pods of the target's partition are tested.
considerPod(c, target, p) == Pdb[c].partitioned => PartitionOf(p) = PartitionOf(target)

\* configCache.find: the one budget that matches, none, or an error.
FoundOne(c) == pdbs = {c}
FoundNone == pdbs = {}

InFlight(p) == \E r \in Req : req[r].pc = "allowed" /\ req[r].pod = p /\ req[r].cfg # NoCfg

\* Between the list and the tally some handler holds p as a ready pod.
HeldAsReady(p) == \E r \in Req : req[r].pc = "tally" /\ p \in req[r].ready

-----------------------------------------------------------------------------
(* The handler, HandlePodEvictionRequest, in the steps between which other *)
(* handlers, the informer and the cluster can run.                         *)

FinishMutant(r, answer) == req' = [req EXCEPT ![r] = answer] /\ UNCHANGED locks

\* The request ends; a held mutex is released by the deferred Unlock.
Finish(r, answer) ==
    /\ req' = [req EXCEPT ![r] = answer]
    /\ locks' = [n \in Name |-> IF locks[n] = r THEN NoReq ELSE locks[n]]

Allow(p, c) == [pc |-> "allowed", pod |-> p, cfg |-> c]

\* A request (webhook, or the rollout controller with an override) is checked
\* against the config cache and the live pod.  It is allowed at once when no
\* budget covers the pod or the pod is not serving anyway, refused when the pod
\* is gone or several budgets match, and otherwise goes on to the mutex.
ReceiveRequest(r, p, override) ==
    /\ req[r].pc = "idle"
    /\ \/ /\ FoundNone \/ (state[p] # "Absent" /\ canIgnorePDBForPod(p))
          /\ req' = [req EXCEPT ![r] = Allow(p, NoCfg)]
       \/ /\ state[p] # "Absent" /\ ~canIgnorePDBForPod(p)
          /\ \E c \in Config :
                /\ FoundOne(c)
                /\ req' = [req EXCEPT ![r] = [pc |-> "lock", pod |-> p, same |-> TRUE,
                                            cfg |-> c, max |-> override]]
    /\ UNCHANGED <<podVars, pending, pdbs, locks>>

\* Early denials: limit zero, fewer than two zones, owner not among them.
DeniedOutrightMutant(c, z, max) == Cardinality(Pdb[c].sts) <= 1 \/ z \notin Pdb[c].sts

DeniedOutright(c, z, max) ==
    max = 0 \/ Cardinality(Pdb[c].sts) <= 1 \/ z \notin Pdb[c].sts

\* The mutex is taken, the StatefulSets are listed and the limit is computed.
AcquireLock(r) ==
    /\ req[r].pc = "lock"
    /\ locks[Pdb[req[r].cfg].name] = NoReq
    /\ LET c == req[r].cfg
           z == ZoneOf(req[r].pod)
       IN  \E status \in 0..SpecReplicas(z) :
             LET max == limit(maxUnavailablePods(c, SpecReplicas(z), status), req[r].max)
             IN  IF DeniedOutright(c, z, max)
                 THEN /\ req' = [req EXCEPT ![r] = Idle]
                      /\ UNCHANGED locks
                 ELSE /\ req' = [req EXCEPT ![r] =
                                  [pc |-> "scan", pod |-> req[r].pod, same |-> req[r].same,
                                   cfg |-> c, max |-> max, scanned |-> {}, bad |-> {}]]
                      /\ locks' = [locks EXCEPT ![Pdb[c].name] = r]
    /\ UNCHANGED <<podVars, pending, pdbs>>

\* In partition mode a zone without any pod of the partition counts as one
\* unknown pod.
unknownPodsMutant(q, z, tested, missing) == missing

unknownPods(q, z, tested, missing) ==
    IF Pdb[q.cfg].partitioned /\ tested = {} /\ missing = {}
    THEN {<<z, PartitionOf(q.pod)>>} ELSE missing

\* podsNotRunningAndReady, up to the answer of the API server: which pods of
\* zone z are missing or listed as not ready, and which are listed as ready.
\* The pod to evict is left out by its uid.
ListPods(r, z) ==
    LET q == req[r]
        missing == {p \in PodsOf(z) : state[p] = "Absent"}
        tested == {p \in PodsOf(z) \ missing : considerPod(q.cfg, q.pod, p)}
        others == {p \in tested : ~(p = q.pod /\ q.same)}
        ready == {p \in others : ListedReady(q.cfg, p)}
    IN  /\ q.pc = "scan"
        /\ z \in considerSts(q.cfg, ZoneOf(q.pod)) \ q.scanned
        /\ req' = [req EXCEPT ![r] =
                     [pc |-> "tally", pod |-> q.pod, same |-> q.same, cfg |-> q.cfg,
                      max |-> q.max, scanned |-> q.scanned, bad |-> q.bad,
                      zone |-> z, ready |-> ready,
                      unready |-> unknownPods(q, z, tested, missing) \cup (others \ ready)]]
        /\ UNCHANGED <<podVars, pending, pdbs, locks>>

\* A failed call to the API server refuses the request.
ListFails(r) ==
    /\ req[r].pc \in {"lock", "scan"}
    /\ Finish(r, Idle)
    /\ UNCHANGED <<podVars, pending, pdbs>>

unavailableMutant(q) == q.unready

\* The listed pods that count as unavailable: the eviction cache is read now.
unavailable(q) == q.unready \cup {p \in q.ready : pending[p]}

\* The listed pods are tallied against the eviction cache, accumulateResult.
\* In zone mode any unavailable pod of another zone refuses the request.
Tally(r) ==
    LET q == req[r]
    IN  /\ q.pc = "tally"
        /\ IF ~Pdb[q.cfg].partitioned /\ q.zone # ZoneOf(q.pod) /\ unavailable(q) # {}
           THEN Finish(r, Idle)
           ELSE /\ req' = [req EXCEPT ![r] =
                             [pc |-> "scan", pod |-> q.pod, same |-> q.same, cfg |-> q.cfg,
                              max |-> q.max, scanned |-> q.scanned \cup {q.zone},
                              bad |-> q.bad \cup unavailable(q)]]
                /\ UNCHANGED locks
        /\ UNCHANGED <<podVars, pending, pdbs>>

maxReachedMutant(q) == Cardinality(q.bad) > q.max

\* validator.validate: the request is refused.
maxReached(q) == Cardinality(q.bad) >= q.max

recordEvictionMutant(p) == UNCHANGED pending

recordEviction(p) == pending' = [pending EXCEPT ![p] = TRUE]

\* All zones were read: validate, recordEviction, answer, unlock.
Validate(r) ==
    LET q == req[r]
    IN  /\ q.pc = "scan"
        /\ considerSts(q.cfg, ZoneOf(q.pod)) \subseteq q.scanned
        /\ IF maxReached(q)
           THEN /\ Finish(r, Idle)
                /\ UNCHANGED pending
           ELSE /\ Finish(r, Allow(q.pod, q.cfg))
                /\ recordEviction(q.pod)
        /\ UNCHANGED <<podVars, pdbs>>

-----------------------------------------------------------------------------
(* The cluster: the API server acting on the answer, the StatefulSet       *)
(* controller and the kubelet.  Every change of a pod object is queued for *)
(* the pod informer.                                                       *)

Emit(p, e) ==
    /\ Len(evq[p]) < MaxLag
    /\ evq' = [evq EXCEPT ![p] = Append(@, e)]

Become(p, s, e) ==
    /\ state' = [state EXCEPT ![p] = s]
    /\ Emit(p, e)

\* The API server evicts the pod of that name: a started pod is given time to
\* terminate, any other one is removed.
ActOnEviction(r) ==
    LET p == req[r].pod
    IN  /\ req[r].pc = "allowed"
        /\ \/ /\ state[p] \in {"Unready", "Ready", "Settled"}
              /\ Become(p, "Terminating", "Running")
           \/ /\ state[p] \in {"Pending", "Failed"}
              /\ Become(p, "Absent", "NotRunning")
           \/ /\ state[p] \in {"Terminating", "Absent"}
              /\ UNCHANGED <<state, evq>>
        /\ downBy' = [downBy EXCEPT ![p] = @ \cup ({req[r].cfg} \ {NoCfg})]
        /\ req' = [req EXCEPT ![r] = Idle]
        /\ UNCHANGED <<pending, pdbs, locks>>

\* The eviction is not carried out: another budget or webhook refuses it, the
\* caller gave up, or the controller's Delete call fails.
DropEviction(r) ==
    /\ req[r].pc = "allowed"
    /\ req' = [req EXCEPT ![r] = Idle]
    /\ UNCHANGED <<podVars, pending, pdbs, locks>>

\* The StatefulSet controller creates the pod anew, under a new uid.
PodCreated(p) ==
    /\ state[p] = "Absent"
    /\ Become(p, "Pending", "NotRunning")
    /\ req' = [r \in Req |->
                 IF req[r].pc \in {"lock", "scan", "tally"} /\ req[r].pod = p
                 THEN [req[r] EXCEPT !.same = FALSE] ELSE req[r]]
    /\ UNCHANGED <<pending, pdbs, locks, downBy>>

PodStarted(p) ==
    /\ state[p] = "Pending"
    /\ Become(p, "Unready", "Running")
    /\ UNCHANGED <<pending, pdbs, locks, req, downBy>>

\* The two timing assumptions about a pod's start-up: its earlier events have
\* been delivered, and an answered eviction of it has been acted upon.
PodReady(p) ==
    /\ state[p] = "Unready"
    /\ InformerPrompt => \A i \in 1..Len(evq[p]) : evq[p][i] # "NotRunning"
    /\ ApiPrompt => ~InFlight(p)
    /\ Become(p, "Ready", "Running")
    /\ downBy' = [downBy EXCEPT ![p] = {c \in @ : Pdb[c].delay}]
    /\ UNCHANGED <<pending, pdbs, locks, req>>

\* crossZoneEvictionDelay has passed since the Ready transition.
PodSettled(p) ==
    /\ state[p] = "Ready" /\ DelayConfigured
    /\ ApiPrompt => ~InFlight(p)
    /\ state' = [state EXCEPT ![p] = "Settled"]
    /\ downBy' = [downBy EXCEPT ![p] = {}]
    /\ UNCHANGED <<evq, pending, pdbs, locks, req>>

\* Involuntary disruptions and deletions that bypass the webhook.
PodDisrupted(p) ==
    /\ p \in Faulty
    /\ \/ /\ IsPodRunningAndReady(p)
          /\ Become(p, "Unready", "Running")
       \/ /\ state[p] = "Unready"
          /\ Become(p, "Failed", "NotRunning")
       \/ /\ state[p] \in {"Unready", "Ready", "Settled"}
          /\ Become(p, "Terminating", "Running")
    /\ UNCHANGED <<pending, pdbs, locks, req, downBy>>

\* A terminated or failed pod is removed.  What the last observed object of a
\* terminated pod says about its phase depends on the kubelet.
PodRemoved(p) ==
    /\ \/ state[p] = "Terminating" /\ \E e \in {"Running", "NotRunning"} : Become(p, "Absent", e)
       \/ state[p] = "Failed" /\ Become(p, "Absent", "NotRunning")
    /\ UNCHANGED <<pending, pdbs, locks, req, downBy>>

-----------------------------------------------------------------------------
(* The informer and the eviction cache.                                    *)

\* invalidatePodEvictionCache: an event of a pod in scope whose phase is not
\* Running ends the pending eviction; a tombstone is not a pod and is ignored.
invalidatePodEvictionCache(p, e) ==
    IF e = "NotRunning" /\ (\E c \in Config : FoundOne(c))
    THEN [pending EXCEPT ![p] = FALSE]
    ELSE pending

DeliverEvent(p) ==
    /\ evq[p] # <<>>
    /\ ScanPrompt => ~HeldAsReady(p)
    /\ pending' = invalidatePodEvictionCache(p, Head(evq[p]))
    /\ evq' = [evq EXCEPT ![p] = Tail(@)]
    /\ UNCHANGED <<state, pdbs, locks, req, downBy>>

\* A relist replaces the missed events by the current object.
LatestEvent(p) ==
    IF state[p] = "Absent" THEN "Tombstone"
    ELSE IF state[p] \in {"Pending", "Failed"} THEN "NotRunning"
    ELSE "Running"

Relist(p) ==
    /\ evq[p] # <<>>
    /\ ScanPrompt => ~HeldAsReady(p)
    /\ pending' = invalidatePodEvictionCache(p, LatestEvent(p))
    /\ evq' = [evq EXCEPT ![p] = <<>>]
    /\ UNCHANGED <<state, pdbs, locks, req, downBy>>

\* cacheExpiry passes without an event that clears the entry.
ExpireEntry(p) ==
    /\ pending[p]
    /\ ApiPrompt => ~InFlight(p)
    /\ ScanPrompt => ~HeldAsReady(p)
    /\ pending' = [pending EXCEPT ![p] = FALSE]
    /\ UNCHANGED <<podVars, pdbs, locks, req>>

\* The config cache, keyed by name, follows the budget objects: addOrUpdateRaw
\* and delete.
ConfigChange ==
    /\ \E c \in Config :
          \/ /\ c \notin pdbs
             /\ pdbs' = {d \in pdbs : Pdb[d].name # Pdb[c].name} \cup {c}
          \/ /\ c \in pdbs
             /\ pdbs' = pdbs \ {c}
    /\ UNCHANGED <<podVars, pending, locks, req>>

\* The operator restarts, or another replica takes over: handlers, mutexes and
\* the cache are gone, the informers start from a fresh list.
Restart ==
    /\ ApiPrompt => \A p \in Pod : ~InFlight(p)
    /\ pending' = [p \in Pod |-> FALSE]
    /\ evq' = [p \in Pod |-> <<>>]
    /\ locks' = [n \in Name |-> NoReq]
    /\ req' = [r \in Req |-> IF req[r].pc = "allowed" THEN req[r] ELSE Idle]
    /\ UNCHANGED <<state, pdbs, downBy>>

\* A request comes from the webhook, without an override, or from the rollout
\* controller through MarkPodAsDeleted, with one.
Handler(r) ==
    \/ \E p \in Target, o \in 0..MaxOverride : ReceiveRequest(r, p, o)
    \/ AcquireLock(r)
    \/ \E z \in Zone : ListPods(r, z)
    \/ ListFails(r)
    \/ Tally(r)
    \/ Validate(r)

Cluster ==
    \/ \E r \in Req : ActOnEviction(r) \/ DropEviction(r)
    \/ \E p \in Pod :
         \/ PodCreated(p) \/ PodStarted(p) \/ PodReady(p) \/ PodSettled(p)
         \/ PodDisrupted(p) \/ PodRemoved(p)

Informer == \E p \in Pod : DeliverEvent(p) \/ Relist(p) \/ ExpireEntry(p)

Next == (\E r \in Req : Handler(r)) \/ Cluster \/ Informer \/ ConfigChange \/ Restart

Spec == Init /\ [][Next]_vars

-----------------------------------------------------------------------------
(* Properties.                                                             *)

TypeOK ==
    /\ state \in [Pod -> PodState]
    /\ evq \in [Pod -> Seq(Event)]
    /\ pending \in [Pod -> BOOLEAN]
    /\ pdbs \in SUBSET Config
    /\ locks \in [Name -> Req \cup {NoReq}]
    /\ req \in [Req -> {Idle} \cup Waiting \cup Scanning \cup Tallying \cup Answered]
    /\ downBy \in [Pod -> SUBSET Config]

\* The pods that an eviction allowed under budget c has taken, or is about to
\* take, out of service and that have not come back.
Disrupted(c) ==
    {p \in Pod : \/ c \in downBy[p]
                 \/ \E r \in Req : req[r].pc = "allowed" /\ req[r].pod = p /\ req[r].cfg = c}

\* The purpose of the eviction cache: an allowed eviction is visible to every
\* later decision, either in the cache or in the live pod.
EvictionVisible ==
    \A c \in Config : \A p \in Disrupted(c) : pending[p] \/ ~ListedReady(c, p)

\* README: an eviction is allowed only if no other zone has a disruption.
\* Under a budget in zone mode the evictions that are being carried out, or
\* whose pods are not back, are all in one zone.
ZoneIsolation ==
    \A c \in Config : ~Pdb[c].partitioned =>
        \A p, q \in Disrupted(c) : ZoneOf(p) = ZoneOf(q)

\* The largest limit a request under c can be given for a pod of zone z.
Budget(c, z) ==
    LET max == maxUnavailablePods(c, SpecReplicas(z), SpecReplicas(z))
    IN  IF Pdb[c].max > 0 \/ max > MaxOverride THEN max ELSE MaxOverride

\* The zones of budget c that do not serve partition i: they have no pod of it,
\* or an eviction allowed under c has taken it.
Unserved(c, i) == {z \in Pdb[c].sts : <<z, i>> \notin Pod \/ <<z, i>> \in Disrupted(c)}

\* No zone (zone mode) has more evicted pods out of service, and no partition
\* that has lost a pod to an eviction (partition mode) is unserved in more
\* zones, than the budget or the rollout's override permits.
BudgetRespected ==
    \A c \in Config : \A p \in Disrupted(c) :
        IF Pdb[c].partitioned
        THEN Cardinality(Unserved(c, PartitionOf(p))) <= Budget(c, ZoneOf(p))
        ELSE Cardinality(Disrupted(c) \cap PodsOf(ZoneOf(p))) <= Budget(c, ZoneOf(p))

\* Seen from outside every eviction is decided and takes effect in one step,
\* against what is out of service at that moment: the handlers, the live lists,
\* the eviction cache and the informer behind them implement ZpdbPromise.
Promise ==
    INSTANCE ZpdbPromise WITH
        out <- [c \in Config |-> Disrupted(c)],
        Limit <- [c \in Config |-> [z \in Zone |-> Budget(c, z)]]

\* The refinement: HandlePodEvictionRequest keeps the promise.
KeepsPromise == Promise!Spec

Evaluating(r) == req[r].pc \in {"scan", "tally"}

\* Every way out of the handler, refusals and failed lists included, unlocks: a
\* budget's mutex is held only by a handler that is evaluating that very budget,
\* also after the budget was replaced by another one of the same name.  Since no
\* step of an evaluating handler waits for anything, no request waits forever.
MutexReleased ==
    \A n \in Name : locks[n] # NoReq =>
        Evaluating(locks[n]) /\ Pdb[req[locks[n]].cfg].name = n

-----------------------------------------------------------------------------
(* What makes the invariants inductive (proved in ZpdbBudgetProofs).       *)

\* A handler evaluates a budget only while it holds the budget's mutex.
LockHeld == \A r \in Req : Evaluating(r) => locks[Pdb[req[r].cfg].name] = r

\* No event from a pod's start-up is outstanding once it serves.
NoStaleEvent ==
    \A p \in Pod : IsPodRunningAndReady(p) => \A i \in 1..Len(evq[p]) : evq[p][i] # "NotRunning"

\* An evicted pod is not listed as ready before it counts as back.
DownNotReady == \A p \in Pod : \A c \in downBy[p] : ~ListedReady(c, p)

\* A budget is evaluated for, and an eviction granted to, a pod of its zones.
InBudgetZones ==
    /\ \A r \in Req : Evaluating(r) =>
          /\ ZoneOf(req[r].pod) \in Pdb[req[r].cfg].sts
          /\ req[r].max <= Budget(req[r].cfg, ZoneOf(req[r].pod))
    /\ \A c \in Config : \A p \in Disrupted(c) : ZoneOf(p) \in Pdb[c].sts

\* The pods of zone z, disrupted under the budget, that request q must count.
MustCount(q, z) ==
    {p \in Disrupted(q.cfg) : ZoneOf(p) = z /\ p # q.pod /\ considerPod(q.cfg, q.pod, p)}

\* In partition mode zone z has no pod of the partition of request q.
Unstaffed(q, z) == Pdb[q.cfg].partitioned /\ <<z, PartitionOf(q.pod)>> \notin Pod

\* Between list and tally every pod that must be counted is listed as not
\* ready or still has its entry in the eviction cache.
ListedAll ==
    \A r \in Req : req[r].pc = "tally" =>
        /\ IsFiniteSet(req[r].unready)
        /\ \A p \in MustCount(req[r], req[r].zone) :
              p \in req[r].unready \/ (p \in req[r].ready /\ pending[p])
        /\ Unstaffed(req[r], req[r].zone) => \E b \in req[r].unready : ZoneOf(b) = req[r].zone

\* Every pod that must be counted in a scanned zone has been counted, and in
\* zone mode no other scanned zone has one.
CountedAll ==
    \A r \in Req : Evaluating(r) =>
        /\ IsFiniteSet(req[r].bad)
        /\ \A z \in req[r].scanned :
              /\ MustCount(req[r], z) \subseteq req[r].bad
              /\ ~Pdb[req[r].cfg].partitioned /\ z # ZoneOf(req[r].pod) => MustCount(req[r], z) = {}
              /\ Unstaffed(req[r], z) => \E b \in req[r].bad : ZoneOf(b) = z

IInv ==
    /\ TypeOK /\ LockHeld /\ NoStaleEvent /\ DownNotReady /\ EvictionVisible
    /\ InBudgetZones /\ ListedAll /\ CountedAll /\ ZoneIsolation /\ BudgetRespected

=============================================================================
