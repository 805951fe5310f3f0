# A TLA+ model of the rollout-operator

The rollout-operator coordinates the StatefulSets of a *rollout group*: usually
one StatefulSet per availability zone. It rolls pods out zone by zone, mirrors
replica counts between zones, delays downscales until pods are prepared, and
answers admission webhooks that guard evictions and downscales. Paths below are
relative to the repository (`src/` in `PROJECT.json`); `README.md:n` with a line
number is the repository's README.

## The system

| Part | State | Operations that change it | Talks to |
|---|---|---|---|
| Rollout controller (`pkg/controller/controller.go`) | a "should reconcile" flag; StatefulSets and pods through informers | informer handlers, `reconcile`, `reconcileStatefulSetsGroup`, `updateStatefulSetPods` | API server, ZPDB controller |
| Replica management (`replicas.go`, `custom_resource_replicas.go`, `delay.go`) | annotations and `spec.replicas` of StatefulSets, the preparation timestamp of each pod | leader/follower adjustment, mirroring of a reference resource, delayed downscale | API server, the pods' HTTP endpoint |
| ZPDB eviction controller (`pkg/zpdb`) | config cache, eviction cache, one mutex per budget | `HandlePodEvictionRequest`, `MarkPodAsDeleted`, pod and config informer handlers | API server, rollout controller |
| Prepare-downscale webhook (`pkg/admission/prep_downscale.go`, `zone_tracker.go`) | last-downscaled annotations or the zone ConfigMap, the pods' preparation state | `PrepareDownscale` | API server, the pods' HTTP endpoint |
| No-downscale webhook (`pkg/admission/no_downscale.go`) | none | a decision | API server |
| Certificate handling (`pkg/tlscert`) | the certificate Secret, the CA bundle of webhook configurations | create or renew the Secret, patch the CA bundle | API server |
| Leader election and routing (`cmd/rollout-operator`) | the Lease, the leader label | acquire, lose, relabel | API server |
| Status page (`pkg/status`, `pkg/controller/status.go`) | none | a snapshot | informers |

What makes it hard:

- Every webhook request is a goroutine of its own, and the reconcile loop runs
  beside them; the rollout controller also asks the ZPDB controller before it
  deletes a pod.
- StatefulSets, pods and budgets are read from informer caches that lag behind
  the API server and behind each other. The eviction cache bridges one such gap.
- A reconcile and a request read at several moments and write later; the cluster
  moves on in between.
- Calls to pods and to the API server fail, alone or after having had effect.
- Most of what the operator knows is in memory or in annotations, so that a
  restart, a denied request or a failed call must be made good by repetition.

What must hold: evictions and rollouts disrupt one zone at a time and stay within
the budget; downscales of two zones stay apart; a pod is removed only when it is
prepared, and for long enough; every rollout, scaling and request comes to an
end.

## Modules

| Module | Models | Abstractions |
|---|---|---|
| `Zpdb` | the eviction controller with its caches, mutexes, pod observer and config cache | a pod is a zone and an ordinal; an entry's age is the action `ExpireEntry`; readiness over time is the state `Settled` |
| `ZpdbPromise` | what the eviction controller promises, in three lines of state machine | no handlers, mutexes, lists, informers or caches |
| `ConfigObserver` | the observer of the budgets, the config cache with its generations, the wait at start-up, the readiness gauge | a budget is a generation, a uid and valid or not |
| `Rollout` | the reconcile loop on one group whose replica counts are settled, both informers, the budget check of each deletion | a revision is a number; the budget is one zone-mode budget whose request is one step (its interleavings are the subject of `Zpdb`) |
| `RolloutStatus` | the snapshot of the status page, as a view of `Rollout`'s state | names, images and times are left out |
| `FollowLeader` | leader and follower replicas, composed with the two downscale webhooks and with users who scale and force sets | a webhook request is one step; a time is an age in seconds |
| `PrepareDownscale` | the prepare-downscale webhook with annotations and with the zone tracker | a request carries the old and the new number of replicas; pods answer or fail |
| `DelayedDownscale` | mirrored replicas with delayed downscale | a pod's timestamp is its age up to the delay |
| `LeaderElection` | the Lease as client-go's elector uses it with the flags of `main.go` | time is counted in ticks |
| `Operator` | the process from start to exit, composed with the election: certificate Secret, CA bundle, leader label, readiness, routing | a certificate is an identity with an expiry; one webhook configuration stands for all |
| `*Proofs` | theorems about the module of that name | |
| `MC*` | the instances for TLC | |

A definition whose name ends in `Mutant` is a wrong version of the definition
after it. It is used nowhere in the specification; replacing the right version by
it must break a property, and `PROJECT.json` says which.

### Zpdb and ZpdbPromise

State: `state` (pods at the API server), `evq` (informer events on the way),
`pending` (`podEvictionCache`), `pdbs` (`configCache`), `locks` (the mutex of each
budget), `req` (the local state of each handler) and the history variable
`downBy`. `HandlePodEvictionRequest` is cut where other goroutines can run:
`ReceiveRequest` (budget and pod are read), `AcquireLock` (StatefulSets are
listed, the limit is computed), `ListPods` and `Tally` once per zone (the pods
are listed, then the eviction cache is read), `Validate` (decision,
`recordEviction`, answer). `ListFails` is any failing call; every exit goes
through `Finish`, the deferred unlock. `DeliverEvent`
is the pod observer, `Relist` a watch that lost events, `Restart` a restart of the
operator, `ConfigChange` the config observer. `MarkPodAsDeleted` is a
`ReceiveRequest` with an override.

Timing assumptions, constants that a run or theorem sets:
`InformerPrompt` (the events of a pod's start-up are delivered before it is
ready), `ScanPrompt` (no event arrives between the list of a zone and its tally)
and `ApiPrompt` (an allowed eviction is carried out before the operator restarts
or the entry expires). The code relies on them without enforcing them.

`ZpdbPromise` has one variable, the pods that each budget's evictions have taken
out of service. An eviction adds a pod in one step, where the budget has room at
that moment. `KeepsPromise` in `Zpdb` is this specification under the mapping that
takes a pod as out of service from the answer until it is ready again.

### ConfigObserver

Four goroutines meet here: the informer (`FirstList`, `ListFails`, `WatchEvent`,
`WatchFails`, `Rewatch`, and `SendSignal`, a step after the change of
`watchHealthy`), the event handlers (`Handle` with `addOrUpdateRaw` and
`delete`), the start of the operator (`startCaches`, `waitForCacheSync`) and
`observeReadiness` (`Wake`, `Probe`, `SetGauge`). `DeletesSeen` assumes that the
informer does not miss a deletion: a missed one is reported by a tombstone, which
`onPdbDeleted` ignores, and the budget stays enforced for good.

### Rollout and RolloutStatus

State: `pod` and `sts` at the API server, `podCache` and `stsCache`, the flag
`shouldReconcile`, the reconcile `rc`, the sets that were written since its copy
(`conflicts`, which stands for their resource versions), the budget's `pending`
entries, the pods that the budget's observer is yet to be told of as not running
(`late`), and the history variable `down` (pods that were taken down when ready).
`StartReconcile` copies the StatefulSets, `CheckGroup` counts sets that are not
ready and orders the rest, `UpdateSet` treats the next set, `MarkPodAsDeleted`
asks the budget and `DeletePod` deletes by name. `EndReconcile` sets the flag
again after an error. The pod observer of the eviction controller hears of a pod
when its handler gets to it, not when the lister's cache moves
(`invalidatePodEvictionCache`), and a resync repeats what the cache holds. Edits by owners change a template, pause a set, switch its
strategy, or release a revision to the whole group. Assumptions: `InformerPrompt`
and `StatusPrompt` (caches and status are current when a reconcile starts),
`SnapshotPrompt` (the pods are listed as old as the StatefulSets were copied),
`ApiPrompt` (an allowed deletion is sent before the pod has restarted),
`EventPrompt` (the observer hears nothing of a pod's start any more once the pod is
ready). `RolloutStatus` adds no state: `memberStatus`, `applyZoneGating` and
`aggregateGroupPhase` are evaluated on the caches at any time.

### FollowLeader

State: `obj` (the StatefulSets with their stored times, status and forced
replicas), `up` (ready pods), the informer's `cache`, the patch that the reconcile
is about to send (`rec`), and the history `granted`. The controller decides on the
cache (`adjustStatefulSetsGroupReplicasToFollowLeader`); its patch, like a user's
request, passes the webhooks on the live objects: prepare-downscale, a mutating
webhook, first, then no-downscale. A downscale that the first allows and the second
denies, or that fails later, leaves the stored time behind
(`addDownscaledAnnotationToStatefulSet`). Either webhook lets a request for the
scale subresource through when it cannot look up the StatefulSet
(`allowBecauseCannotGetResource`). That a request passes the webhooks in one step is
a simplification; `PrepareDownscale` has the steps. `StatusPrompt` assumes that the
status of a set is current when a user changes its replicas.

### PrepareDownscale

State: the clock, `replicas`, `steady` (pods of the set are updated and ready),
the stored times (`stored`, `mapExists`), the `prepared` pods, the requests, and
the history variables `granted` and `leftover`. `tracker` is the
`-use-zone-tracker` flag, fixed at the start. A request goes through `LoadZones`,
`createConfigMap`, `CheckOthers`, `sendPrepareShutdownRequests`, `Record` and, on
failure, `undoPrepareShutdownRequests`; the API server then applies or rejects it.
A request for the scale subresource whose StatefulSet cannot be looked up is allowed
with none of these steps (`getStatefulSetFails`).
`Formatted` is the loss of RFC 3339: the clock ticks finer than a second.
`Serial` assumes that requests of one group do not overlap.

### DelayedDownscale

State: `desired` and `refStatus` of the references, `replicas` and their cached
copy, the `age` of each pod's preparation, the reconcile `rc`. The steps of
`adjustStatefulSetsGroupReplicasToMirrorResource` on each set are
`ReadReference`, `SyncStatus`, `callCancelDelayedDownscale`,
`callPrepareDownscale`, `patchStatefulSetSpecReplicas` and `WriteStatus`; after a
change of one set the loop ends, as in the code. `InformerPrompt` assumes that the
cache is current when a reconcile starts.

### LeaderElection and Operator

`LeaderElection` has the Lease, the role of each process and the time since its
last renewal. `validate` is what the flags are checked for. What a single leader
depends on is not checked by the code, and the properties say what follows from
each: `LeadsInTime` (`RetryPeriod + RenewDeadline < LeaseDuration`, a leader that
cannot renew gives up before its Lease expires) and `StopsInTime` (the same with
`StopTime` added, for one that is told to stop meanwhile). The default flags meet
the first only. The time that the answer to a renewal is under way is not counted.
`Operator` extends it with the steps of a process, in the order of
`main.go`: boot, standby, the Secret (`Certificate`, `createCertificateSecret`,
`updateCertificateSecret`, `rereadCertificateSecret`), the webhook observer, the
TLS server, `PublishLeader` and readiness. A Secret that does not parse
(`Malformed`) ends the process. A process crashes, is terminated, loses
the Lease or finds its certificate expired at any step. It leaves its label behind
for the next process of the pod, and the result of its last probe until the kubelet
starts that process.

## What TLC checks

| Run | Instance | Shows |
|---|---|---|
| `ZpdbReconfig` | two zones of one pod, two handlers, one budget that changes between half of a zone and one pod of a partition, is removed and comes back, restarts | `TypeOK`; `EvictionVisible`: an allowed eviction is visible to later requests until the pod is gone; `ZoneIsolation`: evictions under a zone-mode budget are outstanding in one zone; `BudgetRespected`; `MutexReleased`: only a handler that evaluates a budget holds its mutex; `KeepsPromise`: `ZpdbPromise` is implemented |
| `ZpdbPartition` | three zones, one without a pod of the partition, a cross-zone delay, budget 2, pods that fail by themselves | `BudgetRespected` in partition mode, where a zone without a pod counts |
| `ConfigObserver` | two budgets of which one is edited three times, with and without the CRD, one failing call or watch | `LoadedBeforeServing`: what the first list returned is enforced when the operator starts; `StaysEnforced`: invalid edits and late deletions do not remove a budget; `NoLostSignal`; `CacheConverges`; `ReadinessRecovers` |
| `RolloutOrder` | two sets of two and one pods, limits of one, template, pause and strategy edits, one bad revision, one failure | `TypeOK`; `OneSetAtATime`: pods taken down belong to one set; `WithinMaxUnavailable`; `RolloutCompletes`: a rollout to a good revision completes, also after a failed one; `StatusShowsActiveSet`: the page shows as progressing the set that the controller works on; `StatusSettles`: a finished rollout is shown as complete |
| `RolloutProtected` | two sets of two and one pods under a budget of one, caches of any age when a reconcile starts, an observer that lags up to the time a pod is ready, an eviction by others | `OneSetAtATime` and `WithinBudget` although the caches are stale; `PromotedWhenRolledOut`: the current revision moves only when all pods run it |
| `RolloutStuck` (violation) | two sets of one pod, a bad revision and an eviction | finding 1 |
| `RolloutDrain` (violation) | the sets of `RolloutOrder`, two good revisions | finding 2 |
| `FollowLeader` | three sets that follow each other, also with forced replicas, or that follow one, the last of them not to be scaled down, and three of which the last names a missing leader; two requests by users, one failure | `TypeOK`; `DownscalesApart`: checked downscales of two sets are the minimum time apart; `ScaleUpWaitsForLeader`; `FollowersConverge`: every set before the first that is stuck reaches its leader, but a labelled set that keeps asking in vain can keep others from following down |
| `PrepareSerial` | two sets of a group with different minimum times, two replicas, annotations and zone tracker, one failing call or lookup | `TypeOK`; `ZonesApart`: downscales that pass the check are at least the minimum time, less one second, apart; `PreparedWhenApplied`: a checked downscale removes only prepared pods; `NothingLeftPrepared`: none stays prepared unnoticed |
| `PrepareOverlap` (violation) | overlapping requests with the zone tracker | finding 3 |
| `DelayedMirror` | two sets of up to three replicas, delay 2, three changes of the references, one failure | `TypeOK`; `DelayRespected`: only pods prepared for the delay are removed; `StatusCountsUnprepared`; `ScalingSettles`; `PreparationsCancelled` |
| `Operator` | two pods with election (two faults; a termination and a fault; an edit of the Secret, also to one that does not parse, or of the webhook configuration), one pod without, two without that overlap; a certificate expires in all but the last | `RoutedServes`: no process gets requests that it does not serve; `OneOperator`: at most one process runs the leader-only parts, its flags giving it the time to stop; `ValidCertificateKept`; `WebhooksRecover`: in the end the webhooks are reachable and trusted |

Bounds. Two zones, or three where one differs, are enough for every conflict the
code distinguishes: it treats a request's own zone, and all others alike. Two
handlers contend for a mutex; more only queue. Two pods in a set let it be partly
rolled out, and three replicas let a prepared tail differ
from a prepared middle. Two edits are a rollout and the one that overtakes or
repairs it; three are a creation, an update and a deletion. The clock of
`PrepareSerial` (six half seconds against minimum times
of one and two seconds) reaches a second downscale after the first one's wait.
`MaxLag` bounds the events of a pod that are on the way; when it is reached the
pod waits for the watch. `MaxMinTime` bounds minimum times, and ages above it are
not told apart. Five certificates are one more than can be in use. The bounds on
edits, faults and evictions let behaviours
end, which is why most runs switch the deadlock check off; the runs of `Zpdb`,
`PrepareDownscale` and `DelayedDownscale` keep it.

Symmetry: zones A and B and the handlers are interchangeable in the instances
that use it; no run that checks liveness does.

Fairness. `RolloutOrder`, `RolloutStuck`, `DelayedMirror` and `FollowLeader` have
weak fairness of the loop, of the watches and the informers' resync (every five
minutes), of the passage of time, and of the work of
the kubelet and the StatefulSet controller. `ConfigObserver` has weak fairness of
each goroutine and of the informer's retries. `Operator` has weak fairness of a
process's own steps, of the timers, of the kubelet's probes and of the restart of
one of the pods, so that recovery never relies on the other coming back. Edits,
faults, evictions, terminations and users' requests have none. `Zpdb` needs none:
that no exit of a handler keeps the mutex is the invariant `MutexReleased`.

## What is proved

Every theorem holds for all values of the constants that satisfy the named
assumptions of its module: any number of zones, sets, pods, budgets, handlers,
requests and processes, and any bounds.

| Theorem | Property | Assumes |
|---|---|---|
| `ZpdbProofs!TypeCorrect` | `TypeOK` | |
| `ZpdbBudgetProofs!Inductive`, `EvictionsStayInOneZone`, `EvictionsStayWithinBudget`, `EvictionsStayVisible` | `ZoneIsolation`, `BudgetRespected`, `EvictionVisible` | `InformerPrompt`, `ScanPrompt`, `ApiPrompt` |
| `ZpdbBudgetProofs!PromiseKept` | `KeepsPromise` | the same |
| `ZpdbBudgetProofs!MutexesReleased` | `MutexReleased` | |
| `ConfigObserverProofs!CacheInvariant`, `BudgetsLoaded`, `BudgetsStayEnforced` | `LoadedBeforeServing`, `StaysEnforced` | |
| `ConfigObserverProofs!SignalsReachTheObserver` | `NoLostSignal` | |
| `RolloutProofs!TypeCorrect` | `TypeOK` | |
| `RolloutProofs!OneSetByOrder` | `OneSetAtATime` | no budget; `InformerPrompt`, `SnapshotPrompt` |
| `RolloutProofs!OneSetByBudget`, `BudgetKept` | `OneSetAtATime`, `WithinBudget` | a budget; `ApiPrompt`, `EventPrompt` |
| `RolloutProofs!LimitKept` | `WithinMaxUnavailable` | no budget; `InformerPrompt`, `StatusPrompt`, `SnapshotPrompt`; no deletions by others; `Calm`: a template is changed between reconciles and while no pod of the set drains |
| `RolloutProofs!PromotedOnlyWhenRolledOut` | `PromotedWhenRolledOut` | `InformerPrompt` |
| `RolloutProofs!PageShowsActiveSet` | `StatusShowsActiveSet` | `SnapshotPrompt` |
| `FollowLeaderProofs!FollowInvariant`, `TypeCorrect`, `DownscalesKeptApart` | `TypeOK`, `DownscalesApart` | |
| `FollowLeaderProofs!ScaleUpWaits` | `ScaleUpWaitsForLeader` | `StatusPrompt`; who scales up only when its leader is ready follows a set that follows nobody |
| `PrepareDownscaleProofs!TypeCorrect`, `NothingStaysPrepared` | `TypeOK`, `NothingLeftPrepared` | |
| `PrepareDownscaleProofs!RemovedPodsArePrepared` | `PreparedWhenApplied` | `Serial` |
| `PrepareDownscaleProofs!ZonesStayApart` | `ZonesApart` | `Serial`; the ConfigMap serves one group; minimum times of a second or more |
| `DelayedDownscaleProofs!DelayedInvariant`, `TypeCorrect` | `TypeOK` | |
| `DelayedDownscaleProofs!DelayKept`, `StatusHonest` | `DelayRespected`, `StatusCountsUnprepared` | `InformerPrompt` |
| `OperatorProofs!ElectionSafe`, `OneOperatorAtATime` | `OneLeader`, `OneOperator` | (`LeadsInTime` and `StopsInTime` are conditions in the properties) |
| `OperatorProofs!RoutedProcessServes` | `RoutedServes` | |
| `OperatorProofs!SecretInvariant`, `CertificateKept` | `KeepsCertificate`, with election and `StopsInTime`, in one pod, or while no certificate expires | `SupplyAssumption` |
| `OperatorProofs!CertificateReused` | `ValidCertificateKept` | the same, and all deployments are of these kinds |

The inductive invariants, and why they are needed:

- `Zpdb`. What a handler has counted must still be true when it decides. `IInv`
  adds what carries that over the steps. A handler that evaluates a budget holds
  its mutex (`LockHeld`), so no eviction under the budget is allowed meanwhile and
  the disrupted pods can only become fewer. Every disrupted pod is either not
  listed as ready (`DownNotReady`) or has an entry (`EvictionVisible`), which no
  outstanding start-up event can delete (`NoStaleEvent`). Hence each of them is in
  what was listed (`ListedAll`) and then in what was counted (`CountedAll`). At
  `Validate` the count is below the limit, and the limit is at most the budget
  (`InBudgetZones`). `PromiseKept` reuses this: `Validate` is the one step that
  maps to an eviction, and every other step is a stutter or a return.
- `Rollout` without a budget. `OrderInv`: a pod that was taken down is not ready
  (`DownNotReady`); until a reconcile has looked at its sets, its pod cache shows
  such pods as missing or not ready (`SeenDown`); the set that is moved to the front is the only
  one with any (`FrontFirst`), so a queue of deletions is for that set
  (`OneQueue`). The status takes no part in this, which is why `StatusPrompt` is
  not assumed.
- `Rollout` with a budget. `BudgetInv` speaks of the pods that are `Taken`: down,
  or ready with their deletion on the way. Each of them counts as unavailable for the
  budget (`TakenUnavailable`), by its state or by its entry; so the next pod that
  is let go is of the same set (`TakenOfOneSet`) and there is room for it
  (`TakenWithin`). An entry must not be deleted while its pod is still ready, and
  `ReadyIsTold` says that the observer has nothing left to hear of a ready pod. Nothing
  is assumed of the caches of the reconcile, and the deletions of a batch
  need not even be outdated pods.
- The limit of a set. `LimitInv`: pods drain in the order of their names
  (`DrainInOrder`): a draining pod is outdated, and the outdated pods before it are
  draining or terminating as well. So when a reconcile chooses any pod that does not
  terminate yet, the draining ones, which the status still counts as ready, are
  among the first `numPods` outdated pods; the others that are down are what the
  status does not count. Together these are at most the limit. Until the deletions
  are sent, the queue is counted as if it were down (`Spent`), except for stuck
  pods, which are never ready. A template that changes meanwhile turns the order
  around or makes a draining pod an up-to-date one, which is finding 2; TLC finds
  a violation as well if `Calm` does not ask for the reconcile to be over, or with
  a single deletion by somebody else.
- The current revision. `PromoteInv`: the copy of a set that was not written since
  is what the API server has (`CopyKnown`), and as pods are only created at the
  update revision, a pod at another one has been there since the copy and is in
  the pod cache (`OutdatedKnown`). Hence a promotion that does not conflict finds
  all pods at the revision. Without `InformerPrompt` it may not: the pod cache may
  lack a pod that was created between two changes of the template. `RolloutProtected`
  checks caches of any age with one change.
- The status page. `StatusInv`: once a reconcile has looked at its sets, the ones
  that are not ready are at most one and are the front, and neither they nor the sets
  with something to update have been passed, which are what the page looks at.
- `FollowLeader`. `Stored`: the time that the webhook has stored is at most as old
  as the last downscale that it allowed. For `ScaleUpWaits`, `LeaderHonest`: a set
  that follows nobody and whose status shows it ready was ready. It does not hold
  of a set that the operator scales itself, because
  `patchStatefulSetSpecReplicas` does not wait for the status of an earlier patch;
  with a chain of three such sets TLC finds that the last one is scaled up too early.
- `PrepareDownscale`. `Owned`: a prepared pod belongs to a request in flight or is
  accounted for as left over. For `ZonesApart`: a request alone in its group still
  finds the stored times as it loaded them, and a stored time is less than a
  second older than the downscale it stands for (`FormattedBounds`).
- `DelayedDownscale`. `Inv`: until it changes a set, a reconcile knows the current
  replicas (`Fresh`), prepares only above the wanted number (`Aim`), and at the
  patch the delay of all pods that go is over (`Due`). `CountInv` adds that at least
  as many pods are prepared as the reconcile has counted.
- `ConfigObserver`. `CacheInv` looks at the successive objects of a budget's name:
  in the cache, then in the notifications, then in the undelivered events, then at
  the API server they follow each other in the order of their creation (`Linear`),
  so that a deletion cannot meet the entry of a newer object. A budget of the first
  list is cached or among the notifications that the operator waits for
  (`Loading`, `Starting`). `SignalInv`: a decision for ready that is outdated by now
  has a signal behind it or on its way (`DecisionSignalled`). `ObjectAssumption` says that the
  names are finitely many and that `NoObj` is not a budget.
- `Operator`. Until it gives up, or is gone, a leader's Lease is its own and not
  expired, where the flags allow (`Covered`, `LeaseCovers`); the elector and the
  process agree on who was told to stop (`StopsKnown`); what runs past standby runs as the leader (`LeaderOnly`); a
  label or a successful probe tells how far the process has got (`LabelInTime`,
  `ReadyInTime`). `CertificateKept` adds that a certificate which a process has
  found missing or expired is still so when it is stored (`StillInvalid`).
  `SupplyAssumption` says that there are at least three more certificates than
  processes, so that a generated one is new.

Only model-checked: all liveness, which is out of the prover's reach
(`RolloutCompletes`, `StatusSettles`, `ScalingSettles`, `PreparationsCancelled`,
`FollowersConverge`, `CacheConverges`, `ReadinessRecovers`, `WebhooksRecover`).
Where a theorem assumes more than a run, the run shows the rest on its instance:
`RolloutOrder` checks `WithinMaxUnavailable` for a revision whose pods do not start
and that is rolled back at any moment, and `RolloutProtected` checks
`PromotedWhenRolledOut` with caches of any age.

## Findings

Runs that expect a violation; the quotations are in `PROJECT.json`.

1. `controller.go:448`: with stuck pods in two sets the reconcile returns before
   it would replace them, so that the follow-up update is never rolled out.
2. `controller.go:679`: a deleted pod counts as ready until it fails its readiness
   probe. When the template is rolled back meanwhile, that pod is not outdated and
   another one is deleted beside it.
3. `zone_tracker.go:163`: the lock on a rollout group belongs to the request, so
   overlapping requests for two zones are both allowed.

Dropping an assumption shows more, each reproduced by changing the
constants of a run:

- `pod_observer.go:107`: an event of a pod's own start-up, delivered late,
  deletes the entry of a later eviction, and a second zone is disrupted
  (`InformerPrompt = FALSE`, `MaxLag = 3` and the first budget alone in
  `ZpdbReconfig`: `ZoneIsolation`).
- `pod_observer.go:107` again: the update about a pod's start that reaches the
  observer when the pod is ready and was just let go deletes the entry, and a second
  set is disrupted (`EventPrompt = FALSE` in `RolloutProtected`: `OneSetAtATime`,
  `WithinBudget`).
- `pod_eviction_k8s_clients.go:109` and `pod_eviction_cache.go:29`: an entry is
  cleared between the list of the pods and its use, or lost in a restart
  (`ScanPrompt = FALSE`, `ApiPrompt = FALSE` in `ZpdbReconfig`: `BudgetRespected`,
  `EvictionVisible`).
- `controller.go:553`: with caches of any age and no budget two sets are rolled out
  at once (`InformerPrompt = FALSE` in `RolloutOrder`: `OneSetAtATime`).
- `prep_downscale.go:182`: the time of a downscale is stored before no-downscale
  denies it. A labelled set above its leader stores it anew with each attempt, and a
  set before it that has the longer minimum time is never scaled down
  (`FollowersConverge` without its last line, in `FollowLeader`).
- `controller.go:679`: the status is copied before the pods are listed; a pod
  that terminates in between is missing from both counts, and one pod too many is
  deleted (`SnapshotPrompt = FALSE` in `RolloutOrder`: `WithinMaxUnavailable`).
- `controller.go:772`: a pod is deleted by name; it may have been recreated and
  become ready since the budget let it go (`ApiPrompt = FALSE` in
  `RolloutProtected`: `OneSetAtATime`).
- `custom_resource_replicas.go:27`: with a cached number of replicas from before
  the operator's own scale-up a downscale looks like a scale-up, and pods go
  without preparation or delay (`InformerPrompt = FALSE` in `DelayedMirror`:
  `DelayRespected`).
- `zone_tracker.go:318`: the zone ConfigMap is replaced as it was loaded; a
  request of another group loses a stored time (a third set, of a second group, in `PrepareSerial`:
  `ZonesApart`).
- `custom_resource_replicas.go:98`: a set whose downscale is denied for good ends
  the loop every time, and preparations of later sets are not cancelled
  (`Denied = {1}` in `DelayedMirror`: `PreparationsCancelled`).
- `main.go:188`: flags of the shape of the defaults, 15, 10 and 2 seconds with five
  to stop (`LeaseDuration = 4` in `Operator`), satisfy `OneOperator`, but a process
  that was told to stop may still be at work beside the next leader, and may replace
  the certificate that this one has renewed (`ValidCertificateKept`). `validate` also
  accepts flags with which two leaders act at once (`LeaseDuration = 3`,
  `StopTime = 0`).
- `kube_secret_persisted.go:70`: two pods without election that overlap while the
  certificate expires replace each other's certificate (`expiries |-> 1` in
  `Overlapping`: `ValidCertificateKept`, `WebhooksRecover`).

Smaller things that no property is about: a pod reports its
preparation time in whole seconds, so that up to one second of the delay is lost
(`delay.go:225`), and the self-signed CA expires a moment before the certificate
it signs (`self_signed.go:34`).

## Not modelled

- The ReplicaTemplate observer only enqueues a reconcile, which may start at any
  time in the models anyway.
- Decoding and encoding of admission requests, the validating webhook for budgets
  beyond what `ParseAndValidate` accepts, HTTP servers, metrics, the webhook
  collector, logging, flags other than those of the election, key generation, and
  the rendering and the preview of the status page hold no state that a property
  is about. Certificates from files are read once.
- The no-downscale webhook is a stateless decision; it is part of `FollowLeader`
  and appears as `Denied` in `DelayedDownscale`.
- Scaling is left out of `Rollout`, and rollouts out of the modules about
  replicas: the code does not roll out pods in a reconcile that has changed
  replicas. The whole operator in one module would be out of TLC's reach.
