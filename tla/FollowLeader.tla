---------------------------- MODULE FollowLeader ----------------------------
(***************************************************************************)
(* Leader and follower replicas (pkg/controller/replicas.go): in each      *)
(* reconcile of a rollout group at most one StatefulSet is scaled to the   *)
(* replicas of the set it follows.  What the operator and the users ask    *)
(* for passes the admission webhooks of pkg/admission: prepare-downscale,  *)
(* which stores the time of a downscale and keeps the downscales of a      *)
(* group apart, and then no-downscale, since mutating webhooks come before *)
(* validating ones.  PrepareDownscale has the steps of the first handler;  *)
(* here a request is one step.                                             *)
(*                                                                         *)
(* The StatefulSets of the group are 1..NumSets, in the order of their     *)
(* names.  Points in time are kept as ages in seconds, the unit of the     *)
(* stored times; ages above every minimum time are not told apart.         *)
(***************************************************************************)
EXTENDS Integers, FiniteSetsExt

CONSTANTS
    NumSets,        \* StatefulSets of the rollout group
    Configs,        \* the annotations and labels to choose from, see Config
    MaxReplicas,    \* bound: replicas of a set
    MaxMinTime,     \* bound: minimum times
    MaxEdits,       \* bound: requests of the users
    StatusPrompt    \* assumption: a set's status is current when its replicas are
                    \* changed by a user

Set == 1..NumSets
NoLeader == 0
Missing == NumSets + 1
Never == -1
None == -1

Config == [replicas : [Set -> 0..MaxReplicas],  \* to start with
           max : 0..MaxReplicas,                \* bound: what users ask for
           scaled : SUBSET Set,                 \* bound: the sets that users scale
           forced : SUBSET Set,                 \* bound: the sets that they force
           faults : Nat,                        \* bound: failing calls and pods
           leader : [Set -> 0..NumSets + 1],    \* rollout-downscale-leader
           whenReady : [Set -> BOOLEAN],        \* rollout-upscale-only-when-leader-ready
           minTime : [Set -> (0..MaxMinTime) \cup {None}], \* min-time-between-zones-downscale, or None
           noDownscale : SUBSET Set]            \* labelled no-downscale

ASSUME ConfigAssumption == Configs \subseteq Config
ASSUME BoundAssumption ==
    /\ NumSets \in Nat \ {0} /\ MaxReplicas \in Nat \ {0} /\ MaxMinTime \in Nat
    /\ MaxEdits \in Nat /\ StatusPrompt \in BOOLEAN

VARIABLES
    cfg,     \* the annotations and labels
    obj,     \* the StatefulSets at the API server
    up,      \* their ready pods
    cache,   \* the StatefulSets in the informer's cache
    rec,     \* the patch that the reconcile is about to send
    granted, \* age of the last downscale that the webhooks checked and allowed
    edits,   \* requests of the users so far
    faults   \* failing calls and pods so far

vars == <<cfg, obj, up, cache, rec, granted, edits, faults>>

MaxAge == MaxMinTime + 1
Age == 0..MaxAge
Count == 0..MaxReplicas

\* spec.replicas, status.replicas, status.readyReplicas, the age of the time in
\* the last-downscale annotation, the force-replicas annotation, and, as history,
\* whether this number of replicas has been ready at once.
StatefulSet == [replicas : Count, created : Count, ready : Count, last : Age \cup {Never},
                force : Count \cup {None}, full : BOOLEAN]

Idle == [pc |-> "idle"]
Patching == [pc : {"patch"}, set : Set, replicas : Count]

Older(a) == IF a \in {Never, MaxAge} THEN a ELSE a + 1

Init ==
    /\ cfg \in Configs
    /\ up = cfg.replicas
    /\ obj = [z \in Set |-> [replicas |-> up[z], created |-> up[z], ready |-> up[z],
                             last |-> Never, force |-> None, full |-> TRUE]]
    /\ cache = obj
    /\ rec = Idle
    /\ granted = [z \in Set |-> Never]
    /\ edits = 0 /\ faults = 0

Fault == faults < cfg.faults /\ faults' = faults + 1

-----------------------------------------------------------------------------
(* The controller.  The operators of this section are evaluated on the     *)
(* list of sets that the reconcile took from the informer's cache.         *)

\* The other sets' last downscales; the set's own may be as recent as it likes.
getMostRecentDownscale(sets, z) == {sets[w].last : w \in Set \ {z}} \ {Never}

\* Nothing was downscaled, or longer ago than the set's own minimum time.
minimumTimeHasElapsed(sets, z) ==
    \A a \in getMostRecentDownscale(sets, z) : a > cfg.minTime[z]

\* The configured leader does not exist, or a minimum time is called for and
\* there is none.
desiredFails(sets, z) ==
    \/ cfg.leader[z] = Missing
    \/ /\ cfg.leader[z] \in Set /\ sets[z].force = None
       /\ sets[cfg.leader[z]].replicas < sets[z].replicas
       /\ getMostRecentDownscale(sets, z) # {} /\ cfg.minTime[z] = None

getForceReplicasOverrideMutant(s) == TRUE

getForceReplicasOverride(s) == s.force # None

desiredStsReplicasMutant(sets, z) ==
    LET leader == sets[cfg.leader[z]]
    IN  IF cfg.leader[z] = NoLeader THEN sets[z].replicas
        ELSE IF getForceReplicasOverride(sets[z]) THEN sets[z].force
        ELSE IF leader.replicas > sets[z].replicas \/ minimumTimeHasElapsed(sets, z)
             THEN leader.replicas ELSE sets[z].replicas

desiredStsReplicas(sets, z) ==
    LET own == sets[z].replicas
        leader == sets[cfg.leader[z]]
    IN  IF cfg.leader[z] = NoLeader THEN own
        ELSE IF getForceReplicasOverride(sets[z]) THEN sets[z].force
        ELSE IF leader.replicas > own
             THEN IF cfg.whenReady[z] /\ leader.replicas # leader.ready THEN own ELSE leader.replicas
        ELSE IF leader.replicas < own /\ minimumTimeHasElapsed(sets, z) THEN leader.replicas
        ELSE own

\* The loop over the sets ends at the first one that is to be changed or whose
\* replicas cannot be determined; the error is logged and the reconcile goes on
\* to the rollout.
LoopEndsMutant(sets) ==
    {z \in Set : desiredFails(sets, z) \/ cfg.leader[z] # NoLeader}

LoopEnds(sets) ==
    {z \in Set : desiredFails(sets, z) \/ desiredStsReplicas(sets, z) # sets[z].replicas}

adjustStatefulSetsGroupReplicasToFollowLeader ==
    /\ rec = Idle
    /\ LoopEnds(cache) # {}
    /\ LET z == Min(LoopEnds(cache))
       IN  /\ ~desiredFails(cache, z)
           /\ rec' = [pc |-> "patch", set |-> z, replicas |-> desiredStsReplicas(cache, z)]
    /\ UNCHANGED <<cfg, obj, up, cache, granted, edits, faults>>

-----------------------------------------------------------------------------
(* The API server and the webhooks: a request to give set z n replicas.    *)

\* The replicas change.  A pod that is no longer wanted is gone.
SetReplicas(z, n, last) ==
    /\ up' = [up EXCEPT ![z] = IF n < @ THEN n ELSE @]
    /\ obj' = [obj EXCEPT ![z].replicas = n, ![z].last = last, ![z].full = up[z] >= n]

\* Another set was downscaled less than that set's minimum time ago, by the
\* stored times of the live objects.
findDownscalesDoneMinTimeAgoMutant(z) ==
    \E w \in Set \ {z} : cache[w].last # Never /\ cache[w].last < cfg.minTime[w]

findDownscalesDoneMinTimeAgo(z) ==
    \E w \in Set \ {z} : obj[w].last # Never /\ obj[w].last < cfg.minTime[w]

findStatefulSetWithNonUpdatedReplicas(z) == \E w \in Set \ {z} : obj[w].created # up[w]

\* prepare-downscale denies the downscale before anything is changed.
Refused(z) == findDownscalesDoneMinTimeAgo(z) \/ findStatefulSetWithNonUpdatedReplicas(z)

addDownscaledAnnotationToStatefulSet(z) ==
    /\ obj' = [obj EXCEPT ![z].last = 0]
    /\ UNCHANGED <<up, granted>>

NoDownscale(z) == z \in cfg.noDownscale

CheckedDownscale(z, n) ==
    /\ SetReplicas(z, n, 0)
    /\ granted' = [granted EXCEPT ![z] = 0]

\* The pods are prepared and the time is stored, and only then is no-downscale
\* asked: the time stays when it denies the request.
PrepareDownscale(z, n) ==
    /\ n < obj[z].replicas /\ ~Refused(z)
    /\ IF NoDownscale(z) THEN addDownscaledAnnotationToStatefulSet(z) ELSE CheckedDownscale(z, n)

\* No downscale: the webhooks have nothing to say.
Upscale(z, n) ==
    /\ n >= obj[z].replicas
    /\ SetReplicas(z, n, obj[z].last)
    /\ UNCHANGED granted

\* The request fails for another reason, with the time stored or not.
RequestFails(z, n) ==
    /\ Fault
    /\ \/ UNCHANGED <<obj, up, granted>>
       \/ /\ n < obj[z].replicas /\ ~Refused(z)
          /\ addDownscaledAnnotationToStatefulSet(z)

\* The patch replaces the replicas, whatever they are by now.  A denial and a
\* failed call end the reconcile alike.
patchStatefulSetSpecReplicas ==
    LET z == rec.set
        n == rec.replicas
    IN  /\ rec # Idle
        /\ rec' = Idle
        /\ \/ (Upscale(z, n) \/ PrepareDownscale(z, n)) /\ UNCHANGED faults
           \/ n < obj[z].replicas /\ Refused(z) /\ UNCHANGED <<obj, up, granted, faults>>
           \/ RequestFails(z, n)
        /\ UNCHANGED <<cfg, cache, edits>>

\* A user or an autoscaler asks for n replicas.  When the request is for the
\* scale subresource each webhook looks up the StatefulSet, and allows the change
\* unchecked if that fails.  The first case is that prepare-downscale does, and
\* no-downscale too if the set is labelled; the second that only no-downscale does.
allowBecauseCannotGetResource(z, n) ==
    /\ Fault /\ n < obj[z].replicas
    /\ \/ SetReplicas(z, n, obj[z].last) /\ UNCHANGED granted
       \/ ~Refused(z) /\ NoDownscale(z) /\ CheckedDownscale(z, n)

UserScales(z, n) ==
    /\ edits < MaxEdits /\ edits' = edits + 1
    /\ n # obj[z].replicas /\ n <= cfg.max
    /\ StatusPrompt => obj[z].created = obj[z].replicas /\ obj[z].ready = up[z]
    /\ \/ (Upscale(z, n) \/ PrepareDownscale(z, n)) /\ UNCHANGED faults
       \/ allowBecauseCannotGetResource(z, n) \/ RequestFails(z, n)
    /\ UNCHANGED <<cfg, cache, rec>>

\* The force-replicas annotation of a set is written or removed.
UserForces(z, n) ==
    /\ edits < MaxEdits /\ edits' = edits + 1
    /\ n # obj[z].force /\ n <= cfg.max
    /\ obj' = [obj EXCEPT ![z].force = n]
    /\ UNCHANGED <<cfg, up, cache, rec, granted, faults>>

-----------------------------------------------------------------------------
(* The cluster.                                                            *)

\* Events of one kind of object arrive in the order of the changes, so that the
\* cache as a whole is the collection as it was at some time.
InformerSync ==
    /\ cache # obj
    /\ cache' = obj
    /\ UNCHANGED <<cfg, obj, up, rec, granted, edits, faults>>

PodReady(z) ==
    /\ up[z] < obj[z].replicas
    /\ up' = [up EXCEPT ![z] = @ + 1]
    /\ obj' = [obj EXCEPT ![z].full = @ \/ up[z] + 1 = obj[z].replicas]
    /\ UNCHANGED <<cfg, cache, rec, granted, edits, faults>>

PodFails(z) ==
    /\ up[z] > 0 /\ Fault
    /\ up' = [up EXCEPT ![z] = @ - 1]
    /\ UNCHANGED <<cfg, obj, cache, rec, granted, edits>>

\* The StatefulSet controller writes the status.
StatusWritten(z) ==
    /\ obj[z].created # obj[z].replicas \/ obj[z].ready # up[z]
    /\ obj' = [obj EXCEPT ![z].created = obj[z].replicas, ![z].ready = up[z]]
    /\ UNCHANGED <<cfg, up, cache, rec, granted, edits, faults>>

Tick ==
    /\ obj' = [z \in Set |-> [obj[z] EXCEPT !.last = Older(@)]]
    /\ cache' = [z \in Set |-> [cache[z] EXCEPT !.last = Older(@)]]
    /\ granted' = [z \in Set |-> Older(granted[z])]
    /\ UNCHANGED <<cfg, up, rec, edits, faults>>

Controller == adjustStatefulSetsGroupReplicasToFollowLeader \/ patchStatefulSetSpecReplicas

Next ==
    \/ Controller \/ InformerSync \/ Tick
    \/ \E z \in Set : PodReady(z) \/ PodFails(z) \/ StatusWritten(z)
    \/ \E z \in cfg.scaled, n \in Count : UserScales(z, n)
    \/ \E z \in cfg.forced, n \in Count \cup {None} : UserForces(z, n)

\* The controller's loop runs at least once per resync period, informers and the
\* StatefulSet controller make progress, and time passes.
Fairness ==
    /\ WF_vars(Controller) /\ WF_vars(InformerSync) /\ WF_vars(Tick)
    /\ WF_vars(\E z \in Set : PodReady(z) \/ StatusWritten(z))

Spec == Init /\ [][Next]_vars
LiveSpec == Spec /\ Fairness

-----------------------------------------------------------------------------
(* Properties.                                                             *)

TypeOK ==
    /\ cfg \in Configs
    /\ obj \in [Set -> StatefulSet] /\ cache \in [Set -> StatefulSet]
    /\ up \in [Set -> Count] /\ granted \in [Set -> Age \cup {Never}]
    /\ rec \in {Idle} \cup Patching
    /\ edits \in 0..MaxEdits /\ faults \in 0..cfg.faults

\* README: downscales of two zones are at least the minimum time of the first
\* apart.  The controller decides on what its cache holds and its patch replaces
\* whatever is there, so a patch meant as a scale-up may be a downscale, and a
\* forced one is not checked at all: it is the webhook's second look, at the live
\* objects, that keeps them apart.  Downscales that were let through because a
\* lookup failed are not counted.
DownscalesApart ==
    [][\A w \in Set : obj'[w].replicas < obj[w].replicas /\ faults' = faults =>
          \A z \in Set \ {w} : granted[z] = Never \/ granted[z] >= cfg.minTime[z]]_vars

\* README: a follower with the leader-ready annotation is scaled up only once all
\* replicas of the leader are ready.  In the copy that desiredStsReplicas decides
\* on, the leader's pods have all been ready since its replicas last changed.
ScaleUpWaitsForLeader ==
    [][LET z == rec'.set
       IN  /\ rec = Idle /\ rec' # Idle
           /\ cfg.whenReady[z] /\ cache[z].force = None /\ rec'.replicas > cache[z].replicas
           => cache[cfg.leader[z]].full]_vars

Wanted(z) == IF obj[z].force = None THEN obj[cfg.leader[z]].replicas ELSE obj[z].force

\* Each patch of the set is denied by no-downscale, after its time was stored.
Balks(z) == cfg.leader[z] \in Set /\ NoDownscale(z) /\ Wanted(z) < obj[z].replicas

\* A set at which the loop may end in each reconcile, with an error or a denial.
Stuck(z) ==
    cfg.leader[z] = Missing \/ Balks(z) \/ (cfg.leader[z] # NoLeader /\ cfg.minTime[z] = None)

\* Once users and pods rest, every follower reaches the replicas of its leader, or
\* the forced ones, whatever was denied, lost or decided on an old copy before.
\* An error or a denial ends adjustStatefulSetsGroupReplicasToFollowLeader for the
\* sets after it too, so this is promised only up to the first set that is stuck.
\* A labelled set that cannot follow its leader down has the time of its last
\* downscale stored again by each attempt, which keeps the others from following
\* theirs down, but not up.
FollowersConverge ==
    <>[](\A z \in Set : cfg.leader[z] # NoLeader /\ (\A w \in 1..z : ~Stuck(w)) =>
            \/ obj[z].replicas = Wanted(z)
            \/ obj[z].replicas > Wanted(z) /\ \E w \in Set : Balks(w))
=============================================================================
