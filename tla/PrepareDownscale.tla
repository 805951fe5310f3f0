-------------------------- MODULE PrepareDownscale --------------------------
(***************************************************************************)
(* The prepare-downscale webhook (pkg/admission/prep_downscale.go and      *)
(* zone_tracker.go): before the API server lowers the replicas of a        *)
(* StatefulSet, the pods that go away are asked to prepare and the time of *)
(* the downscale is stored, in an annotation of the StatefulSet or in one  *)
(* ConfigMap for the namespace.  Other StatefulSets of the rollout group   *)
(* must not have been downscaled recently.                                 *)
(*                                                                         *)
(* Each request is a goroutine of its own; a step ends where it calls the  *)
(* API server or the pods.                                                 *)
(***************************************************************************)
EXTENDS Integers, FiniteSets

CONSTANTS
    Set,            \* StatefulSets that are labelled and annotated for the webhook
    Group,          \* the rollout group of each
    MinTime,        \* min-time-between-zones-downscale of each
    Second,         \* ticks of the clock in a second
    Replicas,       \* bound: replicas of a StatefulSet
    Req,            \* requests in flight
    UseZoneTracker, \* the values of the -use-zone-tracker flag to start with
    Serial,         \* assumption: requests of one group do not overlap
    MaxTime,        \* bound: the clock
    MaxFaults       \* bound: failing calls

ASSUME SetAssumption == DOMAIN Group = Set /\ MinTime \in [Set -> Nat] /\ Second \in Nat \ {0}
ASSUME SwitchAssumption == UseZoneTracker \subseteq BOOLEAN /\ Serial \in BOOLEAN
ASSUME BoundAssumption == Replicas \in Nat \ {0} /\ MaxTime \in Nat /\ MaxFaults \in Nat

VARIABLES
    tracker,   \* the flag: times are kept in the ConfigMap, not in annotations
    now,       \* the clock
    replicas,  \* spec.replicas of each set
    steady,    \* all pods of the set are ready and updated, and the status says so
    mapExists, \* the zone ConfigMap has been created
    stored,    \* the stored time of each set's last downscale, if any
    prepared,  \* pods that are prepared for shutdown
    req,       \* the requests
    granted,   \* when a downscale of each set was last checked and allowed
    leftover,  \* pods whose preparation a failed call or a rejection left behind
    faults     \* failing calls so far

vars == <<tracker, now, replicas, steady, mapExists, stored, prepared, req, granted, leftover, faults>>
cluster == <<tracker, now, replicas, steady>>
store == <<mapExists, stored, granted>>
pods == <<prepared, leftover>>

Time == 0..MaxTime
Pod == Set \X (0..(Replicas - 1))
Times == UNION {[S -> Time] : S \in SUBSET Set}
NoTimes == [z \in {} |-> 0]
With(times, z, t) == [w \in DOMAIN times \cup {z} |-> IF w = z THEN t ELSE times[w]]

\* A time that is stored is formatted to the second (time.RFC3339).
Formatted(t) == Second * (t \div Second)

Idle == [pc |-> "idle"]
Request == [pc : {"load", "create", "check", "prepare", "record", "undo", "allowed",
                  "unchecked"},
            set : Set, old : 0..Replicas, new : 0..Replicas, seen : Times]

InGroup(z) == {w \in Set : Group[w] = Group[z]}
Active(r) == req[r].pc # "idle"
Checked(r) == req[r].pc \notin {"idle", "unchecked"}
Allowed(r) == req[r].pc \in {"allowed", "unchecked"}

\* The pods that a downscale removes.
createEndpointsMutant(q) == {<<q.set, i>> : i \in q.new + 1..q.old - 1}

createEndpointsMutant2(q) == {<<q.set, i>> : i \in q.new..q.old}

createEndpoints(q) == {<<q.set, i>> : i \in q.new..q.old - 1}

Init ==
    /\ tracker \in UseZoneTracker
    /\ now = 0
    /\ replicas = [z \in Set |-> Replicas]
    /\ steady = [z \in Set |-> TRUE]
    /\ mapExists = FALSE
    /\ stored = NoTimes
    /\ prepared = {}
    /\ req = [r \in Req |-> Idle]
    /\ granted = NoTimes
    /\ leftover = {}
    /\ faults = 0

-----------------------------------------------------------------------------
(* The handler.                                                            *)

Goto(r, pc) == req' = [req EXCEPT ![r].pc = pc]
Deny(r) == req' = [req EXCEPT ![r] = Idle]
Fault == faults < MaxFaults /\ faults' = faults + 1

\* The assumption on when a request may arrive.
Admitted(r, z) ==
    Serial => \A s \in Req \ {r} : Active(s) => Group[req[s].set] # Group[z]

\* A request that lowers the replicas of set z to n.  Any other one is allowed
\* as it is.
ReceiveRequest(r, z, n) ==
    /\ req[r].pc = "idle"
    /\ n < replicas[z]
    /\ Admitted(r, z)
    /\ req' = [req EXCEPT ![r] = [pc |-> "load", set |-> z, old |-> replicas[z], new |-> n,
                                  seen |-> NoTimes]]
    /\ UNCHANGED <<cluster, store, pods, faults>>

\* A request for the scale subresource whose StatefulSet cannot be looked up is
\* allowed as it is: no check, no preparation, no stored time.
getStatefulSetFails(r, z, n) ==
    /\ req[r].pc = "idle"
    /\ n < replicas[z]
    /\ Admitted(r, z)
    /\ Fault
    /\ req' = [req EXCEPT ![r] = [pc |-> "unchecked", set |-> z, old |-> replicas[z], new |-> n,
                                  seen |-> NoTimes]]
    /\ UNCHANGED <<cluster, store, pods>>

\* The stored times are read.
LoadZones(r) ==
    /\ req[r].pc = "load"
    /\ req' = [req EXCEPT ![r].seen = stored,
                          ![r].pc = IF tracker /\ ~mapExists THEN "create" ELSE "check"]
    /\ UNCHANGED <<cluster, store, pods, faults>>

\* Once the StatefulSet is known, and before its pods are prepared, a call that
\* fails denies the request.
CallFails(r) ==
    /\ req[r].pc \in {"load", "create", "check"}
    /\ Fault
    /\ Deny(r)
    /\ UNCHANGED <<cluster, store, pods>>

\* A missing ConfigMap is created, with the current time for every set of the
\* group.  Creating one that exists by now is an error.
createConfigMap(r) ==
    LET q == req[r]
        times == [w \in InGroup(q.set) |-> Formatted(now)]
    IN  /\ q.pc = "create"
        /\ IF mapExists
           THEN Deny(r) /\ UNCHANGED <<mapExists, stored>>
           ELSE /\ req' = [req EXCEPT ![r].seen = times, ![r].pc = "check"]
                /\ mapExists' = TRUE
                /\ stored' = times
        /\ UNCHANGED <<cluster, granted, pods, faults>>

\* Another set of the group was downscaled less than its minimum time ago.
findDownscalesDoneMinTimeAgoMutant(q) ==
    \E w \in (InGroup(q.set) \cap DOMAIN q.seen) \ {q.set} : now - q.seen[w] < MinTime[q.set]

findDownscalesDoneMinTimeAgo(q) ==
    \E w \in (InGroup(q.set) \cap DOMAIN q.seen) \ {q.set} : now - q.seen[w] < MinTime[w]

\* Another set of the group has pods that are not updated or not ready.
findStatefulSetWithNonUpdatedReplicas(q) == \E w \in InGroup(q.set) \ {q.set} : ~steady[w]

\* The zone tracker then takes a lock on the group.  The tracker, and with it the
\* lock, is created by PrepareDownscale for this one request: it is always free.
CheckOthers(r) ==
    /\ req[r].pc = "check"
    /\ IF findDownscalesDoneMinTimeAgo(req[r]) \/ findStatefulSetWithNonUpdatedReplicas(req[r])
       THEN Deny(r)
       ELSE Goto(r, "prepare")
    /\ UNCHANGED <<cluster, store, pods, faults>>

\* Every pod is sent a POST.  When one fails the others are cancelled: any of
\* them may or may not have been prepared.
sendPrepareShutdownRequests(r) ==
    LET eps == createEndpoints(req[r])
    IN  /\ req[r].pc = "prepare"
        /\ \/ prepared' = prepared \cup eps /\ Goto(r, "record") /\ UNCHANGED faults
           \/ /\ Fault
              /\ \E done \in SUBSET eps : prepared' = prepared \cup done
              /\ Goto(r, "undo")
        /\ UNCHANGED <<cluster, store, leftover>>

\* The annotation is patched on its own, while the ConfigMap is replaced by what
\* this request loaded and the new time.
setDownscaled(q) ==
    stored' = With(IF tracker THEN q.seen ELSE stored, q.set, Formatted(now))

afterFailedRecordMutant(r) == Deny(r)

afterFailedRecord(r) == Goto(r, "undo")

\* The time is stored and the downscale allowed.  A call that fails may have
\* stored it.
Record(r) ==
    /\ req[r].pc = "record"
    /\ \/ /\ setDownscaled(req[r])
          /\ granted' = With(granted, req[r].set, now)
          /\ Goto(r, "allowed")
          /\ UNCHANGED faults
       \/ /\ Fault
          /\ setDownscaled(req[r]) \/ UNCHANGED stored
          /\ afterFailedRecord(r)
          /\ UNCHANGED granted
    /\ UNCHANGED <<cluster, mapExists, pods>>

\* Every pod is sent a DELETE; failures are only logged.
undoPrepareShutdownRequests(r) ==
    LET eps == createEndpoints(req[r])
    IN  /\ req[r].pc = "undo"
        /\ \/ prepared' = prepared \ eps /\ leftover' = leftover \ eps /\ UNCHANGED faults
           \/ /\ Fault
              /\ \E done \in (SUBSET eps) \ {eps} :
                    /\ prepared' = prepared \ done
                    /\ leftover' = (leftover \ done) \cup (prepared \cap (eps \ done))
        /\ Deny(r)
        /\ UNCHANGED <<cluster, store>>

-----------------------------------------------------------------------------
(* The API server and the cluster.                                         *)

\* An allowed request lowers the replicas, unless they changed in between, and
\* the pods are gone.
Apply(r) ==
    LET q == req[r]
        eps == {p \in Pod : p[1] = q.set /\ p[2] >= q.new}
    IN  /\ Allowed(r) /\ replicas[q.set] = q.old
        /\ replicas' = [replicas EXCEPT ![q.set] = q.new]
        /\ prepared' = prepared \ eps /\ leftover' = leftover \ eps
        /\ Deny(r)
        /\ UNCHANGED <<tracker, now, steady, store, faults>>

\* Or it fails after all, by a conflict or another webhook: nobody tells the pods.
Reject(r) ==
    /\ Allowed(r)
    /\ leftover' = IF Checked(r) THEN leftover \cup (prepared \cap createEndpoints(req[r]))
                   ELSE leftover
    /\ Deny(r)
    /\ UNCHANGED <<cluster, store, prepared, faults>>

ScaleUp(z) ==
    /\ replicas[z] < Replicas
    /\ replicas' = [replicas EXCEPT ![z] = @ + 1]
    /\ UNCHANGED <<tracker, now, steady, store, pods, req, faults>>

\* Pods restart or get ready, a rollout starts or ends.
PodsChange(z) ==
    /\ steady' = [steady EXCEPT ![z] = ~@]
    /\ UNCHANGED <<tracker, now, replicas, store, pods, req, faults>>

Tick ==
    /\ now < MaxTime
    /\ now' = now + 1
    /\ UNCHANGED <<tracker, replicas, steady, store, pods, req, faults>>

Handler(r) ==
    \/ \E z \in Set, n \in 0..Replicas : ReceiveRequest(r, z, n) \/ getStatefulSetFails(r, z, n)
    \/ LoadZones(r) \/ createConfigMap(r) \/ CallFails(r) \/ CheckOthers(r)
    \/ sendPrepareShutdownRequests(r) \/ Record(r) \/ undoPrepareShutdownRequests(r)

Next ==
    \/ \E r \in Req : Handler(r) \/ Apply(r) \/ Reject(r)
    \/ \E z \in Set : ScaleUp(z) \/ PodsChange(z)
    \/ Tick

Spec == Init /\ [][Next]_vars

-----------------------------------------------------------------------------
(* Properties.                                                             *)

TypeOK ==
    /\ tracker \in UseZoneTracker /\ now \in Time
    /\ replicas \in [Set -> 0..Replicas] /\ steady \in [Set -> BOOLEAN]
    /\ mapExists \in BOOLEAN /\ stored \in Times /\ granted \in Times
    /\ prepared \subseteq Pod /\ leftover \subseteq Pod
    /\ req \in [Req -> {Idle} \cup Request]
    /\ faults \in 0..MaxFaults

\* Two StatefulSets of a rollout group pass the webhook's check only with the
\* minimum time of the first between them, less what findDownscalesDoneMinTimeAgo
\* loses by reading a time that was stored in whole seconds.  Nothing is promised
\* of a downscale that is let through because getStatefulSetPrepareInfo failed.
ZonesApart ==
    \A z, w \in DOMAIN granted :
        z # w /\ Group[z] = Group[w] /\ granted[z] <= granted[w]
            => granted[w] - granted[z] > MinTime[z] - Second

\* The API server removes only replicas whose pods sendPrepareShutdownRequests
\* has prepared, and no undo has reached since, except for a request that was
\* let through because getStatefulSetPrepareInfo failed.
PreparedWhenApplied ==
    [][\A z \in Set :
          \/ {<<z, i>> : i \in replicas'[z]..replicas[z] - 1} \subseteq prepared
          \/ \E r \in Req : req[r].pc = "unchecked" /\ req[r].set = z /\ Apply(r)]_vars

\* A pod is prepared only while a request that prepares it is in flight, unless a call
\* to it failed or the API server rejected the downscale that the webhook allowed.
NothingLeftPrepared ==
    prepared \subseteq leftover \cup UNION {createEndpoints(req[r]) : r \in {s \in Req : Checked(s)}}
=============================================================================
