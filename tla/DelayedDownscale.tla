-------------------------- MODULE DelayedDownscale --------------------------
(***************************************************************************)
(* StatefulSets whose replicas mirror a reference resource, with delayed   *)
(* downscale (pkg/controller/custom_resource_replicas.go and delay.go).    *)
(* The operator keeps no state of its own: every reconcile reads the       *)
(* reference, sends DELETE to the pods that stay and POST to the pods that *)
(* go, and removes those at the end of the range that have been prepared   *)
(* for the delay.  The StatefulSets come from the informer's cache, all    *)
(* else is read from and written to the API server and the pods.           *)
(***************************************************************************)
EXTENDS Integers, FiniteSetsExt

CONSTANTS
    NumSets,           \* StatefulSets of the group, in the order of their names
    MaxReplicas,       \* bound: replicas of each
    Delay,             \* rollout-delayed-downscale, in seconds
    Denied,            \* sets whose downscale the no-downscale webhook denies
    ExcludeFromStatus, \* the exclude-from-status-replicas annotation
    InformerPrompt,    \* assumption: the cache is current when a reconcile starts
    MaxEdits,          \* bound: changes of the references
    MaxFaults          \* bound: failing calls, pods that lose their preparation

Set == 1..NumSets

ASSUME SizeAssumption == NumSets \in Nat \ {0} /\ MaxReplicas \in Nat \ {0} /\ Delay \in Nat \ {0}
ASSUME SwitchAssumption ==
    Denied \subseteq Set /\ ExcludeFromStatus \in BOOLEAN /\ InformerPrompt \in BOOLEAN
ASSUME BoundAssumption == MaxEdits \in Nat /\ MaxFaults \in Nat

VARIABLES
    desired,   \* spec.replicas of each set's reference, or the force-replicas annotation
    refStatus, \* status.replicas of the reference
    replicas,  \* spec.replicas of the StatefulSet
    cache,     \* the informer's copy of it
    age,       \* seconds since each pod was prepared, up to Delay, or None
    rc,        \* where the reconcile stands
    edits,     \* changes of references so far
    faults     \* failures so far

vars == <<desired, refStatus, replicas, cache, age, rc, edits, faults>>
reference == <<desired, edits>>

None == -1
Count == 0..MaxReplicas
Replica == 0..MaxReplicas - 1
Idle == [pc |-> "idle"]
Reconcile ==
    [pc : {"read", "synced", "cancel", "post", "patch", "status"}, set : Set, cur : [Set -> Count],
     want : Count, seen : Count, to : Count, prepared : Count, patched : BOOLEAN]

Init ==
    \E n \in Count :
      /\ desired = [z \in Set |-> n] /\ refStatus = desired
      /\ replicas = desired /\ cache = desired
      /\ age = [z \in Set |-> [i \in Replica |-> None]]
      /\ rc = Idle
      /\ edits = 0 /\ faults = 0

Fault == faults < MaxFaults /\ faults' = faults + 1
Goto(pc) == rc' = [rc EXCEPT !.pc = pc]
Cur == rc.cur[rc.set]
NextSet == rc' = IF rc.set = NumSets THEN Idle ELSE [rc EXCEPT !.pc = "read", !.set = @ + 1]

\* The pods of set z that exist.
Running(z) == 0..replicas[z] - 1

-----------------------------------------------------------------------------
(* adjustStatefulSetsGroupReplicasToMirrorResource, set by set.            *)

StartReconcile ==
    /\ rc = Idle
    /\ InformerPrompt => cache = replicas
    /\ rc' = [pc |-> "read", set |-> 1, cur |-> cache, want |-> 0, seen |-> 0, to |-> 0,
              prepared |-> 0, patched |-> FALSE]
    /\ UNCHANGED <<reference, refStatus, replicas, cache, age, faults>>

\* The reference is read.  A failure ends the loop over the sets.
ReadReference ==
    LET z == rc.set
    IN  /\ rc.pc = "read"
        /\ \/ /\ rc' = [rc EXCEPT !.want = desired[z], !.seen = refStatus[z], !.to = desired[z],
                                  !.prepared = 0, !.patched = FALSE,
                                  !.pc = IF Cur = desired[z] THEN "synced" ELSE "cancel"]
              /\ UNCHANGED faults
           \/ Fault /\ rc' = Idle
        /\ UNCHANGED <<reference, refStatus, replicas, cache, age>>

\* The status of the reference is patched when it differs from what was read;
\* a failure is only logged.
updateStatusReplicasOnReferenceResourceIfNeeded(n) ==
    \/ /\ refStatus' = IF rc.seen = n THEN refStatus ELSE [refStatus EXCEPT ![rc.set] = n]
       /\ UNCHANGED faults
    \/ rc.seen # n /\ Fault /\ UNCHANGED refStatus

SyncStatusMutant ==
    /\ rc.pc = "synced"
    /\ Goto("cancel")
    /\ UNCHANGED <<reference, refStatus, replicas, cache, age, faults>>

SyncStatus ==
    /\ rc.pc = "synced"
    /\ updateStatusReplicasOnReferenceResourceIfNeeded(rc.want)
    /\ Goto("cancel")
    /\ UNCHANGED <<reference, replicas, cache, age>>

\* The pods that stay, as far as the cache knows them.
cancelEndpointsMutant == IF rc.want < Cur THEN 0..rc.want - 1 ELSE {}

cancelEndpoints == 0..(IF rc.want < Cur THEN rc.want ELSE Cur) - 1

\* DELETE to the pods that stay, whatever they answer.
callCancelDelayedDownscale ==
    LET eps == cancelEndpoints \cap Running(rc.set)
    IN  /\ rc.pc = "cancel"
        /\ \E done \in SUBSET eps :
              /\ IF done = eps THEN UNCHANGED faults ELSE Fault
              /\ age' = [age EXCEPT ![rc.set] = [i \in Replica |-> IF i \in done THEN None ELSE @[i]]]
        /\ IF rc.want = Cur THEN NextSet ELSE Goto(IF rc.want > Cur THEN "patch" ELSE "post")
        /\ UNCHANGED <<reference, refStatus, replicas, cache>>

\* POST prepares a pod that is not prepared, and answers since when it is.
Posted(ages, done) == [i \in Replica |-> IF i \in done /\ ages[i] = None THEN 0 ELSE ages[i]]

\* The replicas at the end of the range that have been prepared for the delay can go.
allowedDesiredReplicasMutant(ages) ==
    Cur - Cardinality({i \in rc.want..Cur - 1 : ages[i] >= Delay})

allowedDesiredReplicas(ages) ==
    Min({n \in rc.want..Cur : \A i \in n..Cur - 1 : ages[i] >= Delay})

\* How many replicas count as prepared after a failed call: those that answered.
preparedAfterErrorMutant(answered) == Cur - rc.want

preparedAfterError(answered) == Cardinality(answered)

callPrepareDownscale ==
    LET z == rc.set
        eps == rc.want..Cur - 1
        ages == Posted(age[z], eps)
        to == allowedDesiredReplicas(ages)
    IN  /\ rc.pc = "post"
        /\ \/ /\ eps \subseteq Running(z)
              /\ age' = [age EXCEPT ![z] = ages]
              /\ rc' = [rc EXCEPT !.to = to, !.prepared = to - rc.want,
                                  !.pc = IF to = Cur THEN "status" ELSE "patch"]
              /\ UNCHANGED faults
           \/ /\ IF eps \subseteq Running(z) THEN Fault ELSE UNCHANGED faults
              /\ \E done \in SUBSET (eps \cap Running(z)) : \E answered \in SUBSET done :
                    /\ answered # eps
                    /\ age' = [age EXCEPT ![z] = Posted(@, done)]
                    /\ rc' = [rc EXCEPT !.to = Cur, !.prepared = preparedAfterError(answered),
                                        !.pc = "status"]
        /\ UNCHANGED <<reference, refStatus, replicas, cache>>

\* spec.replicas is set, whatever it is by now.  A downscale that is denied, or
\* a failing call, ends the loop over the sets.
patchStatefulSetSpecReplicas ==
    LET z == rc.set
        scaled == /\ replicas' = [replicas EXCEPT ![z] = rc.to]
                  /\ age' = [age EXCEPT ![z] = [i \in Replica |-> IF i < rc.to THEN @[i] ELSE None]]
    IN  /\ rc.pc = "patch"
        /\ \/ /\ ~(z \in Denied /\ rc.to < replicas[z])
              /\ scaled
              /\ rc' = [rc EXCEPT !.pc = "status", !.patched = TRUE]
              /\ UNCHANGED faults
           \/ /\ z \in Denied /\ rc.to < replicas[z]
              /\ rc' = Idle
              /\ UNCHANGED <<replicas, age, faults>>
           \/ /\ Fault
              /\ scaled \/ UNCHANGED <<replicas, age>>
              /\ rc' = Idle
        /\ UNCHANGED <<reference, refStatus, cache>>

WriteStatusMutant ==
    /\ rc.pc = "status"
    /\ updateStatusReplicasOnReferenceResourceIfNeeded(rc.want - rc.prepared)
    /\ IF rc.patched THEN rc' = Idle ELSE NextSet
    /\ UNCHANGED <<reference, replicas, cache, age>>

\* The status is written back, with or without the prepared replicas; after a
\* change the loop over the sets ends.
WriteStatus ==
    /\ rc.pc = "status"
    /\ updateStatusReplicasOnReferenceResourceIfNeeded(
          IF ExcludeFromStatus THEN rc.to - rc.prepared ELSE rc.to)
    /\ IF rc.patched THEN rc' = Idle ELSE NextSet
    /\ UNCHANGED <<reference, replicas, cache, age>>

-----------------------------------------------------------------------------
(* The rest of the system.                                                 *)

InformerSync(z) ==
    /\ cache[z] # replicas[z]
    /\ cache' = [cache EXCEPT ![z] = replicas[z]]
    /\ UNCHANGED <<reference, refStatus, replicas, age, rc, faults>>

ReferenceScaled(z) ==
    /\ edits < MaxEdits /\ edits' = edits + 1
    /\ \E n \in Count \ {desired[z]} : desired' = [desired EXCEPT ![z] = n]
    /\ UNCHANGED <<refStatus, replicas, cache, age, rc, faults>>

\* A pod loses its preparation, though not between its answer and what is done
\* with it.
PodForgets(z, i) ==
    /\ age[z][i] # None
    /\ ~(rc # Idle /\ rc.set = z /\ rc.pc \in {"patch", "status"})
    /\ Fault
    /\ age' = [age EXCEPT ![z][i] = None]
    /\ UNCHANGED <<reference, refStatus, replicas, cache, rc>>

Tick ==
    /\ \E z \in Set, i \in Replica : age[z][i] \in 0..Delay - 1
    /\ age' = [z \in Set |-> [i \in Replica |->
                 IF age[z][i] \in 0..Delay - 1 THEN age[z][i] + 1 ELSE age[z][i]]]
    /\ UNCHANGED <<reference, refStatus, replicas, cache, rc, faults>>

Controller ==
    \/ StartReconcile \/ ReadReference \/ SyncStatus \/ callCancelDelayedDownscale
    \/ callPrepareDownscale \/ patchStatefulSetSpecReplicas \/ WriteStatus

Next ==
    \/ Controller
    \/ \E z \in Set : InformerSync(z) \/ ReferenceScaled(z) \/ \E i \in Replica : PodForgets(z, i)
    \/ Tick

Spec == Init /\ [][Next]_vars

\* The loop runs again and again, by the resync if by nothing else, the watch
\* delivers, time passes.
LiveSpec == Spec /\ WF_vars(Controller) /\ WF_vars(Tick) /\ \A z \in Set : WF_vars(InformerSync(z))

-----------------------------------------------------------------------------
(* Properties.                                                             *)

TypeOK ==
    /\ desired \in [Set -> Count] /\ refStatus \in [Set -> Count]
    /\ replicas \in [Set -> Count] /\ cache \in [Set -> Count]
    /\ age \in [Set -> [Replica -> {None} \cup 0..Delay]]
    /\ rc \in {Idle} \cup Reconcile
    /\ edits \in 0..MaxEdits /\ faults \in 0..MaxFaults

\* patchStatefulSetSpecReplicas removes only pods that have been prepared for
\* the whole delay.
DelayRespected ==
    [][\A z \in Set : \A i \in replicas'[z]..replicas[z] - 1 : age[z][i] = Delay]_vars

\* A status that is written back never counts fewer replicas than there are
\* unprepared ones: an error of callPrepareDownscale does not hide pods that
\* keep working.
StatusCountsUnprepared ==
    [][\A z \in Set : refStatus'[z] # refStatus[z] =>
          refStatus'[z] >= Cardinality({i \in Running(z) : age[z][i] = None})]_vars

\* When the references stay as they are, the StatefulSets and the status come to
\* agree with them.
ScalingSettles == <>[](replicas = desired /\ refStatus = desired)

\* And no pod that its reference wants to keep stays prepared.
PreparationsCancelled ==
    <>[](\A z \in Set : \A i \in Running(z) : i < desired[z] => age[z][i] = None)
=============================================================================
