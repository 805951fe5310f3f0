----------------------- MODULE DelayedDownscaleProofs -----------------------
(***************************************************************************)
(* Delayed downscale keeps the delay, for any number of sets and replicas  *)
(* and any changes and failures, provided that a reconcile starts from the *)
(* current StatefulSets.                                                   *)
(***************************************************************************)
EXTENDS DelayedDownscale, FiniteSetTheorems, TLAPS

-----------------------------------------------------------------------------
(* The smallest element of a set of naturals.                              *)

LEMMA MinElement ==
    ASSUME NEW S \in SUBSET Nat, S # {}
    PROVE  Min(S) \in S
<1>1. \E x \in S : \A y \in S : ~(<<y, x>> \in OpToRel(<, Nat))
  BY WFMin, NatLessThanWellFounded
<1>2. ASSUME NEW x \in Nat, NEW y \in Nat, y < x
      PROVE  <<y, x>> \in OpToRel(<, Nat)
  <2>1. <<y, x>> \in Nat \X Nat /\ <<y, x>>[1] < <<y, x>>[2]
    BY <1>2
  <2>2. QED
    BY <2>1, Zenon DEF OpToRel
<1>3. PICK x \in S : \A y \in S : ~(<<y, x>> \in OpToRel(<, Nat))
  BY <1>1
<1>4. \A y \in S : x <= y
  <2>1. ASSUME NEW y \in S, ~(x <= y) PROVE FALSE
    <3>1. y < x /\ x \in Nat /\ y \in Nat
      BY <2>1
    <3>2. QED
      BY <1>2, <1>3, <3>1, Zenon
  <2>2. QED
    BY <2>1
<1>5. QED
  BY <1>4 DEF Min

-----------------------------------------------------------------------------
(* The inductive invariant.                                                *)

Busy == rc # Idle

\* Until it changes a set, a reconcile that started from the current StatefulSets
\* knows the replicas.
Fresh ==
    Busy => /\ rc.patched => rc.pc = "status"
            /\ InformerPrompt /\ ~rc.patched => rc.cur = replicas

\* How far a set is to be scaled, and what of it is prepared.
Aim ==
    Busy => /\ rc.pc \in {"synced", "cancel", "post"} => rc.to = rc.want
            /\ rc.pc = "post" => rc.want < Cur
            /\ rc.prepared <= rc.to

\* A patch removes pods whose delay is over.
Due == rc.pc = "patch" => \A i \in rc.to..Cur - 1 : age[rc.set][i] = Delay

Inv == TypeOK /\ Fresh /\ Aim /\ Due

LEMMA Fields ==
    ASSUME TypeOK, rc.pc # "idle"
    PROVE  /\ rc \in Reconcile /\ Busy
           /\ rc.set \in Set /\ rc.cur \in [Set -> Count] /\ Cur \in Count /\ rc.want \in Count
           /\ rc.seen \in Count /\ rc.to \in Count /\ rc.prepared \in Count /\ rc.patched \in BOOLEAN
BY DEF TypeOK, Idle, Reconcile, Cur, Busy

LEMMA CountNat ==
    /\ \A n \in Count : n \in Nat /\ 0 <= n /\ n <= MaxReplicas
    /\ 0 \in Count /\ MaxReplicas \in Nat /\ Delay \in Nat
BY SizeAssumption DEF Count

\* A step of the reconcile that only moves on.
LEMMA GotoStep ==
    ASSUME TypeOK, rc.pc # "idle", NEW pc \in {"read", "synced", "cancel", "post", "patch", "status"}, Goto(pc)
    PROVE  /\ rc' \in Reconcile /\ Busy' /\ rc'.pc = pc
           /\ rc'.set = rc.set /\ rc'.cur = rc.cur /\ rc'.want = rc.want /\ rc'.to = rc.to
           /\ rc'.prepared = rc.prepared /\ rc'.patched = rc.patched
<1>1. rc \in Reconcile
  BY Fields
<1>2. rc' = [rc EXCEPT !.pc = pc]
  BY DEF Goto
<1>3. /\ rc' \in Reconcile /\ rc'.pc = pc
      /\ rc'.set = rc.set /\ rc'.cur = rc.cur /\ rc'.want = rc.want /\ rc'.to = rc.to
      /\ rc'.prepared = rc.prepared /\ rc'.patched = rc.patched
  BY <1>1, <1>2 DEF Reconcile
<1>4. rc' # Idle
  BY <1>3 DEF Idle
<1>5. QED
  BY <1>3, <1>4 DEF Busy

\* On to the next set, or the reconcile is over.
LEMMA NextSetStep ==
    ASSUME TypeOK, rc.pc # "idle", NextSet
    PROVE  \/ rc' = Idle
           \/ /\ rc' \in Reconcile /\ Busy' /\ rc'.pc = "read"
              /\ rc'.cur = rc.cur /\ rc'.to = rc.to /\ rc'.prepared = rc.prepared /\ rc'.patched = rc.patched
<1>1. rc \in Reconcile
  BY Fields
<1>2. CASE rc.set = NumSets
  BY <1>2 DEF NextSet
<1>3. CASE rc.set # NumSets
  <2>1. rc' = [rc EXCEPT !.pc = "read", !.set = @ + 1]
    BY <1>3 DEF NextSet
  <2>2. rc.set + 1 \in Set
    BY <1>1, <1>3, SizeAssumption DEF Reconcile, Set
  <2>3. /\ rc' \in Reconcile /\ rc'.pc = "read"
        /\ rc'.cur = rc.cur /\ rc'.to = rc.to /\ rc'.prepared = rc.prepared /\ rc'.patched = rc.patched
    BY <1>1, <2>1, <2>2 DEF Reconcile
  <2>4. rc' # Idle
    BY <2>3 DEF Idle
  <2>5. QED
    BY <2>3, <2>4 DEF Busy
<1>4. QED
  BY <1>2, <1>3

LEMMA IdleStep ==
    ASSUME rc' = Idle
    PROVE  rc' \in {Idle} \cup Reconcile /\ Fresh' /\ Aim' /\ Due'
BY DEF Idle, Fresh, Aim, Due, Busy

LEMMA FaultType ==
    ASSUME faults \in 0..MaxFaults, Fault \/ UNCHANGED faults
    PROVE  faults' \in 0..MaxFaults
BY BoundAssumption DEF Fault

\* The status becomes a count, or stays as it is.
LEMMA StatusType ==
    ASSUME TypeOK, rc.pc # "idle", NEW n \in Count, updateStatusReplicasOnReferenceResourceIfNeeded(n)
    PROVE  refStatus' \in [Set -> Count] /\ faults' \in 0..MaxFaults
<1>1. refStatus' \in [Set -> Count]
  BY Fields DEF updateStatusReplicasOnReferenceResourceIfNeeded, TypeOK
<1>2. Fault \/ UNCHANGED faults
  BY DEF updateStatusReplicasOnReferenceResourceIfNeeded
<1>3. QED
  BY <1>1, <1>2, FaultType DEF TypeOK

-----------------------------------------------------------------------------
(* The steps of a reconcile.                                               *)

LEMMA InvInit == Init => Inv
<1> SUFFICES ASSUME Init PROVE Inv
  OBVIOUS
<1>1. TypeOK
  BY BoundAssumption DEF Init, TypeOK
<1>2. rc = Idle
  BY DEF Init
<1>3. QED
  BY <1>1, <1>2 DEF Inv, Fresh, Aim, Due, Busy, Idle

LEMMA StartStep ==
    ASSUME Inv, StartReconcile
    PROVE  Inv'
<1>1. rc' = [pc |-> "read", set |-> 1, cur |-> cache, want |-> 0, seen |-> 0, to |-> 0,
             prepared |-> 0, patched |-> FALSE]
  BY DEF StartReconcile
<1>2. cache \in [Set -> Count] /\ 1 \in Set /\ 0 \in Count
  BY SizeAssumption DEF Inv, TypeOK, Set, Count
<1>3. rc' \in Reconcile
  BY <1>1, <1>2 DEF Reconcile
<1>4. (InformerPrompt => cache = replicas) /\ replicas' = replicas
  BY DEF StartReconcile
<1>5. TypeOK'
  BY <1>3 DEF StartReconcile, Inv, TypeOK, reference
<1>6. rc'.pc = "read" /\ rc'.cur = cache /\ rc'.to = 0 /\ rc'.prepared = 0 /\ rc'.patched = FALSE
  BY <1>1
<1>7. QED
  BY <1>4, <1>5, <1>6 DEF Inv, Fresh, Aim, Due, Busy

LEMMA ReadStep ==
    ASSUME Inv, ReadReference
    PROVE  Inv'
<1>1. TypeOK /\ rc.pc = "read"
  BY DEF Inv, ReadReference
<1>2. CASE rc' = Idle
  <2>1. faults' \in 0..MaxFaults
    BY <1>1, FaultType DEF ReadReference, TypeOK
  <2>2. QED
    BY <1>1, <1>2, <2>1, IdleStep DEF ReadReference, TypeOK, reference, Inv
<1>3. CASE ~(rc' = Idle)
  <2> DEFINE z == rc.set
             pc == IF Cur = desired[z] THEN "synced" ELSE "cancel"
  <2>1. /\ rc' = [rc EXCEPT !.want = desired[z], !.seen = refStatus[z], !.to = desired[z],
                            !.prepared = 0, !.patched = FALSE, !.pc = pc]
        /\ UNCHANGED faults
    BY <1>3 DEF ReadReference
  <2>2. rc \in Reconcile /\ desired[z] \in Count /\ refStatus[z] \in Count /\ 0 \in Count /\ pc \in {"synced", "cancel"}
    BY <1>1, Fields, CountNat DEF TypeOK
  <2> HIDE DEF z, pc
  <2>3. /\ rc' \in Reconcile /\ rc'.pc = pc /\ rc'.cur = rc.cur /\ rc'.want = desired[z]
        /\ rc'.to = desired[z] /\ rc'.prepared = 0 /\ rc'.patched = FALSE
    BY <2>1, <2>2 DEF Reconcile
  <2>4. TypeOK'
    BY <1>1, <2>1, <2>3 DEF ReadReference, TypeOK, reference
  <2>5. (InformerPrompt => rc.cur = replicas) /\ replicas' = replicas
    BY <1>1, Fields DEF Inv, Fresh, ReadReference
  <2>6. Fresh' /\ Due'
    BY <2>2, <2>3, <2>5 DEF Fresh, Due
  <2>7. 0 <= desired[z]
    BY <2>2, CountNat
  <2>8. Aim'
    BY <2>2, <2>3, <2>7 DEF Aim
  <2>9. QED
    BY <2>4, <2>6, <2>8 DEF Inv
<1>4. QED
  BY <1>2, <1>3

LEMMA SyncStep ==
    ASSUME Inv, SyncStatus
    PROVE  Inv'
<1>1. TypeOK /\ rc.pc = "synced" /\ rc.want \in Count
  BY Fields DEF Inv, SyncStatus
<1>2. /\ rc' \in Reconcile /\ Busy' /\ rc'.pc = "cancel"
      /\ rc'.set = rc.set /\ rc'.cur = rc.cur /\ rc'.want = rc.want /\ rc'.to = rc.to
      /\ rc'.prepared = rc.prepared /\ rc'.patched = rc.patched
  BY <1>1, GotoStep DEF SyncStatus
<1>3. refStatus' \in [Set -> Count] /\ faults' \in 0..MaxFaults
  BY <1>1, StatusType DEF SyncStatus
<1>4. TypeOK'
  BY <1>1, <1>2, <1>3 DEF SyncStatus, TypeOK, reference
<1>5. Busy /\ replicas' = replicas
  BY <1>1, Fields DEF SyncStatus
<1>6. QED
  BY <1>1, <1>2, <1>4, <1>5 DEF Inv, Fresh, Aim, Due

LEMMA CancelStep ==
    ASSUME Inv, callCancelDelayedDownscale
    PROVE  Inv'
<1> DEFINE pc == IF rc.want > Cur THEN "patch" ELSE "post"
<1>1. /\ TypeOK /\ rc.pc = "cancel" /\ Busy /\ rc.to = rc.want /\ (InformerPrompt => rc.cur = replicas) /\ ~rc.patched
      /\ rc.want \in Nat /\ Cur \in Nat /\ rc.prepared <= rc.to
  BY Fields, CountNat DEF Inv, Fresh, Aim, callCancelDelayedDownscale
<1>2. replicas' = replicas /\ (IF rc.want = Cur THEN NextSet ELSE Goto(pc))
  BY DEF callCancelDelayedDownscale
<1>3. age' \in [Set -> [Replica -> {None} \cup 0..Delay]] /\ faults' \in 0..MaxFaults
  <2>1. Fault \/ UNCHANGED faults
    BY DEF callCancelDelayedDownscale
  <2>2. \E done \in SUBSET (cancelEndpoints \cap Running(rc.set)) :
           age' = [age EXCEPT ![rc.set] = [i \in Replica |-> IF i \in done THEN None ELSE @[i]]]
    BY DEF callCancelDelayedDownscale
  <2>3. QED
    BY <1>1, <2>1, <2>2, Fields, FaultType DEF TypeOK
<1>4. CASE rc' = Idle
  BY <1>1, <1>3, <1>4, IdleStep DEF callCancelDelayedDownscale, TypeOK, reference, Inv
<1>5. CASE /\ rc' \in Reconcile /\ Busy' /\ rc'.pc = "read"
           /\ rc'.cur = rc.cur /\ rc'.to = rc.to /\ rc'.prepared = rc.prepared /\ rc'.patched = rc.patched
  <2>1. TypeOK'
    BY <1>1, <1>3, <1>5 DEF callCancelDelayedDownscale, TypeOK, reference
  <2>2. QED
    BY <1>1, <1>2, <1>5, <2>1 DEF Inv, Fresh, Aim, Due
<1>6. CASE rc.want # Cur
  <2>1. pc \in {"patch", "post"} /\ Goto(pc) /\ (pc = "post" => rc.want < Cur) /\ (pc = "patch" => rc.want > Cur)
    BY <1>1, <1>2, <1>6
  <2> HIDE DEF pc
  <2>2. /\ rc' \in Reconcile /\ Busy' /\ rc'.pc = pc
        /\ rc'.set = rc.set /\ rc'.cur = rc.cur /\ rc'.want = rc.want /\ rc'.to = rc.to
        /\ rc'.prepared = rc.prepared /\ rc'.patched = rc.patched
    BY <1>1, <2>1, GotoStep
  <2>3. TypeOK'
    BY <1>1, <1>3, <2>2 DEF callCancelDelayedDownscale, TypeOK, reference
  <2>4. Cur' = Cur
    BY <2>2 DEF Cur
  <2>5. Fresh' /\ Aim'
    BY <1>1, <1>2, <2>1, <2>2, <2>4 DEF Fresh, Aim
  <2>6. Due'
    BY <1>1, <2>1, <2>2, <2>4 DEF Due
  <2>7. QED
    BY <2>3, <2>5, <2>6 DEF Inv
<1>7. CASE rc.want = Cur
  BY <1>1, <1>2, <1>4, <1>5, <1>7, NextSetStep
<1>8. QED
  BY <1>6, <1>7

\* allowedDesiredReplicas goes no further than the replicas whose delay is over.
LEMMA Allowed ==
    ASSUME TypeOK, rc.pc = "post", rc.want < Cur, NEW ages \in [Replica -> {None} \cup 0..Delay]
    PROVE  /\ allowedDesiredReplicas(ages) \in rc.want..Cur
           /\ \A i \in allowedDesiredReplicas(ages)..Cur - 1 : ages[i] = Delay
<1> DEFINE S == {n \in rc.want..Cur : \A i \in n..Cur - 1 : ages[i] >= Delay}
<1>1. rc.want \in Nat /\ Cur \in Nat /\ Cur <= MaxReplicas /\ MaxReplicas \in Nat /\ Delay \in Nat
  BY Fields, CountNat DEF Count
<1>2. Cur \in S /\ S \in SUBSET Nat
  BY <1>1
<1>3. Min(S) \in S
  BY <1>2, MinElement
<1>4. allowedDesiredReplicas(ages) \in S
  BY <1>3 DEF allowedDesiredReplicas
<1>5. allowedDesiredReplicas(ages) \in Nat /\ allowedDesiredReplicas(ages) \in rc.want..Cur
  BY <1>1, <1>4
<1>6. ASSUME NEW i \in allowedDesiredReplicas(ages)..Cur - 1 PROVE ages[i] = Delay
  <2>1. ages[i] >= Delay
    BY <1>4
  <2>2. i \in Replica
    BY <1>1, <1>5, <1>6 DEF Replica
  <2>3. QED
    BY <1>1, <2>1, <2>2 DEF None
<1>7. QED
  BY <1>5, <1>6

LEMMA PostedType ==
    ASSUME NEW ages \in [Replica -> {None} \cup 0..Delay], NEW done
    PROVE  Posted(ages, done) \in [Replica -> {None} \cup 0..Delay]
BY CountNat DEF Posted

\* The replicas that answered are no more than those that were asked.
LEMMA AnsweredCount ==
    ASSUME NEW a \in Nat, NEW b \in Nat, a < b, NEW answered \in SUBSET (a..b - 1)
    PROVE  Cardinality(answered) \in Nat /\ Cardinality(answered) <= b - a
<1>1. IsFiniteSet(a..b - 1) /\ Cardinality(a..b - 1) = b - a
  BY FS_Interval
<1>2. IsFiniteSet(answered) /\ Cardinality(answered) <= Cardinality(a..b - 1)
  BY <1>1, FS_Subset
<1>3. QED
  BY <1>1, <1>2, FS_CardinalityType

LEMMA PrepareStep ==
    ASSUME Inv, callPrepareDownscale
    PROVE  Inv'
<1> DEFINE z == rc.set
           eps == rc.want..Cur - 1
           ages == Posted(age[z], eps)
           to == allowedDesiredReplicas(ages)
<1>1. /\ TypeOK /\ rc.pc = "post" /\ Busy /\ (InformerPrompt => rc.cur = replicas) /\ ~rc.patched /\ rc.want < Cur
      /\ rc \in Reconcile /\ z \in Set /\ rc.want \in Count /\ Cur \in Count
      /\ age[z] \in [Replica -> {None} \cup 0..Delay]
  BY Fields DEF Inv, Fresh, Aim, callPrepareDownscale, TypeOK
<1>2. rc.want \in Nat /\ Cur \in Nat /\ Cur <= MaxReplicas /\ MaxReplicas \in Nat
  BY <1>1, CountNat
<1>3. CASE /\ age' = [age EXCEPT ![z] = ages]
           /\ rc' = [rc EXCEPT !.to = to, !.prepared = to - rc.want,
                               !.pc = IF to = Cur THEN "status" ELSE "patch"]
           /\ UNCHANGED faults
  <2>1. ages \in [Replica -> {None} \cup 0..Delay]
    BY <1>1, PostedType
  <2>2. to \in rc.want..Cur /\ \A i \in to..Cur - 1 : ages[i] = Delay
    BY <1>1, <2>1, Allowed
  <2> HIDE DEF ages, to
  <2>3. to \in Count /\ to - rc.want \in Count /\ to - rc.want <= to
    BY <1>2, <2>2 DEF Count
  <2>4. PICK pc \in {"status", "patch"} : rc' = [rc EXCEPT !.to = to, !.prepared = to - rc.want, !.pc = pc]
    BY <1>3
  <2>5. /\ rc' \in Reconcile /\ rc'.pc = pc /\ rc'.set = z /\ rc'.cur = rc.cur /\ rc'.want = rc.want
        /\ rc'.to = to /\ rc'.prepared = to - rc.want /\ rc'.patched = rc.patched
    BY <1>1, <2>3, <2>4 DEF Reconcile
  <2>6. TypeOK'
    BY <1>1, <1>3, <2>1, <2>5 DEF callPrepareDownscale, TypeOK, reference
  <2>7. Cur' = Cur
    BY <2>5 DEF Cur
  <2>8. Fresh' /\ Aim'
    BY <1>1, <2>3, <2>5 DEF Fresh, Aim, callPrepareDownscale
  <2>9. age'[z] = ages
    BY <1>1, <1>3 DEF TypeOK
  <2>10. Due'
    BY <2>2, <2>5, <2>7, <2>9 DEF Due
  <2>11. QED
    BY <2>6, <2>8, <2>10 DEF Inv
<1>4. ASSUME NEW done \in SUBSET (eps \cap Running(z)), NEW answered \in SUBSET done,
             age' = [age EXCEPT ![z] = Posted(@, done)],
             rc' = [rc EXCEPT !.to = Cur, !.prepared = preparedAfterError(answered), !.pc = "status"],
             Fault \/ UNCHANGED faults
      PROVE  Inv'
  <2>1. Posted(age[z], done) \in [Replica -> {None} \cup 0..Delay]
    BY <1>1, PostedType
  <2>2. Cardinality(answered) \in Nat /\ Cardinality(answered) <= Cur - rc.want
    BY <1>1, <1>2, <1>4, AnsweredCount
  <2>3. Cardinality(answered) \in Count /\ Cardinality(answered) <= Cur
    BY <1>2, <2>2 DEF Count
  <2>4. /\ rc' \in Reconcile /\ rc'.pc = "status" /\ rc'.cur = rc.cur
        /\ rc'.to = Cur /\ rc'.prepared = Cardinality(answered) /\ rc'.patched = rc.patched
    BY <1>1, <1>4, <2>3 DEF Reconcile, preparedAfterError
  <2>5. faults' \in 0..MaxFaults
    BY <1>1, <1>4, FaultType DEF TypeOK
  <2>6. age' \in [Set -> [Replica -> {None} \cup 0..Delay]]
    BY <1>1, <1>4, <2>1 DEF TypeOK
  <2>7. TypeOK'
    BY <1>1, <2>4, <2>5, <2>6 DEF callPrepareDownscale, TypeOK, reference
  <2>8. Fresh' /\ Aim' /\ Due'
    BY <1>1, <2>3, <2>4 DEF Fresh, Aim, Due, callPrepareDownscale
  <2>9. QED
    BY <2>7, <2>8 DEF Inv
<1>5. QED
  BY <1>3, <1>4 DEF callPrepareDownscale

LEMMA PatchStep ==
    ASSUME Inv, patchStatefulSetSpecReplicas
    PROVE  Inv'
<1>1. /\ TypeOK /\ rc.pc = "patch" /\ rc \in Reconcile /\ rc.to \in Count /\ rc.set \in Set /\ Busy
      /\ rc.prepared <= rc.to
  BY Fields DEF Inv, Aim, patchStatefulSetSpecReplicas
<1>2. replicas' \in [Set -> Count]
  BY <1>1 DEF patchStatefulSetSpecReplicas, TypeOK
<1>3. age' \in [Set -> [Replica -> {None} \cup 0..Delay]]
  <2> DEFINE kept == [i \in Replica |-> IF i < rc.to THEN age[rc.set][i] ELSE None]
  <2>1. kept \in [Replica -> {None} \cup 0..Delay]
    BY <1>1 DEF TypeOK
  <2>2. age' = age \/ age' = [age EXCEPT ![rc.set] = kept]
    BY DEF patchStatefulSetSpecReplicas
  <2> HIDE DEF kept
  <2>3. QED
    BY <1>1, <2>1, <2>2 DEF TypeOK
<1>4. faults' \in 0..MaxFaults
  <2>1. Fault \/ UNCHANGED faults
    BY DEF patchStatefulSetSpecReplicas
  <2>2. QED
    BY <1>1, <2>1, FaultType DEF TypeOK
<1>5. CASE rc' = Idle
  BY <1>1, <1>2, <1>3, <1>4, <1>5, IdleStep DEF patchStatefulSetSpecReplicas, TypeOK, reference, Inv
<1>6. CASE rc' = [rc EXCEPT !.pc = "status", !.patched = TRUE]
  <2>1. /\ rc' \in Reconcile /\ rc'.pc = "status" /\ rc'.patched = TRUE
        /\ rc'.to = rc.to /\ rc'.prepared = rc.prepared
    BY <1>1, <1>6 DEF Reconcile
  <2>2. TypeOK'
    BY <1>1, <1>2, <1>3, <1>4, <2>1 DEF patchStatefulSetSpecReplicas, TypeOK, reference
  <2>3. QED
    BY <1>1, <2>1, <2>2 DEF Inv, Fresh, Aim, Due
<1>7. QED
  BY <1>5, <1>6 DEF patchStatefulSetSpecReplicas

LEMMA StatusStep ==
    ASSUME Inv, WriteStatus
    PROVE  Inv'
<1> DEFINE n == IF ExcludeFromStatus THEN rc.to - rc.prepared ELSE rc.to
<1>1. /\ TypeOK /\ rc.pc = "status" /\ Busy /\ rc.to \in Count /\ rc.prepared \in Count
      /\ rc.prepared <= rc.to /\ rc.patched \in BOOLEAN
  BY Fields DEF Inv, Aim, WriteStatus
<1>2. n \in Count
  BY <1>1, CountNat DEF Count
<1>3. updateStatusReplicasOnReferenceResourceIfNeeded(n)
  BY DEF WriteStatus
<1> HIDE DEF n
<1>4. refStatus' \in [Set -> Count] /\ faults' \in 0..MaxFaults
  BY <1>1, <1>2, <1>3, StatusType
<1>5. CASE rc' = Idle
  BY <1>1, <1>4, <1>5, IdleStep DEF WriteStatus, TypeOK, reference, Inv
<1>6. CASE /\ ~rc.patched
           /\ rc' \in Reconcile /\ Busy' /\ rc'.pc = "read"
           /\ rc'.cur = rc.cur /\ rc'.to = rc.to /\ rc'.prepared = rc.prepared /\ rc'.patched = rc.patched
  <2>1. TypeOK'
    BY <1>1, <1>4, <1>6 DEF WriteStatus, TypeOK, reference
  <2>2. (InformerPrompt => rc.cur = replicas) /\ replicas' = replicas
    BY <1>1, <1>6 DEF Inv, Fresh, WriteStatus
  <2>3. QED
    BY <1>1, <1>6, <2>1, <2>2 DEF Inv, Fresh, Aim, Due
<1>7. QED
  BY <1>1, <1>5, <1>6, NextSetStep DEF WriteStatus

-----------------------------------------------------------------------------
(* The rest of the system, and the theorems.                               *)

\* Steps during which the reconcile rests and no prepared pod of its set is lost.
LEMMA OutsideStep ==
    ASSUME Inv, TypeOK', UNCHANGED <<rc, replicas>>,
           rc.pc = "patch" => \A i \in Replica : age[rc.set][i] = Delay => age'[rc.set][i] = Delay
    PROVE  Inv'
<1>1. Fresh' /\ Aim'
  BY DEF Inv, Fresh, Aim, Busy, Cur
<1>2. Due'
  <2>1. SUFFICES ASSUME rc.pc = "patch", NEW i \in rc.to..Cur - 1 PROVE age'[rc.set][i] = Delay
    BY DEF Due, Cur
  <2>2. rc.to \in Nat /\ Cur \in Nat /\ Cur <= MaxReplicas /\ MaxReplicas \in Nat
    BY <2>1, Fields, CountNat DEF Inv
  <2>3. i \in Replica
    BY <2>2 DEF Replica
  <2>4. QED
    BY <2>1, <2>3 DEF Inv, Due
<1>3. QED
  BY <1>1, <1>2 DEF Inv

LEMMA InvStep ==
    ASSUME Inv, [Next]_vars
    PROVE  Inv'
<1> USE DEF reference
<1>1. CASE Controller
  BY <1>1, StartStep, ReadStep, SyncStep, CancelStep, PrepareStep, PatchStep, StatusStep DEF Controller
<1>2. ASSUME NEW z \in Set, InformerSync(z) PROVE Inv'
  <2>1. TypeOK' /\ UNCHANGED <<rc, replicas, age>>
    BY <1>2 DEF InformerSync, Inv, TypeOK
  <2>2. QED
    BY <2>1, OutsideStep
<1>3. ASSUME NEW z \in Set, ReferenceScaled(z) PROVE Inv'
  <2>1. TypeOK' /\ UNCHANGED <<rc, replicas, age>>
    BY <1>3, BoundAssumption DEF ReferenceScaled, Inv, TypeOK
  <2>2. QED
    BY <2>1, OutsideStep
<1>4. ASSUME NEW z \in Set, NEW i \in Replica, PodForgets(z, i) PROVE Inv'
  <2>1. TypeOK
    BY DEF Inv
  <2>2. age' = [age EXCEPT ![z][i] = None] /\ UNCHANGED <<rc, replicas>>
    BY <1>4 DEF PodForgets
  <2>3. age' \in [Set -> [Replica -> {None} \cup 0..Delay]]
    BY <2>1, <2>2 DEF TypeOK
  <2>4. faults' \in 0..MaxFaults
    BY <1>4, <2>1, FaultType DEF PodForgets, TypeOK
  <2>5. TypeOK'
    BY <1>4, <2>1, <2>3, <2>4 DEF PodForgets, TypeOK
  <2>6. rc.pc = "patch" => rc.set \in Set /\ rc.set # z
    BY <1>4, <2>1, Fields DEF PodForgets, Busy
  <2>7. rc.pc = "patch" => age'[rc.set] = age[rc.set]
    BY <2>1, <2>2, <2>6 DEF TypeOK
  <2>8. QED
    BY <2>2, <2>5, <2>7, OutsideStep
<1>5. CASE Tick
  <2>1. TypeOK /\ UNCHANGED <<rc, replicas>> /\ Delay \in Nat
    BY <1>5, CountNat DEF Inv, Tick
  <2>2. \A z \in Set, i \in Replica :
           age'[z][i] = IF age[z][i] \in 0..Delay - 1 THEN age[z][i] + 1 ELSE age[z][i]
    BY <1>5 DEF Tick
  <2>3. age' \in [Set -> [Replica -> {None} \cup 0..Delay]]
    BY <1>5, <2>1 DEF Tick, TypeOK, None
  <2>4. TypeOK'
    BY <1>5, <2>1, <2>3 DEF Tick, TypeOK
  <2>5. ASSUME rc.pc = "patch", NEW i \in Replica, age[rc.set][i] = Delay PROVE age'[rc.set][i] = Delay
    <3>1. rc.set \in Set
      BY <2>1, <2>5, Fields
    <3>2. QED
      BY <2>1, <2>2, <2>5, <3>1
  <2>6. QED
    BY <2>1, <2>4, <2>5, OutsideStep
<1>6. CASE UNCHANGED vars
  <2>1. TypeOK' /\ UNCHANGED <<rc, replicas, age>>
    BY <1>6 DEF vars, Inv, TypeOK
  <2>2. QED
    BY <2>1, OutsideStep
<1>7. QED
  BY <1>1, <1>2, <1>3, <1>4, <1>5, <1>6 DEF Next

\* A patch that removes pods finds the delay over for those it knows of; a reconcile
\* that starts from the current StatefulSets knows of all until it patches one.
THEOREM DelayedInvariant == Spec => []Inv
<1>1. Inv /\ [Next]_vars => Inv'
  BY InvStep
<1>2. QED
  BY <1>1, InvInit, PTL DEF Spec

\* The counts of adjustStatefulSetsGroupReplicasToMirrorResource stay within 0..MaxReplicas
\* and the ages within the delay, however old the cache: the status written
\* back without the prepared replicas never gets negative.
THEOREM TypeCorrect == Spec => []TypeOK
<1>1. Inv => TypeOK
  BY DEF Inv
<1>2. QED
  BY <1>1, DelayedInvariant, PTL

\* When a reconcile starts from the current StatefulSets,
\* patchStatefulSetSpecReplicas removes only pods that have been prepared for
\* the whole delay, whatever the references do and whichever calls fail.
THEOREM DelayKept ==
    ASSUME InformerPrompt
    PROVE  Spec => DelayRespected
<1> DEFINE Late == \A z \in Set : \A i \in replicas'[z]..replicas[z] - 1 : age[z][i] = Delay
<1>1. Inv /\ [Next]_vars => [Late]_vars
  <2> SUFFICES ASSUME Inv, Next PROVE Late
    OBVIOUS
  <2>1. CASE UNCHANGED replicas
    <3>1. \A z \in Set : replicas[z] \in Nat
      BY CountNat DEF Inv, TypeOK
    <3>2. QED
      BY <2>1, <3>1
  <2>2. CASE patchStatefulSetSpecReplicas /\ replicas' = [replicas EXCEPT ![rc.set] = rc.to]
    <3>1. TypeOK /\ rc.pc = "patch" /\ rc.set \in Set /\ rc.cur = replicas
      BY <2>2, Fields DEF Inv, Fresh, patchStatefulSetSpecReplicas
    <3>2. \A i \in rc.to..replicas[rc.set] - 1 : age[rc.set][i] = Delay
      BY <3>1 DEF Inv, Due, Cur
    <3>3. ASSUME NEW z \in Set, NEW i \in replicas'[z]..replicas[z] - 1 PROVE age[z][i] = Delay
      <4>1. CASE z = rc.set
        BY <2>2, <3>1, <3>2, <3>3, <4>1 DEF TypeOK
      <4>2. CASE z # rc.set
        <5>1. replicas'[z] = replicas[z] /\ replicas[z] \in Nat
          BY <2>2, <3>1, <4>2, CountNat DEF TypeOK
        <5>2. QED
          BY <3>3, <5>1
      <4>3. QED
        BY <4>1, <4>2
    <3>4. QED
      BY <3>3
  <2>3. patchStatefulSetSpecReplicas => UNCHANGED replicas \/ replicas' = [replicas EXCEPT ![rc.set] = rc.to]
    BY DEF patchStatefulSetSpecReplicas
  <2>4. ASSUME ~patchStatefulSetSpecReplicas PROVE UNCHANGED replicas
    BY <2>4 DEF Next, Controller, StartReconcile, ReadReference, SyncStatus, callCancelDelayedDownscale,
       callPrepareDownscale, WriteStatus, InformerSync, ReferenceScaled, PodForgets, Tick
  <2>5. QED
    BY <2>1, <2>2, <2>3, <2>4
<1>2. QED
  BY <1>1, DelayedInvariant, PTL DEF Spec, DelayRespected

-----------------------------------------------------------------------------
(* The status that is written back.                                        *)

\* The pods below n that are prepared, going by their ages.
PreparedBelow(ages, n) == {i \in 0..n - 1 : ages[i] # None}

\* What the reconcile counts as prepared is prepared, and the replicas it is about
\* to report are those there are.
CountInv ==
    /\ rc.pc \in {"synced", "cancel", "post"} => rc.prepared = 0
    /\ rc.pc = "synced" => rc.want = Cur
    /\ rc.pc \in {"patch", "status"} => rc.prepared <= Cardinality(PreparedBelow(age[rc.set], rc.to))
    /\ rc.pc = "status" => replicas[rc.set] = rc.to

LEMMA IntervalCount ==
    ASSUME NEW a \in Nat, NEW b \in Nat, a <= b
    PROVE  Cardinality(a..b - 1) = b - a
<1>1. CASE a = b
  <2>1. a..b - 1 = {}
    BY <1>1
  <2>2. QED
    BY <1>1, <2>1, FS_EmptySet
<1>2. CASE a < b
  <2>1. a \in Int /\ b - 1 \in Int /\ ~(a > b - 1)
    BY <1>2
  <2>2. Cardinality(a..b - 1) = (b - 1) - a + 1
    BY <2>1, FS_Interval
  <2>3. QED
    BY <2>2
<1>3. QED
  BY <1>1, <1>2

LEMMA RangeFinite ==
    ASSUME NEW n \in Nat, NEW S \in SUBSET (0..n - 1)
    PROVE  IsFiniteSet(S) /\ Cardinality(S) \in Nat /\ Cardinality(S) <= n
<1>1. IsFiniteSet(0..n - 1) /\ Cardinality(0..n - 1) = n
  BY FS_Interval
<1>2. IsFiniteSet(S) /\ Cardinality(S) <= Cardinality(0..n - 1)
  BY <1>1, FS_Subset
<1>3. QED
  BY <1>1, <1>2, FS_CardinalityType

\* Steps that leave the reconcile and the replicas alone, and take no
\* preparation from the set that it is about to patch or report.
LEMMA CountOutside ==
    ASSUME TypeOK, CountInv, UNCHANGED <<rc, replicas>>,
           rc.pc \in {"patch", "status"} =>
              \A i \in Replica : (age'[rc.set][i] # None) = (age[rc.set][i] # None)
    PROVE  CountInv'
<1>1. rc.pc \in {"patch", "status"} => PreparedBelow(age'[rc.set], rc.to) = PreparedBelow(age[rc.set], rc.to)
  <2> SUFFICES ASSUME rc.pc \in {"patch", "status"}
               PROVE  PreparedBelow(age'[rc.set], rc.to) = PreparedBelow(age[rc.set], rc.to)
    OBVIOUS
  <2>1. \A i \in 0..rc.to - 1 : i \in Replica
    BY Fields, CountNat DEF Replica
  <2>2. \A i \in 0..rc.to - 1 : (age'[rc.set][i] # None) = (age[rc.set][i] # None)
    BY <2>1
  <2>3. QED
    BY <2>2 DEF PreparedBelow
<1>2. QED
  BY <1>1 DEF CountInv, Cur

\* Steps after which nothing is counted.
LEMMA CountRests == ASSUME rc' = Idle \/ rc'.pc = "read" PROVE CountInv'
BY DEF CountInv, Idle

LEMMA CountPrepare ==
    ASSUME InformerPrompt, Inv, CountInv, callPrepareDownscale
    PROVE  CountInv'
<1> DEFINE z == rc.set
           eps == rc.want..Cur - 1
           ages == Posted(age[z], eps)
           to == allowedDesiredReplicas(ages)
<1>1. /\ TypeOK /\ rc.pc = "post" /\ rc.cur = replicas /\ rc.want < Cur
      /\ rc \in Reconcile /\ z \in Set /\ rc.want \in Nat /\ Cur \in Nat /\ Cur <= MaxReplicas /\ MaxReplicas \in Nat
      /\ age[z] \in [Replica -> {None} \cup 0..Delay]
      /\ replicas' = replicas /\ replicas[z] = Cur
  BY Fields, CountNat DEF Inv, Fresh, Aim, callPrepareDownscale, TypeOK, Cur
<1>2. ASSUME NEW done, NEW i \in Replica, i \in done PROVE Posted(age[z], done)[i] # None
  BY <1>2 DEF Posted, None
<1>3. ASSUME NEW n \in Nat, n <= Cur, NEW S \in SUBSET (0..n - 1), NEW done, S \subseteq done,
             age' = [age EXCEPT ![z] = Posted(age[z], done)]
      PROVE  Cardinality(S) \in Nat /\ Cardinality(S) <= Cardinality(PreparedBelow(age'[z], n))
  <2>1. age'[z] = Posted(age[z], done)
    BY <1>1, <1>3 DEF TypeOK
  <2>2. S \subseteq {i \in 0..n - 1 : age'[z][i] # None}
    <3>1. ASSUME NEW i \in S PROVE age'[z][i] # None
      <4>1. i \in Replica /\ i \in done
        BY <1>1, <1>3, <3>1 DEF Replica
      <4>2. QED
        BY <1>2, <2>1, <4>1
    <3>2. QED
      BY <3>1
  <2>3. S \subseteq PreparedBelow(age'[z], n) /\ PreparedBelow(age'[z], n) \subseteq 0..n - 1
    BY <2>2 DEF PreparedBelow
  <2>4. IsFiniteSet(PreparedBelow(age'[z], n))
    BY <2>3, RangeFinite
  <2>5. QED
    BY <2>3, <2>4, RangeFinite, FS_Subset
<1>4. CASE /\ age' = [age EXCEPT ![z] = ages]
           /\ rc' = [rc EXCEPT !.to = to, !.prepared = to - rc.want,
                               !.pc = IF to = Cur THEN "status" ELSE "patch"]
  <2>1. to \in rc.want..Cur
    BY <1>1, PostedType, Allowed
  <2>2. Cardinality(rc.want..to - 1) = to - rc.want /\ rc.want..to - 1 \subseteq 0..to - 1 /\ to \in Nat /\ to <= Cur
    <3> HIDE DEF to
    <3>1. to \in Nat /\ to <= Cur /\ rc.want <= to
      BY <1>1, <2>1
    <3>2. QED
      BY <1>1, <3>1, IntervalCount
  <2>3. rc.want..to - 1 \subseteq eps
    <3> HIDE DEF to
    <3>1. QED
      BY <1>1, <2>2
  <2> HIDE DEF to
  <2>4. to - rc.want <= Cardinality(PreparedBelow(age'[z], to))
    BY <1>3, <1>4, <2>2, <2>3
  <2>5. /\ rc'.pc = (IF to = Cur THEN "status" ELSE "patch") /\ rc'.set = z
        /\ rc'.to = to /\ rc'.prepared = to - rc.want
    BY <1>1, <1>4 DEF Reconcile
  <2>6. rc'.prepared <= Cardinality(PreparedBelow(age'[rc'.set], rc'.to))
    BY <2>4, <2>5
  <2>7. rc'.pc \in {"status", "patch"} /\ (rc'.pc = "status" => replicas'[rc'.set] = rc'.to)
    BY <1>1, <2>5
  <2>8. QED
    BY <2>6, <2>7 DEF CountInv
<1>5. ASSUME NEW done \in SUBSET (eps \cap Running(z)), NEW answered \in SUBSET done,
             age' = [age EXCEPT ![z] = Posted(@, done)],
             rc' = [rc EXCEPT !.to = Cur, !.prepared = preparedAfterError(answered), !.pc = "status"]
      PROVE  CountInv'
  <2>1. answered \subseteq 0..Cur - 1
    BY <1>1
  <2>2. Cardinality(answered) <= Cardinality(PreparedBelow(age'[z], Cur))
    <3>1. Cur \in Nat /\ Cur <= Cur /\ answered \in SUBSET (0..Cur - 1) /\ answered \subseteq done
      BY <1>1, <2>1
    <3>2. age' = [age EXCEPT ![z] = Posted(age[z], done)]
      BY <1>5
    <3> HIDE DEF z, eps
    <3>3. QED
      BY <1>3, <3>1, <3>2
  <2>3. rc'.pc = "status" /\ rc'.set = z /\ rc'.to = Cur /\ rc'.prepared = Cardinality(answered)
    BY <1>1, <1>5 DEF Reconcile, preparedAfterError
  <2>4. QED
    BY <1>1, <2>2, <2>3 DEF CountInv
<1>6. QED
  BY <1>4, <1>5 DEF callPrepareDownscale

LEMMA CountPatch ==
    ASSUME Inv, CountInv, patchStatefulSetSpecReplicas
    PROVE  CountInv'
<1>1. /\ TypeOK /\ rc.pc = "patch" /\ rc \in Reconcile /\ rc.set \in Set /\ rc.to \in Nat
      /\ rc.to <= MaxReplicas /\ MaxReplicas \in Nat
  BY Fields, CountNat DEF Inv, patchStatefulSetSpecReplicas
<1>2. CASE /\ replicas' = [replicas EXCEPT ![rc.set] = rc.to]
           /\ age' = [age EXCEPT ![rc.set] = [i \in Replica |-> IF i < rc.to THEN @[i] ELSE None]]
           /\ rc' = [rc EXCEPT !.pc = "status", !.patched = TRUE]
  <2>1. rc'.pc = "status" /\ rc'.set = rc.set /\ rc'.to = rc.to /\ rc'.prepared = rc.prepared
    BY <1>1, <1>2 DEF Reconcile
  <2>2. replicas'[rc.set] = rc.to
    BY <1>1, <1>2 DEF TypeOK
  <2>3. age'[rc.set] = [i \in Replica |-> IF i < rc.to THEN age[rc.set][i] ELSE None]
    BY <1>1, <1>2 DEF TypeOK
  <2>4. \A i \in 0..rc.to - 1 : age'[rc.set][i] = age[rc.set][i]
    BY <1>1, <2>3 DEF Replica
  <2>5. PreparedBelow(age'[rc.set], rc.to) = PreparedBelow(age[rc.set], rc.to)
    BY <2>4 DEF PreparedBelow
  <2>6. QED
    BY <1>1, <2>1, <2>2, <2>5 DEF CountInv
<1>3. CASE rc' = Idle
  BY <1>3, CountRests
<1>4. QED
  BY <1>2, <1>3 DEF patchStatefulSetSpecReplicas

LEMMA CountStep ==
    ASSUME InformerPrompt, Inv, CountInv, [Next]_vars
    PROVE  CountInv'
<1>1. TypeOK
  BY DEF Inv
<1>2. CASE StartReconcile
  <2>1. rc'.pc = "read"
    BY <1>2 DEF StartReconcile
  <2>2. QED
    BY <2>1, CountRests
<1>3. CASE ReadReference
  <2>1. CASE rc' = Idle
    BY <2>1, CountRests
  <2>2. CASE ~(rc' = Idle)
    <3> DEFINE z == rc.set
               pc == IF Cur = desired[z] THEN "synced" ELSE "cancel"
    <3>1. rc' = [rc EXCEPT !.want = desired[z], !.seen = refStatus[z], !.to = desired[z],
                           !.prepared = 0, !.patched = FALSE, !.pc = pc]
      BY <1>3, <2>2 DEF ReadReference
    <3>2. rc \in Reconcile /\ pc \in {"synced", "cancel"} /\ (pc = "synced" => Cur = desired[z])
      BY <1>1, <1>3, Fields DEF ReadReference
    <3> HIDE DEF z, pc
    <3>3. /\ rc'.pc = pc /\ rc'.set = rc.set /\ rc'.cur = rc.cur /\ rc'.want = desired[z] /\ rc'.prepared = 0
      BY <3>1, <3>2 DEF Reconcile
    <3>4. Cur' = Cur
      BY <3>3 DEF Cur
    <3>5. QED
      BY <3>2, <3>3, <3>4 DEF CountInv
  <2>3. QED
    BY <2>1, <2>2
<1>4. CASE SyncStatus
  <2>1. rc'.pc = "cancel" /\ rc'.prepared = rc.prepared /\ rc.pc = "synced"
    BY <1>1, <1>4, GotoStep DEF SyncStatus
  <2>2. QED
    BY <2>1 DEF CountInv
<1>5. CASE callCancelDelayedDownscale
  <2>1. rc.pc = "cancel" /\ rc.prepared = 0 /\ rc.want \in Nat /\ Cur \in Nat /\ rc.to \in Nat
    BY <1>1, <1>5, Fields, CountNat DEF callCancelDelayedDownscale, CountInv
  <2>2. CASE NextSet
    BY <1>1, <2>1, <2>2, NextSetStep, CountRests
  <2>3. ASSUME NEW pc \in {"patch", "post"}, Goto(pc) PROVE CountInv'
    <3>1. rc'.pc = pc /\ rc'.to = rc.to /\ rc'.prepared = 0
      BY <1>1, <2>1, <2>3, GotoStep
    <3>2. PreparedBelow(age'[rc'.set], rc'.to) \subseteq 0..rc'.to - 1
      BY DEF PreparedBelow
    <3>3. 0 <= Cardinality(PreparedBelow(age'[rc'.set], rc'.to))
      BY <2>1, <3>1, <3>2, RangeFinite
    <3>4. QED
      BY <3>1, <3>3 DEF CountInv
  <2>4. QED
    BY <1>5, <2>2, <2>3 DEF callCancelDelayedDownscale
<1>6. CASE WriteStatus
  <2>1. rc.pc = "status" /\ (rc' = Idle \/ NextSet)
    BY <1>6 DEF WriteStatus
  <2>2. QED
    BY <1>1, <2>1, NextSetStep, CountRests
<1>7. CASE callPrepareDownscale \/ patchStatefulSetSpecReplicas
  BY <1>7, CountPrepare, CountPatch
<1>8. ASSUME NEW z \in Set, InformerSync(z) \/ ReferenceScaled(z) PROVE CountInv'
  <2>1. UNCHANGED <<rc, replicas, age>>
    BY <1>8 DEF InformerSync, ReferenceScaled
  <2>2. QED
    BY <1>1, <2>1, CountOutside
<1>9. ASSUME NEW z \in Set, NEW i \in Replica, PodForgets(z, i) PROVE CountInv'
  <2>1. age' = [age EXCEPT ![z][i] = None] /\ UNCHANGED <<rc, replicas>>
    BY <1>9 DEF PodForgets
  <2>2. rc.pc \in {"patch", "status"} => rc.set \in Set /\ rc.set # z
    BY <1>1, <1>9, Fields DEF PodForgets, Busy
  <2>3. rc.pc \in {"patch", "status"} => age'[rc.set] = age[rc.set]
    BY <1>1, <2>1, <2>2 DEF TypeOK
  <2>4. QED
    BY <1>1, <2>1, <2>3, CountOutside
<1>10. CASE Tick
  <2>1. UNCHANGED <<rc, replicas>>
    BY <1>10 DEF Tick
  <2>2. ASSUME rc.pc \in {"patch", "status"}, NEW i \in Replica
        PROVE  (age'[rc.set][i] # None) = (age[rc.set][i] # None)
    <3>1. rc.set \in Set
      BY <1>1, <2>2, Fields
    <3>2. age'[rc.set][i] = IF age[rc.set][i] \in 0..Delay - 1 THEN age[rc.set][i] + 1 ELSE age[rc.set][i]
      BY <1>10, <3>1 DEF Tick
    <3>3. age[rc.set][i] \in {None} \cup 0..Delay
      BY <1>1, <3>1 DEF TypeOK
    <3>4. QED
      BY <3>2, <3>3, CountNat DEF None
  <2>3. QED
    BY <1>1, <2>1, <2>2, CountOutside
<1>11. CASE UNCHANGED vars
  <2>1. UNCHANGED <<rc, replicas, age>>
    BY <1>11 DEF vars
  <2>2. QED
    BY <1>1, <2>1, CountOutside
<1>12. QED
  BY <1>2, <1>3, <1>4, <1>5, <1>6, <1>7, <1>8, <1>9, <1>10, <1>11 DEF Next, Controller

\* Of n pods, those that are not prepared are n less those that are.
LEMMA Unprepared ==
    ASSUME NEW n \in Nat, NEW ages
    PROVE  /\ Cardinality({i \in 0..n - 1 : ages[i] = None}) \in Nat
           /\ Cardinality(PreparedBelow(ages, n)) \in Nat
           /\ Cardinality({i \in 0..n - 1 : ages[i] = None}) = n - Cardinality(PreparedBelow(ages, n))
<1> DEFINE S == {i \in 0..n - 1 : ages[i] = None}
           T == PreparedBelow(ages, n)
<1>1. S \subseteq 0..n - 1 /\ T \subseteq 0..n - 1 /\ S = (0..n - 1) \ T /\ (0..n - 1) \cap T = T
  BY DEF PreparedBelow
<1> HIDE DEF S, T
<1>2. IsFiniteSet(0..n - 1) /\ Cardinality(0..n - 1) = n
  BY FS_Interval
<1>3. IsFiniteSet(S) /\ Cardinality(S) \in Nat /\ IsFiniteSet(T) /\ Cardinality(T) \in Nat
  BY <1>1, RangeFinite
<1>4. Cardinality((0..n - 1) \ T) = Cardinality(0..n - 1) - Cardinality((0..n - 1) \cap T)
  BY <1>2, <1>3, FS_Difference
<1>5. Cardinality(S) = n - Cardinality(T)
  BY <1>1, <1>2, <1>4
<1>6. QED
  BY <1>3, <1>5 DEF S, T

\* When a reconcile starts from the current StatefulSets, a status that
\* updateStatusReplicasOnReferenceResourceIfNeeded writes counts every pod that is
\* not prepared, whichever calls to the pods have failed or have lost their answer.
THEOREM StatusHonest ==
    ASSUME InformerPrompt
    PROVE  Spec => StatusCountsUnprepared
<1> DEFINE Honest == \A z \in Set : refStatus'[z] # refStatus[z] =>
                       refStatus'[z] >= Cardinality({i \in Running(z) : age[z][i] = None})
<1>1. Init => CountInv
  BY DEF Init, CountInv, Idle
<1>2. Inv /\ CountInv /\ [Next]_vars => CountInv'
  BY CountStep
<1>3. Inv /\ CountInv /\ [Next]_vars => [Honest]_vars
  <2> SUFFICES ASSUME Inv, CountInv, Next, NEW z \in Set, refStatus'[z] # refStatus[z]
               PROVE  refStatus'[z] >= Cardinality({i \in Running(z) : age[z][i] = None})
    OBVIOUS
  <2>1. TypeOK
    BY DEF Inv
  <2>2. ASSUME NEW n, updateStatusReplicasOnReferenceResourceIfNeeded(n) PROVE z = rc.set /\ refStatus'[z] = n
    <3>1. refStatus' = [refStatus EXCEPT ![rc.set] = n]
      BY <2>2 DEF updateStatusReplicasOnReferenceResourceIfNeeded
    <3>2. QED
      BY <2>1, <3>1 DEF TypeOK
  <2>3. CASE SyncStatus
    <3>1. rc.pc = "synced" /\ z = rc.set /\ refStatus'[z] = rc.want
      BY <2>2, <2>3 DEF SyncStatus
    <3>2. rc.want = replicas[z] /\ replicas[z] \in Nat
      BY <2>1, <3>1, Fields, CountNat DEF CountInv, Inv, Fresh, Cur, TypeOK
    <3>3. /\ Cardinality({i \in 0..replicas[z] - 1 : age[z][i] = None}) \in Nat
          /\ Cardinality({i \in 0..replicas[z] - 1 : age[z][i] = None}) <= replicas[z]
      BY <3>2, RangeFinite
    <3>4. QED
      BY <3>1, <3>2, <3>3 DEF Running
  <2>4. CASE WriteStatus
    <3> DEFINE n == IF ExcludeFromStatus THEN rc.to - rc.prepared ELSE rc.to
    <3>1. updateStatusReplicasOnReferenceResourceIfNeeded(n) /\ rc.pc = "status"
      BY <2>4 DEF WriteStatus
    <3>2. z = rc.set /\ refStatus'[z] = n
      BY <2>2, <3>1
    <3>3. rc.to \in Nat /\ rc.prepared \in Nat /\ replicas[z] = rc.to
      BY <2>1, <3>1, <3>2, Fields, CountNat DEF CountInv
    <3>4. rc.prepared <= Cardinality(PreparedBelow(age[z], rc.to))
      BY <3>1, <3>2 DEF CountInv
    <3>5. n >= rc.to - Cardinality(PreparedBelow(age[z], rc.to))
      <4>1. Cardinality(PreparedBelow(age[z], rc.to)) \in Nat
        BY <3>3, Unprepared
      <4>2. n = rc.to \/ n = rc.to - rc.prepared
        BY Zenon
      <4> HIDE DEF n
      <4>3. QED
        BY <3>3, <3>4, <4>1, <4>2
    <3>6. Running(z) = 0..rc.to - 1
      BY <3>3 DEF Running
    <3> HIDE DEF n
    <3>7. QED
      BY <3>2, <3>3, <3>5, <3>6, Unprepared
  <2>5. UNCHANGED refStatus \/ SyncStatus \/ WriteStatus
    BY DEF Next, Controller, StartReconcile, ReadReference, callCancelDelayedDownscale, callPrepareDownscale,
       patchStatefulSetSpecReplicas, InformerSync, ReferenceScaled, PodForgets, Tick
  <2>6. QED
    BY <2>3, <2>4, <2>5
<1>4. QED
  BY <1>1, <1>2, <1>3, DelayedInvariant, PTL DEF Spec, StatusCountsUnprepared
=============================================================================
