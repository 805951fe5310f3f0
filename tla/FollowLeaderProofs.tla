------------------------- MODULE FollowLeaderProofs -------------------------
(***************************************************************************)
(* Downscales stay apart and a scale-up waits for the leader, for any      *)
(* number of sets, any annotations and any sequence of requests, denials   *)
(* and failures.                                                           *)
(***************************************************************************)
EXTENDS FollowLeader, WellFoundedInduction, TLAPS

-----------------------------------------------------------------------------
(* The smallest element of a set of naturals: the set that the loop of the *)
(* reconcile ends at.                                                      *)

LEMMA MinElement ==
    ASSUME NEW S \in SUBSET Nat, S # {}
    PROVE  Min(S) \in S
<1>1. PICK x \in S : \A y \in S : ~(<<y, x>> \in OpToRel(<, Nat))
  BY WFMin, NatLessThanWellFounded
<1>2. ASSUME NEW y \in S, y < x
      PROVE  FALSE
  <2>1. <<y, x>> \in Nat \X Nat /\ <<y, x>>[1] < <<y, x>>[2]
    BY <1>2
  <2>2. <<y, x>> \in OpToRel(<, Nat)
    BY <2>1, Zenon DEF OpToRel
  <2>3. QED
    BY <1>1, <2>2
<1>3. \A y \in S : x <= y
  BY <1>2
<1>4. QED
  BY <1>3 DEF Min

-----------------------------------------------------------------------------
(* The inductive invariant.                                                *)

\* The webhook stores the time of each downscale that it allows, so that the
\* stored time is at most as old as the downscale.
Stored(z) == granted[z] = Never \/ (obj[z].last # Never /\ obj[z].last <= granted[z])

\* Only a set with a leader is patched.
PatchesFollower == rec # Idle => cfg.leader[rec.set] \in Set

Inv == TypeOK /\ (\A z \in Set : Stored(z)) /\ PatchesFollower

\* A set whose status shows it ready was ready.  The status of a set that the
\* operator itself scales may be of the replicas before, which is why this is said
\* of the sets without a leader only.
Honest(s) == s.ready = s.replicas => s.full

LeaderHonest(z) ==
    cfg.leader[z] = NoLeader =>
        Honest(obj[z]) /\ Honest(cache[z]) /\ (up[z] >= obj[z].replicas => obj[z].full)

LEMMA Numbers ==
    /\ Count \subseteq Nat /\ (\A n \in Nat : n <= MaxReplicas => n \in Count)
    /\ (\A n \in Count : n <= MaxReplicas) /\ 0 \in Count
    /\ Age \subseteq Nat /\ 0 \in Age /\ MaxAge \in Age /\ Never \notin Age /\ None \notin Count
    /\ (\A a \in Age \cup {Never, None} : a \in Int)
    /\ Set \subseteq Nat /\ NoLeader \notin Set /\ Missing \notin Set
BY BoundAssumption DEF Count, Age, MaxAge, Never, None, Set, NoLeader, Missing

LEMMA OlderAge ==
    /\ \A a \in Age \cup {Never} : Older(a) \in Age \cup {Never}
    /\ \A a \in Age \cup {Never} : Older(a) = Never <=> a = Never
    /\ \A a, b \in Age : a <= b => Older(a) <= Older(b)
BY BoundAssumption DEF Older, Age, MaxAge, Never

LEMMA Annotations ==
    ASSUME NEW c \in Configs
    PROVE  /\ c.replicas \in [Set -> Count] /\ c.max \in Count
           /\ c.scaled \subseteq Set /\ c.forced \subseteq Set /\ c.faults \in Nat
           /\ c.leader \in [Set -> Set \cup {NoLeader, Missing}]
           /\ c.whenReady \in [Set -> BOOLEAN]
           /\ c.minTime \in [Set -> Age \cup {None}]
<1>1. c \in Config
  BY ConfigAssumption
<1>2. 0..NumSets + 1 = Set \cup {NoLeader, Missing}
  BY BoundAssumption DEF Set, NoLeader, Missing
<1>3. 0..MaxMinTime \subseteq Age
  BY BoundAssumption DEF Age, MaxAge
<1>4. QED
  BY <1>1, <1>2, <1>3 DEF Config, Count

LEMMA SetFields ==
    ASSUME NEW s \in StatefulSet
    PROVE  /\ s.replicas \in Count /\ s.created \in Count /\ s.ready \in Count
           /\ s.last \in Age \cup {Never} /\ s.force \in Count \cup {None} /\ s.full \in BOOLEAN
BY DEF StatefulSet

-----------------------------------------------------------------------------
(* What the reconcile decides.                                             *)

LEMMA DesiredCount ==
    ASSUME cfg \in Configs, NEW sets \in [Set -> StatefulSet], NEW z \in Set, ~desiredFails(sets, z)
    PROVE  /\ desiredStsReplicas(sets, z) \in Count
           /\ desiredStsReplicas(sets, z) # sets[z].replicas => cfg.leader[z] \in Set
<1>1. cfg.leader[z] \in Set \cup {NoLeader}
  BY Annotations DEF desiredFails
<1>2. sets[z].replicas \in Count /\ sets[z].force \in Count \cup {None}
  BY SetFields
<1>3. CASE cfg.leader[z] = NoLeader
  BY <1>2, <1>3 DEF desiredStsReplicas
<1>4. CASE cfg.leader[z] \in Set
  <2>1. sets[cfg.leader[z]].replicas \in Count
    BY <1>4, SetFields
  <2>2. QED
    BY <1>2, <1>4, <2>1 DEF desiredStsReplicas, getForceReplicasOverride
<1>5. QED
  BY <1>1, <1>3, <1>4

LEMMA Decides ==
    ASSUME TypeOK, adjustStatefulSetsGroupReplicasToFollowLeader
    PROVE  /\ rec' \in Patching /\ rec'.replicas = desiredStsReplicas(cache, rec'.set)
           /\ cfg.leader[rec'.set] \in Set
<1> DEFINE z == Min(LoopEnds(cache))
<1>1. /\ ~desiredFails(cache, z) /\ LoopEnds(cache) # {}
      /\ rec' = [pc |-> "patch", set |-> z, replicas |-> desiredStsReplicas(cache, z)]
  BY DEF adjustStatefulSetsGroupReplicasToFollowLeader
<1>2. LoopEnds(cache) \in SUBSET Nat /\ LoopEnds(cache) \subseteq Set
  BY Numbers DEF LoopEnds
<1>3. z \in LoopEnds(cache)
  BY <1>1, <1>2, MinElement
<1> HIDE DEF z
<1>4. z \in Set /\ desiredStsReplicas(cache, z) # cache[z].replicas
  BY <1>1, <1>3 DEF LoopEnds
<1>5. cfg \in Configs /\ cache \in [Set -> StatefulSet]
  BY DEF TypeOK
<1>6. desiredStsReplicas(cache, z) \in Count /\ cfg.leader[z] \in Set
  BY <1>1, <1>4, <1>5, DesiredCount
<1>7. QED
  BY <1>1, <1>4, <1>6 DEF Patching

-----------------------------------------------------------------------------
(* One request: the set z gets n replicas.                                 *)

LEMMA Replaced ==
    ASSUME TypeOK, NEW z \in Set, NEW n \in Count, NEW last \in Age \cup {Never}, SetReplicas(z, n, last)
    PROVE  /\ up' \in [Set -> Count] /\ obj' \in [Set -> StatefulSet]
           /\ obj'[z].replicas = n /\ obj'[z].last = last /\ obj'[z].ready = obj[z].ready
           /\ obj'[z].full = (up[z] >= n) /\ up'[z] = IF n < up[z] THEN n ELSE up[z]
           /\ \A w \in Set \ {z} : obj'[w] = obj[w] /\ up'[w] = up[w]
<1>1. obj \in [Set -> StatefulSet] /\ up \in [Set -> Count]
  BY DEF TypeOK
<1>2. obj' = [obj EXCEPT ![z] = [obj[z] EXCEPT !.replicas = n, !.last = last, !.full = up[z] >= n]]
  BY <1>1 DEF SetReplicas
<1>3. obj[z] \in StatefulSet /\ (up[z] >= n) \in BOOLEAN
  BY <1>1
<1>4. [obj[z] EXCEPT !.replicas = n, !.last = last, !.full = up[z] >= n] \in StatefulSet
  BY <1>3 DEF StatefulSet
<1>5. obj' \in [Set -> StatefulSet] /\ \A w \in Set \ {z} : obj'[w] = obj[w]
  BY <1>1, <1>2, <1>4
<1>6. /\ obj'[z].replicas = n /\ obj'[z].last = last /\ obj'[z].ready = obj[z].ready
      /\ obj'[z].full = (up[z] >= n)
  BY <1>1, <1>2, <1>3 DEF StatefulSet
<1>7. up' = [up EXCEPT ![z] = IF n < up[z] THEN n ELSE up[z]]
  BY <1>1 DEF SetReplicas
<1>8. QED
  BY <1>1, <1>5, <1>6, <1>7

\* A request that is let through, checked or not.
Changed(z, n) ==
    CheckedDownscale(z, n) \/ (SetReplicas(z, n, obj[z].last) /\ granted' = granted)

LEMMA LetThrough ==
    ASSUME Inv, NEW z \in Set, NEW n \in Count, Changed(z, n)
    PROVE  /\ up' \in [Set -> Count] /\ obj' \in [Set -> StatefulSet]
           /\ granted' \in [Set -> Age \cup {Never}] /\ \A w \in Set : Stored(w)'
           /\ obj'[z].replicas = n /\ obj'[z].ready = obj[z].ready
           /\ obj'[z].full = (up[z] >= n) /\ up'[z] = IF n < up[z] THEN n ELSE up[z]
           /\ \A w \in Set \ {z} : obj'[w] = obj[w] /\ up'[w] = up[w]
<1>0. TypeOK /\ obj \in [Set -> StatefulSet] /\ granted \in [Set -> Age \cup {Never}]
  BY DEF Inv, TypeOK
<1>1. obj[z].last \in Age \cup {Never} /\ 0 \in Age
  BY <1>0, SetFields, Numbers
<1>2. CASE CheckedDownscale(z, n)
  <2>1. SetReplicas(z, n, 0) /\ granted' = [granted EXCEPT ![z] = 0]
    BY <1>2 DEF CheckedDownscale
  <2>2. /\ up' \in [Set -> Count] /\ obj' \in [Set -> StatefulSet]
        /\ obj'[z].replicas = n /\ obj'[z].last = 0 /\ obj'[z].ready = obj[z].ready
        /\ obj'[z].full = (up[z] >= n) /\ up'[z] = IF n < up[z] THEN n ELSE up[z]
        /\ \A w \in Set \ {z} : obj'[w] = obj[w] /\ up'[w] = up[w]
    BY <1>0, <1>1, <2>1, Replaced
  <2>3. granted' \in [Set -> Age \cup {Never}] /\ \A w \in Set : Stored(w)'
    BY <1>0, <1>1, <2>1, <2>2 DEF Stored, Inv, Never
  <2>4. QED
    BY <2>2, <2>3
<1>3. CASE SetReplicas(z, n, obj[z].last) /\ granted' = granted
  <2>1. /\ up' \in [Set -> Count] /\ obj' \in [Set -> StatefulSet]
        /\ obj'[z].replicas = n /\ obj'[z].last = obj[z].last /\ obj'[z].ready = obj[z].ready
        /\ obj'[z].full = (up[z] >= n) /\ up'[z] = IF n < up[z] THEN n ELSE up[z]
        /\ \A w \in Set \ {z} : obj'[w] = obj[w] /\ up'[w] = up[w]
    BY <1>0, <1>1, <1>3, Replaced
  <2>2. granted' \in [Set -> Age \cup {Never}] /\ \A w \in Set : Stored(w)'
    BY <1>0, <1>3, <2>1 DEF Stored, Inv
  <2>3. QED
    BY <2>1, <2>2
<1>4. QED
  BY <1>2, <1>3 DEF Changed

\* A downscale that fails or is denied once prepare-downscale has stored its time.
LEMMA StoredInVain ==
    ASSUME Inv, NEW z \in Set, addDownscaledAnnotationToStatefulSet(z)
    PROVE  /\ obj' \in [Set -> StatefulSet] /\ \A w \in Set : Stored(w)'
           /\ obj'[z].replicas = obj[z].replicas /\ obj'[z].ready = obj[z].ready /\ obj'[z].full = obj[z].full
           /\ \A w \in Set \ {z} : obj'[w] = obj[w]
<1>0. obj' = [obj EXCEPT ![z].last = 0] /\ granted' = granted
  BY DEF addDownscaledAnnotationToStatefulSet
<1>1. obj \in [Set -> StatefulSet] /\ granted \in [Set -> Age \cup {Never}] /\ 0 \in Age
  BY Numbers DEF Inv, TypeOK
<1>2. [obj[z] EXCEPT !.last = 0] \in StatefulSet
  BY <1>1 DEF StatefulSet
<1>3. obj' \in [Set -> StatefulSet] /\ obj'[z] = [obj[z] EXCEPT !.last = 0] /\ \A w \in Set \ {z} : obj'[w] = obj[w]
  BY <1>0, <1>1, <1>2
<1>4. /\ obj'[z].last = 0 /\ obj'[z].replicas = obj[z].replicas
      /\ obj'[z].ready = obj[z].ready /\ obj'[z].full = obj[z].full
  BY <1>1, <1>3 DEF StatefulSet
<1>5. granted[z] = Never \/ 0 <= granted[z]
  BY <1>1, Numbers DEF Age
<1>6. \A w \in Set : Stored(w)'
  BY <1>0, <1>3, <1>4, <1>5 DEF Stored, Inv, Never
<1>7. QED
  BY <1>3, <1>4, <1>6

\* Whatever becomes of a request, the objects keep their form and the stored times
\* match the downscales.
Answered(z, n) ==
    Changed(z, n) \/ addDownscaledAnnotationToStatefulSet(z) \/ UNCHANGED <<obj, up, granted>>

LEMMA Requested ==
    ASSUME Inv, NEW z \in Set, NEW n \in Count, Answered(z, n)
    PROVE  /\ up' \in [Set -> Count] /\ obj' \in [Set -> StatefulSet]
           /\ granted' \in [Set -> Age \cup {Never}] /\ \A w \in Set : Stored(w)'
           /\ \A w \in Set \ {z} : obj'[w] = obj[w] /\ up'[w] = up[w]
<1>1. CASE Changed(z, n)
  BY <1>1, LetThrough
<1>2. CASE addDownscaledAnnotationToStatefulSet(z)
  <2>1. up' = up /\ granted' = granted
    BY <1>2 DEF addDownscaledAnnotationToStatefulSet
  <2>2. QED
    BY <1>2, <2>1, StoredInVain DEF Inv, TypeOK
<1>3. CASE UNCHANGED <<obj, up, granted>>
  BY <1>3 DEF Inv, TypeOK, Stored
<1>4. QED
  BY <1>1, <1>2, <1>3 DEF Answered

LEMMA Answers ==
    ASSUME NEW z, NEW n,
           Upscale(z, n) \/ PrepareDownscale(z, n) \/ allowBecauseCannotGetResource(z, n) \/ RequestFails(z, n)
    PROVE  Answered(z, n)
BY DEF Upscale, PrepareDownscale, allowBecauseCannotGetResource, RequestFails, Answered, Changed,
       addDownscaledAnnotationToStatefulSet

-----------------------------------------------------------------------------
(* The invariant is inductive.                                             *)

LEMMA InitInv == Init => Inv
<1> SUFFICES ASSUME Init PROVE Inv
  OBVIOUS
<1>1. cfg \in Configs /\ up \in [Set -> Count]
  BY Annotations DEF Init
<1>2. obj \in [Set -> StatefulSet] /\ cache = obj
  BY <1>1 DEF Init, StatefulSet
<1>3. cfg.faults \in Nat /\ MaxEdits \in Nat
  BY <1>1, Annotations, BoundAssumption
<1>4. granted \in [Set -> Age \cup {Never}] /\ rec = Idle /\ edits = 0 /\ faults = 0
  BY DEF Init
<1>5. TypeOK
  BY <1>1, <1>2, <1>3, <1>4 DEF TypeOK
<1>6. \A z \in Set : Stored(z)
  BY DEF Init, Stored
<1>7. QED
  BY <1>4, <1>5, <1>6 DEF Inv, PatchesFollower

LEMMA AdjustInv ==
    ASSUME Inv, adjustStatefulSetsGroupReplicasToFollowLeader
    PROVE  Inv'
<1>1. rec' \in Patching /\ cfg.leader[rec'.set] \in Set
  BY Decides DEF Inv
<1>2. UNCHANGED <<cfg, obj, up, cache, granted, edits, faults>>
  BY DEF adjustStatefulSetsGroupReplicasToFollowLeader
<1>3. QED
  BY <1>1, <1>2 DEF Inv, TypeOK, Stored, PatchesFollower

LEMMA FaultCounted ==
    ASSUME TypeOK, Fault
    PROVE  faults' \in 0..cfg.faults /\ faults' # faults
<1>1. cfg.faults \in Nat
  BY Annotations DEF TypeOK
<1>2. QED
  BY <1>1 DEF TypeOK, Fault

\* A request from the reconcile: what is sent is what was decided.
LEMMA PatchShape ==
    ASSUME Inv, patchStatefulSetSpecReplicas
    PROVE  /\ rec \in Patching /\ rec.set \in Set /\ rec.replicas \in Count
           /\ cfg.leader[rec.set] \in Set
           /\ rec' = Idle /\ UNCHANGED <<cfg, cache, edits>>
           /\ Answered(rec.set, rec.replicas) /\ (faults' = faults \/ Fault)
<1>1. rec # Idle /\ rec \in {Idle} \cup Patching
  BY DEF Inv, TypeOK, patchStatefulSetSpecReplicas
<1>2. rec \in Patching /\ rec.set \in Set /\ rec.replicas \in Count
  BY <1>1 DEF Patching
<1>3. cfg.leader[rec.set] \in Set
  BY <1>1 DEF Inv, PatchesFollower
<1>4. Answered(rec.set, rec.replicas) /\ (faults' = faults \/ Fault)
  BY Answers DEF patchStatefulSetSpecReplicas, Answered, RequestFails
<1>5. QED
  BY <1>2, <1>3, <1>4 DEF patchStatefulSetSpecReplicas

LEMMA PatchInv ==
    ASSUME Inv, patchStatefulSetSpecReplicas
    PROVE  Inv'
<1>1. /\ rec' = Idle /\ UNCHANGED <<cfg, cache, edits>> /\ rec.set \in Set /\ rec.replicas \in Count
      /\ Answered(rec.set, rec.replicas) /\ (faults' = faults \/ Fault)
  BY PatchShape
<1>2. /\ up' \in [Set -> Count] /\ obj' \in [Set -> StatefulSet]
      /\ granted' \in [Set -> Age \cup {Never}] /\ \A w \in Set : Stored(w)'
  BY <1>1, Requested
<1>3. faults' \in 0..cfg.faults
  BY <1>1, FaultCounted DEF Inv, TypeOK
<1>4. QED
  BY <1>1, <1>2, <1>3 DEF Inv, TypeOK, PatchesFollower

LEMMA ScalesInv ==
    ASSUME Inv, NEW z \in cfg.scaled, NEW n \in Count, UserScales(z, n)
    PROVE  Inv'
<1>1. z \in Set /\ MaxEdits \in Nat
  BY Annotations, BoundAssumption DEF Inv, TypeOK
<1>2. Answered(z, n) /\ (faults' = faults \/ Fault) /\ UNCHANGED <<cfg, cache, rec>> /\ edits' \in 0..MaxEdits
  BY <1>1, Answers DEF UserScales, allowBecauseCannotGetResource, RequestFails, Inv, TypeOK
<1>3. /\ up' \in [Set -> Count] /\ obj' \in [Set -> StatefulSet]
      /\ granted' \in [Set -> Age \cup {Never}] /\ \A w \in Set : Stored(w)'
  BY <1>1, <1>2, Requested
<1>4. faults' \in 0..cfg.faults
  BY <1>2, FaultCounted DEF Inv, TypeOK
<1>5. QED
  BY <1>2, <1>3, <1>4 DEF Inv, TypeOK, PatchesFollower

\* The steps that change one field of one object besides its replicas and its time.
Touched(z) ==
    /\ obj' \in [Set -> StatefulSet] /\ \A w \in Set \ {z} : obj'[w] = obj[w]
    /\ obj'[z].replicas = obj[z].replicas /\ obj'[z].last = obj[z].last

LEMMA ForcesInv ==
    ASSUME Inv, NEW z \in cfg.forced, NEW n \in Count \cup {None}, UserForces(z, n)
    PROVE  Inv' /\ Touched(z) /\ obj'[z].ready = obj[z].ready /\ obj'[z].full = obj[z].full
<1>1. z \in Set /\ MaxEdits \in Nat /\ obj \in [Set -> StatefulSet]
  BY Annotations, BoundAssumption DEF Inv, TypeOK
<1>2. obj' = [obj EXCEPT ![z].force = n] /\ edits' \in 0..MaxEdits /\ UNCHANGED <<cfg, up, cache, rec, granted, faults>>
  BY <1>1 DEF UserForces, Inv, TypeOK
<1>3. [obj[z] EXCEPT !.force = n] \in StatefulSet
  BY <1>1 DEF StatefulSet
<1>4. obj' \in [Set -> StatefulSet] /\ obj'[z] = [obj[z] EXCEPT !.force = n] /\ \A w \in Set \ {z} : obj'[w] = obj[w]
  BY <1>1, <1>2, <1>3
<1>5. /\ obj'[z].replicas = obj[z].replicas /\ obj'[z].last = obj[z].last
      /\ obj'[z].ready = obj[z].ready /\ obj'[z].full = obj[z].full
  BY <1>1, <1>4 DEF StatefulSet
<1>6. \A w \in Set : Stored(w)'
  BY <1>2, <1>4, <1>5 DEF Inv, Stored
<1>7. QED
  BY <1>2, <1>4, <1>5, <1>6 DEF Inv, TypeOK, PatchesFollower, Touched

LEMMA PodInv ==
    ASSUME Inv, NEW z \in Set, PodReady(z)
    PROVE  /\ Inv' /\ Touched(z) /\ obj'[z].ready = obj[z].ready
           /\ obj'[z].full = (obj[z].full \/ up[z] + 1 = obj[z].replicas)
<1>1. obj \in [Set -> StatefulSet] /\ up \in [Set -> Count] /\ obj[z].full \in BOOLEAN
  BY SetFields DEF Inv, TypeOK
<1>2. /\ up[z] < obj[z].replicas /\ up' = [up EXCEPT ![z] = up[z] + 1]
      /\ obj' = [obj EXCEPT ![z].full = obj[z].full \/ up[z] + 1 = obj[z].replicas]
      /\ UNCHANGED <<cfg, cache, rec, granted, edits, faults>>
  BY <1>1 DEF PodReady
<1> DEFINE f == obj[z].full \/ up[z] + 1 = obj[z].replicas
<1>3. f \in BOOLEAN /\ obj' = [obj EXCEPT ![z].full = f]
  BY <1>2
<1> HIDE DEF f
<1>4. [obj[z] EXCEPT !.full = f] \in StatefulSet
  BY <1>1, <1>3 DEF StatefulSet
<1>5. obj' \in [Set -> StatefulSet] /\ obj'[z] = [obj[z] EXCEPT !.full = f] /\ \A w \in Set \ {z} : obj'[w] = obj[w]
  BY <1>1, <1>3, <1>4
<1>6. /\ obj'[z].replicas = obj[z].replicas /\ obj'[z].last = obj[z].last
      /\ obj'[z].ready = obj[z].ready /\ obj'[z].full = f
  BY <1>1, <1>5 DEF StatefulSet
<1>7. up[z] + 1 \in Count
  <2>1. up[z] \in Count /\ obj[z].replicas \in Count
    BY <1>1, SetFields
  <2>2. QED
    BY <1>2, <2>1, BoundAssumption DEF Count
<1>8. \A w \in Set : Stored(w)'
  BY <1>2, <1>5, <1>6 DEF Inv, Stored
<1>9. up' \in [Set -> Count]
  BY <1>1, <1>2, <1>7
<1>10. Inv'
  BY <1>2, <1>5, <1>8, <1>9 DEF Inv, TypeOK, PatchesFollower
<1>11. QED
  BY <1>5, <1>6, <1>10 DEF Touched, f

LEMMA PodFailsInv ==
    ASSUME Inv, NEW z \in Set, PodFails(z)
    PROVE  Inv' /\ up' = [up EXCEPT ![z] = up[z] - 1] /\ UNCHANGED <<cfg, obj, cache, rec>>
<1>1. up \in [Set -> Count] /\ up' = [up EXCEPT ![z] = up[z] - 1] /\ up[z] > 0
  BY DEF Inv, TypeOK, PodFails
<1>2. up[z] - 1 \in Count
  BY <1>1, BoundAssumption DEF Count
<1>3. up' \in [Set -> Count]
  BY <1>1, <1>2
<1>4. faults' \in 0..cfg.faults /\ UNCHANGED <<cfg, obj, cache, rec, granted, edits>>
  BY FaultCounted DEF PodFails, Inv
<1>5. QED
  BY <1>1, <1>3, <1>4 DEF Inv, TypeOK, Stored, PatchesFollower

LEMMA StatusInv ==
    ASSUME Inv, NEW z \in Set, StatusWritten(z)
    PROVE  Inv' /\ Touched(z) /\ obj'[z].ready = up[z] /\ obj'[z].full = obj[z].full
<1>1. obj \in [Set -> StatefulSet] /\ up \in [Set -> Count] /\ up[z] \in Count /\ obj[z].replicas \in Count
  BY SetFields DEF Inv, TypeOK
<1>2. /\ obj' = [obj EXCEPT ![z] = [obj[z] EXCEPT !.created = obj[z].replicas, !.ready = up[z]]]
      /\ UNCHANGED <<cfg, up, cache, rec, granted, edits, faults>>
  BY <1>1 DEF StatusWritten
<1>3. [obj[z] EXCEPT !.created = obj[z].replicas, !.ready = up[z]] \in StatefulSet
  BY <1>1 DEF StatefulSet
<1>4. /\ obj' \in [Set -> StatefulSet] /\ \A w \in Set \ {z} : obj'[w] = obj[w]
      /\ obj'[z] = [obj[z] EXCEPT !.created = obj[z].replicas, !.ready = up[z]]
  BY <1>1, <1>2, <1>3
<1>5. /\ obj'[z].replicas = obj[z].replicas /\ obj'[z].last = obj[z].last
      /\ obj'[z].ready = up[z] /\ obj'[z].full = obj[z].full
  BY <1>1, <1>4 DEF StatefulSet
<1>6. \A w \in Set : Stored(w)'
  BY <1>2, <1>4, <1>5 DEF Inv, Stored
<1>7. QED
  BY <1>2, <1>4, <1>5, <1>6 DEF Inv, TypeOK, PatchesFollower, Touched

\* A second passes for the stored times and for the history alike.
LEMMA Aged ==
    ASSUME NEW s \in StatefulSet
    PROVE  /\ [s EXCEPT !.last = Older(s.last)] \in StatefulSet
           /\ [s EXCEPT !.last = Older(s.last)].last = Older(s.last)
           /\ [s EXCEPT !.last = Older(s.last)].replicas = s.replicas
           /\ [s EXCEPT !.last = Older(s.last)].ready = s.ready
           /\ [s EXCEPT !.last = Older(s.last)].full = s.full
<1>1. Older(s.last) \in Age \cup {Never}
  BY SetFields, OlderAge
<1>2. QED
  BY <1>1 DEF StatefulSet

LEMMA TickInv ==
    ASSUME Inv, Tick
    PROVE  /\ Inv' /\ UNCHANGED <<cfg, up, rec>>
           /\ \A z \in Set : /\ obj'[z].replicas = obj[z].replicas
                             /\ obj'[z].ready = obj[z].ready /\ obj'[z].full = obj[z].full
                             /\ cache'[z].replicas = cache[z].replicas
                             /\ cache'[z].ready = cache[z].ready /\ cache'[z].full = cache[z].full
<1>1. obj \in [Set -> StatefulSet] /\ cache \in [Set -> StatefulSet] /\ granted \in [Set -> Age \cup {Never}]
  BY DEF Inv, TypeOK
<1>2. /\ obj' = [z \in Set |-> [obj[z] EXCEPT !.last = Older(obj[z].last)]]
      /\ cache' = [z \in Set |-> [cache[z] EXCEPT !.last = Older(cache[z].last)]]
      /\ granted' = [z \in Set |-> Older(granted[z])] /\ UNCHANGED <<cfg, up, rec, edits, faults>>
  BY DEF Tick
<1>3. /\ obj' \in [Set -> StatefulSet]
      /\ \A z \in Set : /\ obj'[z].last = Older(obj[z].last) /\ obj'[z].replicas = obj[z].replicas
                        /\ obj'[z].ready = obj[z].ready /\ obj'[z].full = obj[z].full
  BY <1>1, <1>2, Aged
<1>4. /\ cache' \in [Set -> StatefulSet]
      /\ \A z \in Set : /\ cache'[z].replicas = cache[z].replicas
                        /\ cache'[z].ready = cache[z].ready /\ cache'[z].full = cache[z].full
  BY <1>1, <1>2, Aged
<1>5. granted' \in [Set -> Age \cup {Never}]
  BY <1>1, <1>2, OlderAge
<1>6. ASSUME NEW z \in Set PROVE Stored(z)'
  <2>1. obj[z].last \in Age \cup {Never} /\ granted[z] \in Age \cup {Never} /\ Stored(z)
    BY <1>1, SetFields DEF Inv
  <2>2. obj'[z].last = Older(obj[z].last) /\ granted'[z] = Older(granted[z])
    BY <1>2, <1>3
  <2>3. QED
    BY <2>1, <2>2, OlderAge DEF Stored
<1>7. TypeOK' /\ PatchesFollower'
  BY <1>2, <1>3, <1>4, <1>5 DEF Inv, TypeOK, PatchesFollower
<1>8. QED
  BY <1>2, <1>3, <1>4, <1>6, <1>7 DEF Inv

LEMMA NextInv == Inv /\ [Next]_vars => Inv'
<1> SUFFICES ASSUME Inv, [Next]_vars PROVE Inv'
  OBVIOUS
<1>1. CASE Controller
  BY <1>1, AdjustInv, PatchInv DEF Controller
<1>2. CASE InformerSync
  BY <1>2 DEF InformerSync, Inv, TypeOK, Stored, PatchesFollower
<1>3. CASE Tick
  BY <1>3, TickInv
<1>4. CASE \E z \in Set : PodReady(z) \/ PodFails(z) \/ StatusWritten(z)
  BY <1>4, PodInv, PodFailsInv, StatusInv
<1>5. CASE \E z \in cfg.scaled, n \in Count : UserScales(z, n)
  BY <1>5, ScalesInv
<1>6. CASE \E z \in cfg.forced, n \in Count \cup {None} : UserForces(z, n)
  BY <1>6, ForcesInv
<1>7. CASE UNCHANGED vars
  BY <1>7 DEF vars, Inv, TypeOK, Stored, PatchesFollower
<1>8. QED
  BY <1>1, <1>2, <1>3, <1>4, <1>5, <1>6, <1>7 DEF Next

\* The patch that the reconcile holds is for a set that has a leader, and the
\* last-downscale time of prepare-downscale is at most as old as the last downscale
\* that the webhook allowed, whatever is denied or fails in between.
THEOREM FollowInvariant == Spec => []Inv
<1>1. QED
  BY InitInv, NextInv, PTL DEF Spec

\* All state, the replicas that desiredStsReplicas computes included, keeps its type.
THEOREM TypeCorrect == Spec => []TypeOK
<1>1. Inv => TypeOK
  BY DEF Inv
<1>2. QED
  BY <1>1, FollowInvariant, PTL

-----------------------------------------------------------------------------
(* Downscales of a group.                                                  *)

\* Of what a request may do, a downscale without a failed lookup passes the checks
\* of prepare-downscale.
LEMMA RequestChecked ==
    ASSUME Inv, NEW z \in Set, NEW n \in Count, Upscale(z, n) \/ PrepareDownscale(z, n),
           NEW w \in Set, obj'[w].replicas < obj[w].replicas
    PROVE  ~Refused(w)
<1>1. obj[w].replicas \in Nat
  BY SetFields, Numbers DEF Inv, TypeOK
<1>2. w = z
  BY <1>1, Answers, Requested
<1>3. ASSUME Upscale(z, n) PROVE FALSE
  <2>1. n >= obj[z].replicas /\ obj'[z].replicas = n
    BY <1>3, LetThrough DEF Upscale, Changed
  <2>2. QED
    BY <1>1, <1>2, <2>1, Numbers
<1>4. QED
  BY <1>2, <1>3 DEF PrepareDownscale

LEMMA DownscaleChecked ==
    ASSUME Inv, [Next]_vars, faults' = faults, NEW w \in Set, obj'[w].replicas < obj[w].replicas
    PROVE  ~Refused(w)
<1>0. obj[w].replicas \in Nat
  BY SetFields, Numbers DEF Inv, TypeOK
<1>1. obj'[w].replicas # obj[w].replicas
  BY <1>0
<1>2. CASE Controller
  <2>1. ~adjustStatefulSetsGroupReplicasToFollowLeader
    BY <1>1 DEF adjustStatefulSetsGroupReplicasToFollowLeader
  <2>2. patchStatefulSetSpecReplicas
    BY <1>2, <2>1 DEF Controller
  <2>3. rec.set \in Set /\ rec.replicas \in Count
    BY <2>2, PatchShape
  <2>4. Upscale(rec.set, rec.replicas) \/ PrepareDownscale(rec.set, rec.replicas)
    BY <1>1, <2>2, FaultCounted DEF patchStatefulSetSpecReplicas, RequestFails, Inv
  <2>5. QED
    BY <2>3, <2>4, RequestChecked
<1>3. CASE InformerSync \/ UNCHANGED vars
  BY <1>1, <1>3 DEF InformerSync, vars
<1>4. CASE Tick
  BY <1>1, <1>4, TickInv
<1>5. CASE \E z \in Set : PodReady(z) \/ PodFails(z) \/ StatusWritten(z)
  BY <1>1, <1>5, PodInv, PodFailsInv, StatusInv DEF Touched
<1>6. ASSUME NEW z \in cfg.scaled, NEW n \in Count, UserScales(z, n) PROVE ~Refused(w)
  <2>1. z \in Set /\ (Upscale(z, n) \/ PrepareDownscale(z, n))
    BY <1>6, Annotations, FaultCounted DEF UserScales, allowBecauseCannotGetResource, RequestFails, Inv, TypeOK
  <2>2. QED
    BY <2>1, RequestChecked
<1>7. CASE \E z \in cfg.forced, n \in Count \cup {None} : UserForces(z, n)
  BY <1>1, <1>7, ForcesInv DEF Touched
<1>8. QED
  BY <1>2, <1>3, <1>4, <1>5, <1>6, <1>7 DEF Next

\* For any number of sets, any minimum times and any sequence of requests and
\* failures, the two looks that the operator and prepare-downscale take keep the
\* downscales of a group apart.  The age of the stored time is at most that of the
\* downscale, so that what findDownscalesDoneMinTimeAgo lets pass is long enough ago.
THEOREM DownscalesKeptApart == Spec => DownscalesApart
<1>1. ASSUME Inv, [Next]_vars, NEW w \in Set, obj'[w].replicas < obj[w].replicas, faults' = faults,
             NEW z \in Set \ {w}
      PROVE  granted[z] = Never \/ granted[z] >= cfg.minTime[z]
  <2>1. ~findDownscalesDoneMinTimeAgo(w)
    BY <1>1, DownscaleChecked DEF Refused
  <2>2. obj[z].last = Never \/ ~(obj[z].last < cfg.minTime[z])
    BY <2>1 DEF findDownscalesDoneMinTimeAgo
  <2>3. /\ obj[z].last \in Age \cup {Never} /\ granted[z] \in Age \cup {Never}
        /\ cfg.minTime[z] \in Age \cup {None} /\ Stored(z)
    BY <1>1, SetFields, Annotations DEF Inv, TypeOK
  <2>4. /\ obj[z].last \in Int /\ granted[z] \in Int /\ cfg.minTime[z] \in Int
    BY <2>3, Numbers
  <2>5. QED
    BY <2>2, <2>3, <2>4 DEF Stored
<1>2. Inv /\ [Next]_vars =>
        [\A w \in Set : obj'[w].replicas < obj[w].replicas /\ faults' = faults =>
            \A z \in Set \ {w} : granted[z] = Never \/ granted[z] >= cfg.minTime[z]]_vars
  BY <1>1
<1>3. QED
  BY <1>2, FollowInvariant, PTL DEF Spec, DownscalesApart

-----------------------------------------------------------------------------
(* A follower that waits for its leader.                                   *)

LeaderInv == \A z \in Set : LeaderHonest(z)

\* The fields that LeaderHonest reads are left alone.
SameReadiness(z) ==
    /\ obj'[z].replicas = obj[z].replicas /\ obj'[z].ready = obj[z].ready /\ obj'[z].full = obj[z].full
    /\ up'[z] = up[z]

LEMMA SameHonest ==
    ASSUME NEW z \in Set, LeaderHonest(z), SameReadiness(z), cfg' = cfg,
           cache'[z].replicas = cache[z].replicas, cache'[z].ready = cache[z].ready,
           cache'[z].full = cache[z].full
    PROVE  LeaderHonest(z)'
BY DEF LeaderHonest, Honest, SameReadiness

LEMMA LeaderInit == Init => LeaderInv
BY DEF Init, LeaderInv, LeaderHonest, Honest

LEMMA LeaderScaled ==
    ASSUME StatusPrompt, Inv, LeaderInv, NEW z \in cfg.scaled, NEW n \in Count, UserScales(z, n),
           NEW w \in Set
    PROVE  LeaderHonest(w)'
<1>1. z \in Set /\ UNCHANGED <<cfg, cache>> /\ Answered(z, n) /\ obj[z].ready = up[z]
  BY Annotations, Answers DEF UserScales, Inv, TypeOK
<1>2. CASE w # z
  <2>1. obj'[w] = obj[w] /\ up'[w] = up[w]
    BY <1>1, <1>2, Requested
  <2>2. QED
    BY <1>1, <2>1 DEF LeaderInv, LeaderHonest
<1>3. CASE ~Changed(z, n)
  <2>1. SameReadiness(w)
    BY <1>1, <1>3, StoredInVain DEF Answered, SameReadiness, addDownscaledAnnotationToStatefulSet
  <2>2. QED
    BY <1>1, <2>1, SameHonest DEF LeaderInv
<1>4. CASE w = z /\ Changed(z, n)
  <2>1. n \in Nat /\ up[z] \in Nat
    BY <1>1, Numbers DEF Inv, TypeOK
  <2>2. /\ obj'[z].replicas = n /\ obj'[z].ready = up[z]
        /\ obj'[z].full = (up[z] >= n) /\ up'[z] = IF n < up[z] THEN n ELSE up[z]
    BY <1>1, <1>4, LetThrough
  <2>3. up[z] >= n => obj'[z].full
    BY <2>2, Zenon
  <2>4. Honest(obj'[z])
    BY <2>1, <2>2, <2>3 DEF Honest
  <2>5. up'[z] >= obj'[z].replicas => obj'[z].full
    BY <2>1, <2>2, <2>3
  <2>6. QED
    BY <1>1, <1>4, <2>4, <2>5 DEF LeaderInv, LeaderHonest
<1>5. QED
  BY <1>2, <1>3, <1>4

LEMMA LeaderPatched ==
    ASSUME Inv, LeaderInv, patchStatefulSetSpecReplicas, NEW w \in Set
    PROVE  LeaderHonest(w)'
<1>1. rec.set \in Set /\ rec.replicas \in Count /\ cfg.leader[rec.set] \in Set /\ UNCHANGED <<cfg, cache>>
  BY PatchShape
<1>2. CASE w = rec.set
  BY <1>1, <1>2, Numbers DEF LeaderHonest
<1>3. CASE w # rec.set
  <2>1. obj'[w] = obj[w] /\ up'[w] = up[w]
    BY <1>1, <1>3, PatchShape, Requested
  <2>2. QED
    BY <1>1, <2>1 DEF LeaderInv, LeaderHonest
<1>4. QED
  BY <1>2, <1>3

LEMMA LeaderPods ==
    ASSUME Inv, LeaderInv, NEW z \in Set, PodReady(z) \/ PodFails(z) \/ StatusWritten(z), NEW w \in Set
    PROVE  LeaderHonest(w)'
<1>0. /\ up \in [Set -> Count] /\ UNCHANGED <<cfg, cache>> /\ up[z] \in Nat /\ obj[z].replicas \in Nat
  BY SetFields, Numbers DEF Inv, TypeOK, PodReady, PodFails, StatusWritten
<1>1. CASE PodReady(z)
  <2>1. /\ Touched(z) /\ obj'[z].ready = obj[z].ready
        /\ obj'[z].full = (obj[z].full \/ up[z] + 1 = obj[z].replicas)
        /\ up' = [up EXCEPT ![z] = up[z] + 1] /\ up[z] < obj[z].replicas
    BY <1>0, <1>1, PodInv DEF PodReady
  <2>2. CASE w # z
    BY <1>0, <2>1, <2>2 DEF LeaderInv, LeaderHonest, Touched
  <2>3. CASE w = z
    <3>0. up[z] + 1 = obj[z].replicas \/ obj[z].full => obj'[z].full
      BY <2>1, Zenon
    <3>1. up'[z] >= obj'[z].replicas => obj'[z].full
      BY <1>0, <2>1, <3>0 DEF Touched
    <3>2. Honest(obj[z]) => Honest(obj'[z])
      BY <2>1, <3>0 DEF Honest, Touched
    <3>3. QED
      BY <1>0, <2>3, <3>1, <3>2 DEF LeaderInv, LeaderHonest
  <2>4. QED
    BY <2>2, <2>3
<1>2. CASE PodFails(z)
  <2>1. up' = [up EXCEPT ![z] = up[z] - 1] /\ obj' = obj
    BY <1>2, PodFailsInv
  <2>2. up'[w] >= obj[w].replicas => up[w] >= obj[w].replicas
    BY <1>0, <2>1
  <2>3. QED
    BY <1>0, <2>1, <2>2 DEF LeaderInv, LeaderHonest
<1>3. CASE StatusWritten(z)
  <2>1. Touched(z) /\ obj'[z].ready = up[z] /\ obj'[z].full = obj[z].full /\ up' = up
    BY <1>3, StatusInv DEF StatusWritten
  <2>2. CASE w # z
    BY <1>0, <2>1, <2>2 DEF LeaderInv, LeaderHonest, Touched
  <2>3. CASE w = z
    <3>1. up[z] = obj[z].replicas => up[z] >= obj[z].replicas
      BY <1>0
    <3>2. QED
      BY <1>0, <2>1, <2>3, <3>1 DEF LeaderInv, LeaderHonest, Honest, Touched
  <2>4. QED
    BY <2>2, <2>3
<1>4. QED
  BY <1>1, <1>2, <1>3

LEMMA LeaderNext ==
    ASSUME StatusPrompt, Inv, LeaderInv, [Next]_vars
    PROVE  LeaderInv'
<1> SUFFICES ASSUME NEW w \in Set PROVE LeaderHonest(w)'
  BY DEF LeaderInv
<1>1. CASE adjustStatefulSetsGroupReplicasToFollowLeader \/ UNCHANGED vars
  BY <1>1 DEF adjustStatefulSetsGroupReplicasToFollowLeader, vars, LeaderInv, LeaderHonest
<1>2. CASE patchStatefulSetSpecReplicas
  BY <1>2, LeaderPatched
<1>3. CASE InformerSync
  BY <1>3 DEF InformerSync, LeaderInv, LeaderHonest
<1>4. CASE Tick
  BY <1>4, TickInv, SameHonest DEF LeaderInv, SameReadiness
<1>5. CASE \E z \in Set : PodReady(z) \/ PodFails(z) \/ StatusWritten(z)
  BY <1>5, LeaderPods
<1>6. CASE \E z \in cfg.scaled, n \in Count : UserScales(z, n)
  BY <1>6, LeaderScaled
<1>7. ASSUME NEW z \in cfg.forced, NEW n \in Count \cup {None}, UserForces(z, n) PROVE LeaderHonest(w)'
  <2>1. z \in Set /\ UNCHANGED <<cfg, up, cache>>
    BY <1>7, Annotations DEF UserForces, Inv, TypeOK
  <2>2. SameReadiness(w)
    BY <1>7, <2>1, ForcesInv DEF Touched, SameReadiness
  <2>3. QED
    BY <2>1, <2>2, SameHonest DEF LeaderInv
<1>8. QED
  BY <1>1, <1>2, <1>3, <1>4, <1>5, <1>6, <1>7 DEF Next, Controller

\* What desiredStsReplicas does for a set that waits for its leader.
LEMMA WaitsForReady ==
    ASSUME TypeOK, NEW z \in Set, cfg.leader[z] \in Set, cfg.whenReady[z], cache[z].force = None,
           desiredStsReplicas(cache, z) > cache[z].replicas
    PROVE  cache[cfg.leader[z]].replicas = cache[cfg.leader[z]].ready
<1>1. cfg.leader[z] # NoLeader /\ ~getForceReplicasOverride(cache[z])
  BY Numbers DEF getForceReplicasOverride
<1>2. cache[z].replicas \in Nat /\ cache[cfg.leader[z]].replicas \in Nat
  BY SetFields, Numbers DEF TypeOK
<1>3. QED
  BY <1>1, <1>2 DEF desiredStsReplicas

\* If the status of a set is current whenever its replicas are changed, a follower
\* with the leader-ready annotation is never scaled up on a status that still
\* describes the replicas before, for any number of sets, users, denials and
\* failures.  It is assumed that such a follower does not follow a set that the
\* operator scales itself: patchStatefulSetSpecReplicas does not wait for a status.
THEOREM ScaleUpWaits ==
    ASSUME StatusPrompt,
           \A c \in Configs : \A z \in Set :
               c.whenReady[z] /\ c.leader[z] \in Set => c.leader[c.leader[z]] = NoLeader
    PROVE  Spec => ScaleUpWaitsForLeader
<1>1. ASSUME Inv, LeaderInv, [Next]_vars, rec = Idle, rec' # Idle, cfg.whenReady[rec'.set],
             cache[rec'.set].force = None, rec'.replicas > cache[rec'.set].replicas
      PROVE  cache[cfg.leader[rec'.set]].full
  <2>1. adjustStatefulSetsGroupReplicasToFollowLeader
    BY <1>1 DEF Next, Controller, patchStatefulSetSpecReplicas, InformerSync, Tick, PodReady, PodFails,
                StatusWritten, UserScales, UserForces, vars
  <2>2. /\ rec'.set \in Set /\ cfg.leader[rec'.set] \in Set
        /\ rec'.replicas = desiredStsReplicas(cache, rec'.set)
    BY <1>1, <2>1, Decides DEF Inv, Patching
  <2>3. cache[cfg.leader[rec'.set]].replicas = cache[cfg.leader[rec'.set]].ready
    BY <1>1, <2>2, WaitsForReady DEF Inv
  <2>4. cfg.leader[cfg.leader[rec'.set]] = NoLeader
    BY <1>1, <2>2 DEF Inv, TypeOK
  <2>5. QED
    BY <1>1, <2>2, <2>3, <2>4 DEF LeaderInv, LeaderHonest, Honest
<1>2. Inv /\ LeaderInv /\ [Next]_vars =>
        [LET z == rec'.set
         IN  /\ rec = Idle /\ rec' # Idle
             /\ cfg.whenReady[z] /\ cache[z].force = None /\ rec'.replicas > cache[z].replicas
             => cache[cfg.leader[z]].full]_vars
  BY <1>1
<1>3. Inv /\ LeaderInv /\ [Next]_vars => LeaderInv'
  BY LeaderNext
<1>4. Spec => []LeaderInv
  BY <1>3, LeaderInit, FollowInvariant, PTL DEF Spec
<1>5. QED
  BY <1>2, <1>4, FollowInvariant, PTL DEF Spec, ScaleUpWaitsForLeader
=============================================================================
