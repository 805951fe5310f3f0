------------------------ MODULE ConfigObserverProofs ------------------------
(***************************************************************************)
(* No change of the watch's health escapes the goroutine that publishes    *)
(* the readiness, however its reads and the handlers interleave; what the  *)
(* first list returned is in the cache of budgets when the operator has    *)
(* started; and only the deletion of its object takes a budget out of it.  *)
(***************************************************************************)
EXTENDS ConfigObserver, SequenceTheorems, FiniteSetTheorems, TLAPS

-----------------------------------------------------------------------------
(* Readiness.                                                              *)

\* A decision for ready that is outdated by now has a signal waiting behind it, or on its way.
DecisionSignalled == obs = "set1" /\ ~healthy => sending \/ signal

\* Nothing is published before observeReadiness runs.
UnpublishedAtFirst == obs = "off" => gauge = 0

HealthType == healthy \in BOOLEAN /\ sending \in BOOLEAN /\ signal \in BOOLEAN /\ gauge \in {0, 1}

SignalInv == HealthType /\ DecisionSignalled /\ UnpublishedAtFirst /\ NoLostSignal

LEMMA SignalInit == Init => SignalInv
<1>1. Init => healthy = FALSE /\ sending = FALSE /\ signal = FALSE /\ obs = "off" /\ gauge = 0
  BY Zenon DEF Init
<1>2. 0 # 1
  OBVIOUS
<1>3. QED
  BY <1>1, <1>2, Zenon DEF SignalInv, HealthType, DecisionSignalled, UnpublishedAtFirst, NoLostSignal

\* The handlers change the health and leave the observer where it is.
LEMMA HealthStep ==
    ASSUME SignalInv, NEW h \in BOOLEAN, setWatchHealthy(h), UNCHANGED <<obs, gauge>>
    PROVE  SignalInv'
BY Zenon DEF SignalInv, HealthType, DecisionSignalled, UnpublishedAtFirst, NoLostSignal, setWatchHealthy

LEMMA SignalStep ==
    ASSUME SignalInv, [Next]_vars
    PROVE  SignalInv'
<1> USE DEF readinessVars
<1>1. CASE UNCHANGED readinessVars
  BY <1>1 DEF SignalInv, HealthType, DecisionSignalled, UnpublishedAtFirst, NoLostSignal
<1>2. CASE waitForCacheSync
  BY <1>2 DEF waitForCacheSync, SignalInv, HealthType, DecisionSignalled, UnpublishedAtFirst, NoLostSignal
<1>3. CASE Wake
  BY <1>3, Zenon DEF Wake, SignalInv, HealthType, DecisionSignalled, UnpublishedAtFirst, NoLostSignal
<1>4. CASE Probe
  <2>1. obs' \in {"set0", "set1"} /\ (obs' = "set1" => healthy) /\ UNCHANGED <<healthy, sending, signal, gauge>>
    BY <1>4 DEF Probe
  <2>2. QED
    BY <2>1 DEF SignalInv, HealthType, DecisionSignalled, UnpublishedAtFirst, NoLostSignal
<1>5. CASE SetGauge
  BY <1>5 DEF SetGauge, SignalInv, HealthType, DecisionSignalled, UnpublishedAtFirst, NoLostSignal
<1>6. CASE ListFails \/ WatchFails \/ Rewatch
  <2>1. UNCHANGED <<obs, gauge>> /\ \E h \in BOOLEAN : setWatchHealthy(h)
    BY <1>6, Zenon DEF ListFails, WatchFails, Rewatch
  <2>2. QED
    BY <2>1, HealthStep
<1>7. CASE startCaches \/ Handle \/ FirstList \/ WatchEvent \/ InstallCRD \/ UNCHANGED vars
  BY <1>1, <1>7 DEF startCaches, Handle, FirstList, WatchEvent, InstallCRD, vars
<1>8. ASSUME NEW n \in Edited, Deleted(n) \/ \E valid \in BOOLEAN : Written(n, valid) PROVE SignalInv'
  BY <1>1, <1>8, Zenon DEF Deleted, Written, Change
<1>9. CASE SendSignal
  BY <1>9, Zenon DEF SendSignal, SignalInv, HealthType, DecisionSignalled, UnpublishedAtFirst, NoLostSignal
<1>10. QED
  BY <1>2, <1>3, <1>4, <1>5, <1>6, <1>7, <1>8, <1>9 DEF Next, Observer, Informer

\* A watch that fails after updateReadiness has read its health, and before the
\* gauge is set, still gets its signal through: the gauge is never left at ready
\* with nobody about to look again, for any budgets, edits and faults.
THEOREM SignalsReachTheObserver == Spec => []NoLostSignal
<1>1. SignalInv => NoLostSignal
  BY DEF SignalInv
<1>2. SignalInv /\ [Next]_vars => SignalInv'
  BY SignalStep
<1>3. QED
  BY <1>1, <1>2, SignalInit, PTL DEF Spec

-----------------------------------------------------------------------------
(* Sequences, and what a list of the objects is turned into.               *)

LEMMA SetAsSeq ==
    ASSUME NEW S, IsFiniteSet(S)
    PROVE  SetToSeq(S) \in Seq(S) /\ \A x \in S : \E i \in DOMAIN SetToSeq(S) : SetToSeq(S)[i] = x
<1> DEFINE c == Cardinality(S)
           q == SetToSeq(S)
<1>1. c \in Nat /\ ExistsBijection(1..c, S)
  BY FS_CardinalityType
<1>2. PICK f : f \in Bijection(1..c, S)
  BY <1>1 DEF ExistsBijection
<1>3. f \in [1..c -> S] /\ IsInjective(f)
  BY <1>2 DEF Bijection, Injection
<1>4. q \in [1..c -> S] /\ IsInjective(q)
  BY <1>3, Zenon DEF SetToSeq
<1>5. IsFiniteSet(1..c) /\ Cardinality(1..c) = c
  BY <1>1, FS_Interval
<1> HIDE DEF q
<1>6. q \in Injection(1..c, S)
  BY <1>4 DEF Injection
<1>7. q \in Surjection(1..c, S)
  BY <1>5, <1>6, FS_Injection
<1>8. \A x \in S : \E i \in 1..c : q[i] = x
  BY <1>7 DEF Surjection
<1> HIDE DEF c
<1>9. q \in Seq(S) /\ DOMAIN q = 1..c
  BY <1>1, <1>4
<1>10. QED
  BY <1>8, <1>9 DEF q

LEMMA FiniteImage ==
    ASSUME NEW E, IsFiniteSet(E), NEW f
    PROVE  IsFiniteSet({f[n] : n \in E})
<1> DEFINE T == {f[n] : n \in E}
           g == [n \in E |-> f[n]]
<1>1. g \in Surjection(E, T)
  BY DEF Surjection
<1>2. QED
  BY <1>1, FS_Surjection

Note == [type : {"update", "delete", "tombstone"}, name : Name, obj : Object]

\* The state that the cache of budgets depends on.
Shape ==
    /\ api \in [Name -> Object \cup {NoObj}] /\ store \in [Name -> Object \cup {NoObj}]
    /\ cache \in [Name -> Object \cup {NoObj}]
    /\ events \in Seq(Note) /\ notes \in Seq(Note) /\ initial \in 0..Len(notes)
    /\ edits \in Nat /\ promised \subseteq Name

\* What a list reports: the current objects, all of them, and tombstones.
Reports(l) ==
    /\ l \in Seq(Note)
    /\ \A i \in DOMAIN l : \/ l[i].type = "tombstone"
                           \/ l[i].name \in Existing /\ l[i] = NoteOf("update", l[i].name, api[l[i].name])
    /\ \A n \in Existing : \E i \in DOMAIN l : l[i] = NoteOf("update", n, api[n])

LEMMA ListedReports ==
    ASSUME Shape
    PROVE  Reports(Listed)
<1> DEFINE G == {n \in Name : store[n] # NoObj} \ Existing
           fu == [n \in Existing |-> NoteOf("update", n, api[n])]
           ft == [n \in G |-> NoteOf("tombstone", n, store[n])]
           U == {NoteOf("update", n, api[n]) : n \in Existing}
           T == {NoteOf("tombstone", n, store[n]) : n \in G}
<1>1. IsFiniteSet(Existing) /\ IsFiniteSet(G)
  <2>1. Existing \in SUBSET Name /\ G \in SUBSET Name
    BY DEF Existing
  <2>2. QED
    BY <2>1, ObjectAssumption, FS_Subset
<1>2. U = {fu[n] : n \in Existing} /\ T = {ft[n] : n \in G}
  BY Zenon
<1>3. IsFiniteSet(U) /\ IsFiniteSet(T)
  <2> HIDE DEF U, T, fu, ft, G
  <2>1. QED
    BY <1>1, <1>2, FiniteImage
<1>4. \A n \in Existing : n \in Name /\ api[n] \in Object
  BY DEF Existing, Shape
<1>5. \A n \in G : n \in Name /\ store[n] \in Object
  BY DEF Shape
<1>6. \A x \in U : x \in Note /\ x.name \in Existing /\ x = NoteOf("update", x.name, api[x.name])
  BY <1>4 DEF Note, NoteOf
<1>7. \A x \in T : x \in Note /\ x.type = "tombstone"
  BY <1>5 DEF Note, NoteOf
<1> DEFINE su == SetToSeq(U)
           st == SetToSeq(T)
<1>8. Listed = su \o st
  BY Zenon DEF Listed
<1>9. /\ su \in Seq(U) /\ \A x \in U : \E i \in DOMAIN su : su[i] = x
      /\ st \in Seq(T)
  <2> HIDE DEF U, T
  <2>1. QED
    BY <1>3, SetAsSeq
<1>10. U \subseteq Note /\ T \subseteq Note
  BY <1>6, <1>7, Zenon
<1>11. \A n \in Existing : NoteOf("update", n, api[n]) \in U
  OBVIOUS
<1> HIDE DEF U, T, su, st
<1>12. su \in Seq(Note) /\ st \in Seq(Note)
  BY <1>9, <1>10, SeqMonotonic
<1>13. /\ su \o st \in Seq(Note) /\ Len(su \o st) = Len(su) + Len(st)
       /\ \A i \in 1..Len(su) + Len(st) : (su \o st)[i] = IF i <= Len(su) THEN su[i] ELSE st[i - Len(su)]
  BY <1>12, ConcatProperties
<1>14. /\ Len(su) \in Nat /\ Len(st) \in Nat /\ DOMAIN su = 1..Len(su) /\ DOMAIN st = 1..Len(st)
       /\ DOMAIN (su \o st) = 1..Len(su) + Len(st)
  BY <1>12, <1>13, LenProperties
<1>15. (\A i \in 1..Len(su) : su[i] \in U) /\ (\A i \in 1..Len(st) : st[i] \in T)
  BY <1>9, ElementOfSeq
<1>16. ASSUME NEW i \in DOMAIN (su \o st) PROVE (su \o st)[i] \in U \cup T
  <2>1. CASE i <= Len(su)
    BY <1>13, <1>14, <1>15, <2>1
  <2>2. CASE ~(i <= Len(su))
    <3>1. i - Len(su) \in 1..Len(st) /\ (su \o st)[i] = st[i - Len(su)]
      BY <1>13, <1>14, <2>2
    <3>2. QED
      BY <1>15, <3>1
  <2>3. QED
    BY <2>1, <2>2
<1>17. ASSUME NEW n \in Existing
       PROVE  \E i \in DOMAIN (su \o st) : (su \o st)[i] = NoteOf("update", n, api[n])
  <2>1. PICK i \in DOMAIN su : su[i] = NoteOf("update", n, api[n])
    BY <1>9, <1>11
  <2>2. i \in DOMAIN (su \o st) /\ (su \o st)[i] = su[i]
    BY <1>13, <1>14
  <2>3. QED
    BY <2>1, <2>2
<1>18. \A x \in U \cup T : \/ x.type = "tombstone"
                           \/ x.name \in Existing /\ x = NoteOf("update", x.name, api[x.name])
  BY <1>6, <1>7, Zenon
<1>19. QED
  BY <1>8, <1>13, <1>16, <1>17, <1>18, Zenon DEF Reports

-----------------------------------------------------------------------------
(* What is on its way to the cache of budgets: the notifications that the  *)
(* handlers have not seen and the changes that the watch has not           *)
(* delivered.                                                              *)

Trail == notes \o events

LEMMA TrailType ==
    ASSUME Shape
    PROVE  /\ Trail \in Seq(Note) /\ Len(Trail) \in Nat /\ Len(Trail) = Len(notes) + Len(events)
           /\ Len(notes) \in Nat /\ Len(events) \in Nat /\ DOMAIN Trail = 1..Len(Trail)
           /\ \A i \in 1..Len(notes) : Trail[i] = notes[i]
           /\ \A i \in 1..Len(events) : Trail[Len(notes) + i] = events[i]
<1>1. notes \in Seq(Note) /\ events \in Seq(Note)
  BY DEF Shape
<1>2. QED
  BY <1>1 DEF Trail

LEMMA NotesFirst ==
    ASSUME Shape
    PROVE  Trail \in Seq(Note) /\ Len(Trail) \in Nat /\ Len(notes) \in Nat /\ Len(notes) <= Len(Trail)
<1>1. /\ Trail \in Seq(Note) /\ Len(Trail) \in Nat /\ Len(Trail) = Len(notes) + Len(events)
      /\ Len(notes) \in Nat /\ Len(events) \in Nat
  BY TrailType
<1>2. QED
  BY <1>1

\* The watch hands a change over.
LEMMA TrailDelivers ==
    ASSUME NEW s \in Seq(Note), NEW t \in Seq(Note), t # <<>>
    PROVE  Append(s, Head(t)) \o Tail(t) = s \o t
<1> DEFINE x == Head(t)
           u == Tail(t)
<1>1. x \in Note /\ u \in Seq(Note) /\ Len(u) = Len(t) - 1 /\ \A i \in 1..Len(u) : u[i] = t[i + 1]
  BY HeadTailProperties
<1>2. x = t[1] /\ Len(t) \in Nat \ {0} /\ Len(s) \in Nat
  BY EmptySeq, LenProperties
<1> HIDE DEF x, u
<1> DEFINE a == Append(s, x)
<1>4. a \in Seq(Note) /\ Len(a) = Len(s) + 1 /\ (\A i \in 1..Len(s) : a[i] = s[i]) /\ a[Len(s) + 1] = x
  BY <1>1, AppendProperties
<1> HIDE DEF a
<1>5. /\ a \o u \in Seq(Note) /\ Len(a \o u) = Len(a) + Len(u)
      /\ \A i \in 1..Len(a) + Len(u) : (a \o u)[i] = IF i <= Len(a) THEN a[i] ELSE u[i - Len(a)]
  BY <1>1, <1>4, ConcatProperties, Zenon
<1>6. /\ s \o t \in Seq(Note) /\ Len(s \o t) = Len(s) + Len(t)
      /\ \A i \in 1..Len(s) + Len(t) : (s \o t)[i] = IF i <= Len(s) THEN s[i] ELSE t[i - Len(s)]
  BY ConcatProperties
<1>7. Len(a \o u) = Len(s \o t)
  BY <1>1, <1>2, <1>4, <1>5, <1>6
<1>8. ASSUME NEW i \in 1..Len(a \o u) PROVE (a \o u)[i] = (s \o t)[i]
  <2>0. i \in Int /\ 1 <= i /\ i <= Len(s) + Len(t)
    BY <1>2, <1>6, <1>7
  <2>1. CASE i <= Len(s)
    BY <1>1, <1>2, <1>4, <1>5, <1>6, <2>0, <2>1
  <2>2. CASE i = Len(s) + 1
    BY <1>1, <1>2, <1>4, <1>5, <1>6, <2>0, <2>2
  <2>3. CASE i > Len(s) + 1
    <3>1. (a \o u)[i] = u[i - (Len(s) + 1)]
      BY <1>1, <1>2, <1>4, <1>5, <1>6, <2>0, <2>3
    <3>2. i - (Len(s) + 1) \in 1..Len(u)
      BY <1>1, <1>2, <2>0, <2>3
    <3>3. u[i - (Len(s) + 1)] = t[i - Len(s)]
      BY <1>1, <1>2, <2>0, <3>2, SMTT(40)
    <3>4. (s \o t)[i] = t[i - Len(s)]
      BY <1>2, <1>6, <2>0, <2>3
    <3>5. QED
      BY <3>1, <3>3, <3>4
  <2>4. QED
    BY <1>2, <2>0, <2>1, <2>2, <2>3
<1>9. a \o u = s \o t
  BY <1>5, <1>6, <1>7, <1>8, SeqEqual, Zenon
<1>10. QED
  BY <1>9 DEF a, x, u

\* The handlers take the first notification.
LEMMA TrailHandled ==
    ASSUME Shape, Handle
    PROVE  /\ Trail # <<>> /\ Head(notes) = Trail[1] /\ Head(notes) \in Note
           /\ Len(Trail) > 0 /\ Len(Trail') = Len(Trail) - 1 /\ Trail' \in Seq(Note)
           /\ \A i \in 1..Len(Trail) - 1 : Trail'[i] = Trail[i + 1]
           /\ notes' \in Seq(Note) /\ Len(notes') = Len(notes) - 1
<1> DEFINE u == Tail(notes)
<1>1. notes \in Seq(Note) /\ events \in Seq(Note) /\ notes # <<>> /\ notes' = u /\ events' = events
  BY DEF Shape, Handle, informerVars
<1>2. Head(notes) \in Note /\ u \in Seq(Note) /\ Len(u) = Len(notes) - 1 /\ \A i \in 1..Len(u) : u[i] = notes[i + 1]
  BY <1>1, HeadTailProperties
<1>3. Head(notes) = notes[1] /\ Len(notes) \in Nat \ {0} /\ Len(events) \in Nat
  BY <1>1, EmptySeq, LenProperties
<1> HIDE DEF u
<1>4. /\ u \o events \in Seq(Note) /\ Len(u \o events) = Len(u) + Len(events)
      /\ \A i \in 1..Len(u) + Len(events) : (u \o events)[i] = IF i <= Len(u) THEN u[i] ELSE events[i - Len(u)]
  BY <1>1, <1>2, ConcatProperties, Zenon
<1>5. /\ notes \o events \in Seq(Note) /\ Len(notes \o events) = Len(notes) + Len(events)
      /\ \A i \in 1..Len(notes) + Len(events) :
            (notes \o events)[i] = IF i <= Len(notes) THEN notes[i] ELSE events[i - Len(notes)]
  BY <1>1, ConcatProperties
<1>6. ASSUME NEW i \in 1..Len(notes \o events) - 1 PROVE (u \o events)[i] = (notes \o events)[i + 1]
  <2>0. i \in Int /\ 1 <= i /\ i + 1 <= Len(notes) + Len(events) /\ i <= Len(u) + Len(events)
    BY <1>2, <1>3, <1>5
  <2>1. CASE i <= Len(u)
    <3>1. (u \o events)[i] = u[i] /\ u[i] = notes[i + 1]
      BY <1>2, <1>3, <1>4, <2>0, <2>1
    <3>2. (notes \o events)[i + 1] = notes[i + 1]
      BY <1>2, <1>3, <1>5, <2>0, <2>1
    <3>3. QED
      BY <3>1, <3>2
  <2>2. CASE i > Len(u)
    <3>1. (u \o events)[i] = events[i - Len(u)]
      BY <1>2, <1>3, <1>4, <2>0, <2>2
    <3>2. (notes \o events)[i + 1] = events[i + 1 - Len(notes)] /\ i + 1 - Len(notes) = i - Len(u)
      BY <1>2, <1>3, <1>5, <2>0, <2>2
    <3>3. QED
      BY <3>1, <3>2
  <2>3. QED
    BY <1>2, <1>3, <2>0, <2>1, <2>2
<1>7. Trail' = u \o events
  BY <1>1 DEF Trail
<1>8. (notes \o events)[1] = notes[1] /\ Len(notes \o events) > 0 /\ Len(u \o events) = Len(notes \o events) - 1
  BY <1>2, <1>3, <1>4, <1>5
<1>9. notes \o events # <<>>
  BY <1>8, EmptySeq
<1>10. QED
  BY <1>1, <1>2, <1>3, <1>4, <1>6, <1>7, <1>8, <1>9, Zenon DEF Trail

-----------------------------------------------------------------------------
(* The objects of one name come after each other: a new one has a uid of   *)
(* its own, and the cache, the trail and the API server hold them in the   *)
(* order of their creation.  t is the trail, c the cache, a the objects    *)
(* and k the number of changes so far.                                     *)

Plain(x) == x.type # "tombstone"

Ordered(t) ==
    \A i, j \in 1..Len(t) : i < j /\ t[i].name = t[j].name /\ Plain(t[i]) /\ Plain(t[j])
                            => t[i].obj.uid <= t[j].obj.uid

Behind(t, c) ==
    \A i \in 1..Len(t) : Plain(t[i]) /\ c[t[i].name] # NoObj => c[t[i].name].uid <= t[i].obj.uid

\* What was deleted is older than what is there.
Ahead(t, a, k) ==
    \A i \in 1..Len(t) : Plain(t[i]) =>
        /\ t[i].obj.uid <= k
        /\ a[t[i].name] # NoObj => t[i].obj.uid <= a[t[i].name].uid
        /\ a[t[i].name] # NoObj /\ t[i].type = "delete" => t[i].obj.uid # a[t[i].name].uid

Bounded(c, a, k) ==
    \A n \in Name : /\ c[n] # NoObj => c[n].uid <= k
                    /\ a[n] # NoObj => a[n].uid <= k
                    /\ a[n] # NoObj /\ c[n] # NoObj => c[n].uid <= a[n].uid

Linear(t, c, a, k) == Ordered(t) /\ Behind(t, c) /\ Ahead(t, a, k) /\ Bounded(c, a, k)

LEMMA NoteFields ==
    ASSUME NEW x \in Note
    PROVE  x.type \in {"update", "delete", "tombstone"} /\ x.name \in Name /\ x.obj \in Object /\ x.obj # NoObj
BY ObjectAssumption DEF Note

LEMMA Uids == \A o \in Object : o.uid \in Nat /\ o.gen \in Nat
BY DEF Object

\* What the handlers make of a notification.
LEMMA HandleCache ==
    ASSUME Shape, Handle, NEW x, x = Head(notes)
    PROVE  /\ cache' \in [Name -> Object \cup {NoObj}]
           /\ \A n \in Name \ {x.name} : cache'[n] = cache[n]
           /\ \/ cache'[x.name] = cache[x.name] /\ (x.type = "update" /\ x.obj.valid => cache[x.name] # NoObj)
              \/ cache'[x.name] = x.obj /\ x.type = "update"
              \/ cache'[x.name] = NoObj /\ x.type = "delete"
<1>1. x \in Note
  BY TrailHandled
<1>2. x.name \in Name /\ x.obj \in Object /\ x.type \in {"update", "delete", "tombstone"}
  BY <1>1, NoteFields
<1> DEFINE v == CASE x.type = "update" -> addOrUpdateRaw(x.name, x.obj)
                  [] x.type = "delete" -> delete(x.name, x.obj)
                  [] x.type = "tombstone" -> cache[x.name]
<1>3. cache' = [cache EXCEPT ![x.name] = v]
  BY DEF Handle
<1>4. /\ x.type = "update" => v = addOrUpdateRaw(x.name, x.obj)
      /\ x.type = "delete" => v = delete(x.name, x.obj)
      /\ x.type = "tombstone" => v = cache[x.name]
  OBVIOUS
<1> HIDE DEF v
<1>5. \/ v = cache[x.name] /\ (x.type = "update" /\ x.obj.valid => cache[x.name] # NoObj)
      \/ v = x.obj /\ x.type = "update"
      \/ v = NoObj /\ x.type = "delete"
  BY <1>2, <1>4, Zenon DEF addOrUpdateRaw, delete
<1>6. cache \in [Name -> Object \cup {NoObj}]
  BY DEF Shape
<1>7. v \in Object \cup {NoObj}
  BY <1>2, <1>5, <1>6
<1>8. QED
  BY <1>2, <1>3, <1>5, <1>6, <1>7

LEMMA LinearHandled ==
    ASSUME Shape, Linear(Trail, cache, api, edits), Handle
    PROVE  Linear(Trail', cache', api, edits)
<1> DEFINE x == Head(notes)
           t == Trail
           u == Trail'
<1>1. /\ x = t[1] /\ x \in Note /\ Len(t) \in Nat /\ Len(t) > 0 /\ Len(u) = Len(t) - 1
      /\ \A i \in 1..Len(t) - 1 : u[i] = t[i + 1]
  BY TrailHandled, TrailType
<1>2. \A i \in 1..Len(t) : t[i] \in Note
  BY TrailType, ElementOfSeq
<1>3. /\ \A n \in Name \ {x.name} : cache'[n] = cache[n]
      /\ cache'[x.name] = cache[x.name] \/ (cache'[x.name] = x.obj /\ Plain(x)) \/ cache'[x.name] = NoObj
  BY HandleCache DEF Plain
<1>4. x.name \in Name /\ x.obj \in Object
  BY <1>1, NoteFields
<1> HIDE DEF x, t, u
<1>5. Ordered(t) /\ Behind(t, cache) /\ Ahead(t, api, edits) /\ Bounded(cache, api, edits)
  BY DEF Linear, t
<1>6. \A i \in 1..Len(u) : i + 1 \in 1..Len(t) /\ 1 \in 1..Len(t) /\ 1 < i + 1 /\ u[i] = t[i + 1]
  BY <1>1
<1>7. Ordered(u)
  BY <1>1, <1>5, <1>6, SMTT(40) DEF Ordered
<1>8. Ahead(u, api, edits)
  BY <1>5, <1>6 DEF Ahead
<1>9. ASSUME NEW i \in 1..Len(u), Plain(u[i]), cache'[u[i].name] # NoObj
      PROVE  cache'[u[i].name].uid <= u[i].obj.uid
  <2>1. i + 1 \in 1..Len(t) /\ u[i] = t[i + 1] /\ u[i].name \in Name
    BY <1>2, <1>6, NoteFields
  <2>2. CASE cache'[u[i].name] = cache[u[i].name]
    BY <1>5, <1>9, <2>1, <2>2 DEF Behind
  <2>3. CASE u[i].name = x.name /\ cache'[x.name] = x.obj /\ Plain(x)
    BY <1>1, <1>5, <1>6, <1>9, <2>1, <2>3 DEF Ordered
  <2>4. QED
    BY <1>3, <1>9, <2>1, <2>2, <2>3
<1>10. Behind(u, cache')
  BY <1>9 DEF Behind
<1>11. ASSUME NEW n \in Name, cache'[n] # NoObj
       PROVE  cache'[n].uid <= edits /\ (api[n] # NoObj => cache'[n].uid <= api[n].uid)
  <2>1. CASE cache'[n] = cache[n]
    BY <1>5, <1>11, <2>1 DEF Bounded
  <2>2. CASE n = x.name /\ cache'[n] = x.obj /\ Plain(x)
    <3>1. 1 \in 1..Len(t) /\ t[1] = x
      BY <1>1
    <3>2. QED
      BY <1>5, <2>2, <3>1 DEF Ahead
  <2>3. QED
    BY <1>3, <1>11, <2>1, <2>2
<1>12. Bounded(cache', api, edits)
  BY <1>5, <1>11 DEF Bounded
<1>13. QED
  BY <1>7, <1>8, <1>10, <1>12 DEF Linear, u

\* A list puts the objects as they are behind what the handlers have yet to see.
LEMMA LinearListed ==
    ASSUME Shape, Linear(Trail, cache, api, edits), NEW l, Reports(l)
    PROVE  Linear(notes \o l, cache, api, edits)
<1> DEFINE s == notes
           t == Trail
           u == notes \o l
<1>1. /\ s \in Seq(Note) /\ l \in Seq(Note) /\ t \in Seq(Note) /\ Len(s) \in Nat /\ Len(l) \in Nat
      /\ Len(t) \in Nat /\ Len(s) <= Len(t) /\ \A i \in 1..Len(s) : t[i] = s[i]
  BY TrailType, LenProperties DEF Reports, Shape
<1>2. Len(u) = Len(s) + Len(l) /\ \A i \in 1..Len(s) + Len(l) : u[i] = IF i <= Len(s) THEN s[i] ELSE l[i - Len(s)]
  BY <1>1, ConcatProperties
<1>3. Ordered(t) /\ Behind(t, cache) /\ Ahead(t, api, edits) /\ Bounded(cache, api, edits)
  BY DEF Linear
<1>4. \A n \in Name : api[n] # NoObj => api[n].uid \in Nat
  BY Uids DEF Shape
<1>5. ASSUME NEW i \in 1..Len(l), Plain(l[i])
      PROVE  /\ l[i].name \in Name /\ api[l[i].name] # NoObj
             /\ l[i].obj = api[l[i].name] /\ l[i].type = "update"
  BY <1>1, <1>5, LenProperties DEF Reports, Plain, Existing, NoteOf
<1> HIDE DEF s, t, u
<1>6. ASSUME NEW i \in 1..Len(u), Plain(u[i])
      PROVE  \/ i \in 1..Len(s) /\ i \in 1..Len(t) /\ u[i] = t[i]
             \/ /\ i > Len(s) /\ u[i].name \in Name /\ api[u[i].name] # NoObj
                /\ u[i].obj = api[u[i].name] /\ u[i].type = "update"
  <2>1. CASE i <= Len(s)
    BY <1>1, <1>2, <2>1
  <2>2. CASE i > Len(s)
    <3>1. i - Len(s) \in 1..Len(l) /\ u[i] = l[i - Len(s)]
      BY <1>1, <1>2, <2>2
    <3>2. QED
      BY <1>5, <1>6, <2>2, <3>1
  <2>3. QED
    BY <1>1, <2>1, <2>2
<1>7. Ahead(u, api, edits)
  <2>1. SUFFICES ASSUME NEW i \in 1..Len(u), Plain(u[i])
                 PROVE  /\ u[i].obj.uid <= edits
                        /\ api[u[i].name] # NoObj => u[i].obj.uid <= api[u[i].name].uid
                        /\ api[u[i].name] # NoObj /\ u[i].type = "delete" => u[i].obj.uid # api[u[i].name].uid
    BY DEF Ahead
  <2>2. CASE i \in 1..Len(t) /\ u[i] = t[i]
    BY <1>3, <2>1, <2>2 DEF Ahead
  <2>3. CASE /\ u[i].name \in Name /\ api[u[i].name] # NoObj
             /\ u[i].obj = api[u[i].name] /\ u[i].type = "update"
    BY <1>3, <1>4, <2>3 DEF Bounded
  <2>4. QED
    BY <1>6, <2>1, <2>2, <2>3
<1>8. Behind(u, cache)
  <2>1. SUFFICES ASSUME NEW i \in 1..Len(u), Plain(u[i]), cache[u[i].name] # NoObj
                 PROVE  cache[u[i].name].uid <= u[i].obj.uid
    BY DEF Behind
  <2>2. QED
    BY <1>3, <1>6, <2>1 DEF Behind, Bounded
<1>9. Ordered(u)
  <2>1. SUFFICES ASSUME NEW i \in 1..Len(u), NEW j \in 1..Len(u), i < j, u[i].name = u[j].name,
                        Plain(u[i]), Plain(u[j])
                 PROVE  u[i].obj.uid <= u[j].obj.uid
    BY DEF Ordered
  <2>2. CASE j \in 1..Len(s) /\ j \in 1..Len(t) /\ u[j] = t[j]
    <3>1. i \in 1..Len(s)
      BY <1>1, <2>1, <2>2
    <3>2. i \in 1..Len(t) /\ u[i] = t[i]
      BY <1>1, <1>6, <2>1, <3>1, SMTT(40)
    <3>3. QED
      BY <1>3, <2>1, <2>2, <3>2 DEF Ordered
  <2>3. CASE u[j].name \in Name /\ api[u[j].name] # NoObj /\ u[j].obj = api[u[j].name]
    BY <1>7, <2>1, <2>3 DEF Ahead
  <2>4. QED
    BY <1>6, <2>1, <2>2, <2>3
<1>10. QED
  BY <1>3, <1>7, <1>8, <1>9 DEF Linear, u

\* The object n is written or deleted: an object has one uid from its creation to
\* its deletion.
LEMMA LinearChanged ==
    ASSUME NEW t \in Seq(Note), NEW c \in [Name -> Object \cup {NoObj}], NEW a \in [Name -> Object \cup {NoObj}],
           NEW k \in Nat, Linear(t, c, a, k),
           NEW n \in Name, NEW x \in Note, x.name = n, Plain(x),
           a[n] = NoObj => x.obj.uid = k + 1,
           a[n] # NoObj => x.obj.uid = a[n].uid,
           NEW o, o = NoObj \/ (o \in Object /\ o.uid = x.obj.uid /\ x.type = "update")
    PROVE  /\ Linear(t, c, [a EXCEPT ![n] = o], k + 1)
           /\ Linear(Append(t, x), c, [a EXCEPT ![n] = o], k + 1)
<1> DEFINE b == [a EXCEPT ![n] = o]
           u == Append(t, x)
<1>0. (\A m \in Name \ {n} : b[m] = a[m]) /\ b[n] = o
  OBVIOUS
<1>1. Ordered(t) /\ Behind(t, c) /\ Ahead(t, a, k) /\ Bounded(c, a, k)
  BY DEF Linear
<1>2. \A m \in Name : (a[m] # NoObj => a[m].uid \in Nat) /\ (c[m] # NoObj => c[m].uid \in Nat)
  BY Uids
<1>3. \A i \in 1..Len(t) : t[i] \in Note /\ t[i].name \in Name /\ t[i].obj.uid \in Nat
  BY ElementOfSeq, NoteFields, Uids
<1>4. x.obj.uid \in Nat /\ Len(t) \in Nat
  BY NoteFields, Uids, LenProperties
<1>5. /\ Len(u) = Len(t) + 1 /\ u[Len(t) + 1] = x
      /\ \A i \in 1..Len(t) : u[i] = t[i]
  BY AppendProperties
<1> HIDE DEF b, u
<1>6. ASSUME NEW i \in 1..Len(t), Plain(t[i])
      PROVE  /\ t[i].obj.uid <= k + 1
             /\ t[i].name = n => t[i].obj.uid <= x.obj.uid
             /\ b[t[i].name] # NoObj => t[i].obj.uid <= b[t[i].name].uid
             /\ b[t[i].name] # NoObj /\ t[i].type = "delete" => t[i].obj.uid # b[t[i].name].uid
  <2>1. /\ t[i].obj.uid <= k /\ (a[t[i].name] # NoObj => t[i].obj.uid <= a[t[i].name].uid)
        /\ a[t[i].name] # NoObj /\ t[i].type = "delete" => t[i].obj.uid # a[t[i].name].uid
    BY <1>1, <1>6, Zenon DEF Ahead
  <2>2. t[i].name \in Name /\ t[i].obj.uid \in Nat
    BY <1>3, Zenon
  <2>3. CASE t[i].name # n
    BY <1>0, <2>1, <2>2, <2>3, SMTT(40)
  <2>4. CASE t[i].name = n /\ a[n] = NoObj
    BY <1>0, <2>1, <2>2, <2>4
  <2>5. CASE t[i].name = n /\ a[n] # NoObj
    <3>1. t[i].obj.uid <= x.obj.uid /\ t[i].obj.uid <= k + 1
      BY <2>1, <2>2, <2>5
    <3>2. b[n] # NoObj => b[n].uid = a[n].uid
      BY <1>0, <2>5
    <3>3. QED
      BY <2>1, <2>5, <3>1, <3>2
  <2>6. QED
    BY <2>3, <2>4, <2>5, Zenon
<1>7. /\ x.obj.uid <= k + 1
      /\ b[n] # NoObj => x.obj.uid <= b[n].uid /\ x.type = "update"
  BY <1>0, <1>1, <1>2, <1>4 DEF Bounded
<1>8. c[n] # NoObj => c[n].uid <= x.obj.uid
  BY <1>1, <1>2 DEF Bounded
<1>9. Bounded(c, b, k + 1)
  <2>1. SUFFICES ASSUME NEW m \in Name
                 PROVE  /\ c[m] # NoObj => c[m].uid <= k + 1
                        /\ b[m] # NoObj => b[m].uid <= k + 1
                        /\ b[m] # NoObj /\ c[m] # NoObj => c[m].uid <= b[m].uid
    BY DEF Bounded
  <2>2. /\ c[m] # NoObj => c[m].uid <= k + 1
        /\ a[m] # NoObj => a[m].uid <= k + 1
        /\ a[m] # NoObj /\ c[m] # NoObj => c[m].uid <= a[m].uid
    BY <1>1, <1>2 DEF Bounded
  <2>3. CASE m # n
    BY <1>0, <2>2, <2>3
  <2>4. CASE m = n
    <3>1. b[n] # NoObj => b[n].uid = x.obj.uid
      BY <1>0
    <3>2. QED
      BY <1>7, <1>8, <2>2, <2>4, <3>1
  <2>5. QED
    BY <2>3, <2>4
<1>10. Ahead(t, b, k + 1)
  BY <1>6 DEF Ahead
<1>11. \A i \in 1..Len(u) : (i \in 1..Len(t) /\ u[i] = t[i]) \/ (i = Len(t) + 1 /\ u[i] = x)
  BY <1>4, <1>5
<1>12. Ahead(u, b, k + 1)
  <2>1. SUFFICES ASSUME NEW i \in 1..Len(u), Plain(u[i])
                 PROVE  /\ u[i].obj.uid <= k + 1
                        /\ b[u[i].name] # NoObj => u[i].obj.uid <= b[u[i].name].uid
                        /\ b[u[i].name] # NoObj /\ u[i].type = "delete" => u[i].obj.uid # b[u[i].name].uid
    BY Zenon DEF Ahead
  <2>2. CASE i \in 1..Len(t) /\ u[i] = t[i]
    BY <1>6, <2>1, <2>2
  <2>3. CASE u[i] = x
    BY <1>7, <2>3
  <2>4. QED
    BY <1>11, <2>2, <2>3, Zenon
<1>13. Behind(u, c)
  <2>1. SUFFICES ASSUME NEW i \in 1..Len(u), Plain(u[i]), c[u[i].name] # NoObj
                 PROVE  c[u[i].name].uid <= u[i].obj.uid
    BY DEF Behind
  <2>2. QED
    BY <1>1, <1>8, <1>11, <2>1, Zenon DEF Behind
<1>14. Ordered(u)
  <2>1. SUFFICES ASSUME NEW i \in 1..Len(u), NEW j \in 1..Len(u), i < j, u[i].name = u[j].name,
                        Plain(u[i]), Plain(u[j])
                 PROVE  u[i].obj.uid <= u[j].obj.uid
    BY DEF Ordered
  <2>2. i \in 1..Len(t) /\ u[i] = t[i]
    BY <1>4, <1>5, <1>11, <2>1
  <2>3. CASE j \in 1..Len(t) /\ u[j] = t[j]
    BY <1>1, <2>1, <2>2, <2>3 DEF Ordered
  <2>4. CASE u[j] = x
    BY <1>6, <2>1, <2>2, <2>4
  <2>5. QED
    BY <1>11, <2>3, <2>4
<1>15. QED
  BY <1>1, <1>9, <1>10, <1>12, <1>13, <1>14 DEF Linear, b, u

LEMMA ConcatAppend ==
    ASSUME NEW s \in Seq(Note), NEW t \in Seq(Note), NEW x \in Note
    PROVE  s \o Append(t, x) = Append(s \o t, x)
<1>1. <<x>> \in Seq(Note) /\ s \o t \in Seq(Note)
  BY ConcatProperties
<1>2. Append(t, x) = t \o <<x>> /\ Append(s \o t, x) = (s \o t) \o <<x>>
  BY <1>1, AppendIsConcat
<1>3. QED
  BY <1>1, <1>2, ConcatAssociative

\* The object o that a change of n leaves, and the event x that it sends.
Leaves(n, o, x) ==
    /\ Change(n, o, x) /\ x.name = n /\ Plain(x)
    /\ api[n] = NoObj => x.obj.uid = edits + 1
    /\ api[n] # NoObj => x.obj.uid = api[n].uid
    /\ o = NoObj \/ (o \in Object /\ o.uid = x.obj.uid /\ x.type = "update")
    /\ (x.type = "delete" /\ promised' = promised \ {n}) \/ (x.type = "update" /\ promised' = promised)

LEMMA ChangeShape ==
    ASSUME Shape, NEW n \in Edited, Deleted(n) \/ \E valid \in BOOLEAN : Written(n, valid)
    PROVE  \E o : \E x \in Note : Leaves(n, o, x)
<1>0. n \in Name /\ edits \in Nat /\ api[n] \in Object \cup {NoObj}
  BY BoundAssumption DEF Shape
<1>1. CASE Deleted(n)
  <2> DEFINE x == NoteOf("delete", n, api[n])
  <2>1. api[n] # NoObj /\ Change(n, NoObj, x) /\ promised' = promised \ {n}
    BY <1>1 DEF Deleted
  <2>2. x \in Note /\ x.name = n /\ Plain(x) /\ x.obj = api[n] /\ x.type = "delete"
    BY <1>0, <2>1 DEF NoteOf, Note, Plain
  <2> HIDE DEF x
  <2>3. Leaves(n, NoObj, x)
    BY <2>1, <2>2 DEF Leaves
  <2>4. QED
    BY <2>2, <2>3
<1>2. ASSUME NEW valid \in BOOLEAN, Written(n, valid)
      PROVE  \E o : \E x \in Note : Leaves(n, o, x)
  <2> DEFINE o == IF api[n] = NoObj THEN [gen |-> 1, valid |-> valid, version |-> edits + 1, uid |-> edits + 1]
                  ELSE [api[n] EXCEPT !.gen = api[n].gen + 1, !.valid = valid, !.version = edits + 1]
             x == NoteOf("update", n, o)
  <2>1. Change(n, o, x) /\ promised' = promised
    BY <1>2, Zenon DEF Written
  <2>2. CASE api[n] = NoObj
    <3>1. o = [gen |-> 1, valid |-> valid, version |-> edits + 1, uid |-> edits + 1]
      BY <2>2
    <3> HIDE DEF o
    <3>2. o \in Object /\ o.uid = edits + 1
      BY <1>0, <3>1 DEF Object
    <3>3. x \in Note /\ x.name = n /\ Plain(x) /\ x.obj = o /\ x.type = "update"
      BY <1>0, <3>2 DEF NoteOf, Note, Plain
    <3> HIDE DEF x
    <3>4. Leaves(n, o, x)
      BY <2>1, <2>2, <3>2, <3>3 DEF Leaves
    <3>5. QED
      BY <3>3, <3>4
  <2>3. CASE api[n] # NoObj
    <3>1. o = [api[n] EXCEPT !.gen = api[n].gen + 1, !.valid = valid, !.version = edits + 1]
      BY <2>3
    <3> HIDE DEF o
    <3>2. api[n] \in Object
      BY <1>0, <2>3
    <3>3. o \in Object /\ o.uid = api[n].uid
      <4> DEFINE q == api[n]
                 g == api[n].gen + 1
                 k == edits + 1
      <4>1. q \in Object /\ g \in Nat /\ k \in Nat /\ valid \in BOOLEAN
        BY <1>0, <3>2, Uids
      <4>2. o = [q EXCEPT !.gen = g, !.valid = valid, !.version = k]
        BY <3>1
      <4> HIDE DEF q, g, k
      <4>3. o \in Object /\ o.uid = q.uid
        BY <4>1, <4>2, Zenon DEF Object
      <4>4. QED
        BY <4>3 DEF q
    <3>4. x \in Note /\ x.name = n /\ Plain(x) /\ x.obj = o /\ x.type = "update"
      BY <1>0, <3>3 DEF NoteOf, Note, Plain
    <3> HIDE DEF x
    <3>5. Leaves(n, o, x)
      BY <2>1, <2>3, <3>3, <3>4 DEF Leaves
    <3>6. QED
      BY <3>4, <3>5
  <2>4. QED
    BY <2>2, <2>3
<1>3. QED
  BY <1>1, <1>2

LEMMA ChangeTrail ==
    ASSUME Shape, NEW n \in Edited, NEW o, NEW x \in Note, Leaves(n, o, x)
    PROVE  /\ api' = [api EXCEPT ![n] = o] /\ edits' = edits + 1
           /\ UNCHANGED <<watch, store, notes, initial, cache, start, missing>>
           /\ watch \in {"open", "broken"} => events' = Append(events, x) /\ Trail' = Append(Trail, x)
           /\ watch \notin {"open", "broken"} => events' = events /\ Trail' = Trail
<1>1. /\ api' = [api EXCEPT ![n] = o] /\ edits' = edits + 1
      /\ UNCHANGED <<watch, store, notes, initial, cache, start, missing>>
      /\ watch \in {"open", "broken"} => events' = Append(events, x)
      /\ watch \notin {"open", "broken"} => events' = events
  BY Zenon DEF Leaves, Change
<1>2. notes \in Seq(Note) /\ events \in Seq(Note)
  BY DEF Shape
<1>3. notes \o Append(events, x) = Append(notes \o events, x)
  BY <1>2, ConcatAppend
<1>4. QED
  BY <1>1, <1>3, Zenon DEF Trail

\* Lists come in without changes that are not delivered, or drop them.
LEMMA ListTrail ==
    ASSUME Shape, NEW l, Reports(l), NEW s \in Seq(Note), notes' = s \o l, events' = <<>>
    PROVE  /\ notes' \in Seq(Note) /\ Trail' = s \o l
           /\ Len(s) \in Nat /\ Len(l) \in Nat /\ Len(notes') = Len(s) + Len(l)
<1>1. l \in Seq(Note)
  BY DEF Reports
<1>2. s \o l \in Seq(Note) /\ Len(s \o l) = Len(s) + Len(l) /\ Len(s) \in Nat /\ Len(l) \in Nat
  BY <1>1, ConcatProperties, LenProperties
<1>3. (s \o l) \o <<>> = s \o l
  BY <1>2, ConcatEmptySeq
<1>4. QED
  BY <1>2, <1>3, Zenon DEF Trail

\* Before the first list there is nothing to hand over, and the operator starts
\* with the CRD only after the handlers have seen that list.
Starting ==
    /\ watch \in {"off", "list"} => promised = {} /\ events = <<>> /\ notes = <<>>
    /\ start = "init" => watch = "off"
    /\ start = "started" /\ ~missing => watch \in {"open", "broken"} /\ initial = 0

Loads(x, n) == x.type = "update" /\ x.name = n /\ x.obj.valid

\* A budget of the first list is in the cache or among the notifications of that
\* list, and its deletion is not on its way.
Loading ==
    /\ \A n \in promised : cache[n] # NoObj \/ \E i \in 1..initial : Loads(Trail[i], n)
    /\ \A i \in 1..Len(Trail) : Trail[i].type = "delete" => Trail[i].name \notin promised

CacheInv == Shape /\ Starting /\ Loading /\ Linear(Trail, cache, api, edits)

LEMMA CacheInit == Init => CacheInv
<1> SUFFICES ASSUME Init PROVE CacheInv
  OBVIOUS
<1>1. PICK N \in SUBSET Name, valid \in BOOLEAN :
         api = [n \in Name |-> IF n \in N THEN [gen |-> 1, valid |-> valid \/ n \notin Edited,
                                               version |-> 0, uid |-> 0] ELSE NoObj]
  BY Zenon DEF Init
<1>2. \A n \in Name : api[n] = NoObj \/ (api[n] \in Object /\ api[n].uid = 0)
  <2>1. SUFFICES ASSUME NEW n \in Name PROVE api[n] = NoObj \/ (api[n] \in Object /\ api[n].uid = 0)
    OBVIOUS
  <2> DEFINE v == valid \/ n \notin Edited
  <2>2. v \in BOOLEAN
    OBVIOUS
  <2>3. api[n] = NoObj \/ api[n] = [gen |-> 1, valid |-> v, version |-> 0, uid |-> 0]
    BY <1>1, Zenon
  <2> HIDE DEF v
  <2>4. QED
    BY <2>2, <2>3 DEF Object
<1>3. DOMAIN api = Name /\ api = [n \in Name |-> api[n]]
  BY <1>1, Zenon
<1>4. api \in [Name -> Object \cup {NoObj}]
  BY <1>2, <1>3
<1>5. /\ watch = "off" /\ events = <<>> /\ store = [n \in Name |-> NoObj] /\ cache = [n \in Name |-> NoObj]
      /\ notes = <<>> /\ initial = 0 /\ start = "init" /\ missing = FALSE /\ promised = {} /\ edits = 0
  BY Zenon DEF Init
<1>6. <<>> \in Seq(Note) /\ Len(<<>>) = 0
  BY EmptySeq
<1>7. Shape
  BY <1>4, <1>5, <1>6 DEF Shape
<1>8. Len(Trail) = 0
  BY <1>5, <1>6, <1>7, TrailType
<1>9. Starting /\ Loading
  BY <1>5, <1>8 DEF Starting, Loading
<1>10. Linear(Trail, cache, api, edits)
  BY <1>2, <1>5, <1>8 DEF Linear, Ordered, Behind, Ahead, Bounded
<1>11. QED
  BY <1>7, <1>9, <1>10 DEF CacheInv

LEMMA HandleInv ==
    ASSUME CacheInv, Handle
    PROVE  CacheInv'
<1> DEFINE x == Head(notes)
<1>0. /\ Shape /\ Starting /\ Loading /\ initial \in 0..Len(notes) /\ Len(notes) \in Nat
      /\ UNCHANGED <<api, store, events, edits, promised, watch, start, missing>> /\ notes # <<>>
      /\ initial' = IF initial > 0 THEN initial - 1 ELSE 0
  BY TrailType DEF CacheInv, Shape, Handle, apiVars, informerVars
<1>1. /\ x = Trail[1] /\ x \in Note /\ Len(Trail) > 0 /\ Len(Trail') = Len(Trail) - 1
      /\ \A i \in 1..Len(Trail) - 1 : Trail'[i] = Trail[i + 1]
      /\ notes' \in Seq(Note) /\ Len(notes') = Len(notes) - 1
  BY <1>0, TrailHandled
<1>2. Len(Trail) \in Nat /\ Len(notes) <= Len(Trail) /\ Len(notes) # 0
  BY <1>0, TrailType, EmptySeq DEF Shape
<1>3. /\ cache' \in [Name -> Object \cup {NoObj}]
      /\ \A n \in Name \ {x.name} : cache'[n] = cache[n]
      /\ \/ cache'[x.name] = cache[x.name] /\ (x.type = "update" /\ x.obj.valid => cache[x.name] # NoObj)
         \/ cache'[x.name] = x.obj /\ x.type = "update"
         \/ cache'[x.name] = NoObj /\ x.type = "delete"
  BY <1>0, HandleCache, Zenon
<1>4. x.name \in Name /\ x.obj # NoObj
  BY <1>1, NoteFields
<1> HIDE DEF x
<1>5. initial' \in 0..Len(notes') /\ (initial = 0 => initial' = 0)
  BY <1>0, <1>1, <1>2, SMTT(40)
<1>6. Shape'
  BY <1>0, <1>1, <1>3, <1>5 DEF Shape
<1>7. Starting'
  BY <1>0, <1>5 DEF Starting
<1>8. ASSUME NEW n \in promised PROVE cache'[n] # NoObj \/ \E i \in 1..initial' : Loads(Trail'[i], n)
  <2>0. n \in Name
    BY <1>0 DEF Shape
  <2>1. ~(x.type = "delete" /\ x.name = n)
    BY <1>0, <1>1, <1>2 DEF Loading
  <2>2. CASE cache[n] # NoObj
    BY <1>3, <1>4, <2>0, <2>1, <2>2
  <2>3. CASE Loads(x, n)
    BY <1>3, <1>4, <2>3 DEF Loads
  <2>4. ASSUME NEW i \in 1..initial, i # 1, Loads(Trail[i], n)
        PROVE  \E j \in 1..initial' : Loads(Trail'[j], n)
    <3>1. i - 1 \in 1..initial' /\ i - 1 \in 1..Len(Trail) - 1 /\ (i - 1) + 1 = i
      BY <1>0, <1>2, <2>4
    <3>2. Trail'[i - 1] = Trail[i]
      BY <1>1, <3>1
    <3>3. QED
      BY <2>4, <3>1, <3>2
  <2>5. QED
    BY <1>0, <1>1, <2>2, <2>3, <2>4, Zenon DEF Loading
<1>9. ASSUME NEW i \in 1..Len(Trail'), Trail'[i].type = "delete" PROVE Trail'[i].name \notin promised
  <2>1. i \in 1..Len(Trail) - 1 /\ i + 1 \in 1..Len(Trail)
    BY <1>1, <1>2
  <2>2. QED
    BY <1>0, <1>1, <1>9, <2>1, Zenon DEF Loading
<1>10. Loading'
  BY <1>0, <1>8, <1>9 DEF Loading
<1>11. Linear(Trail', cache', api', edits')
  <2>1. Linear(Trail', cache', api, edits)
    BY <1>0, LinearHandled DEF CacheInv
  <2>2. QED
    BY <1>0, <2>1
<1>12. QED
  BY <1>6, <1>7, <1>10, <1>11 DEF CacheInv

\* The watch cannot be resumed, and the objects are listed anew.
Relist ==
    /\ watch = "broken" /\ watch' = "open"
    /\ store' = api /\ events' = <<>> /\ notes' = notes \o Listed
    /\ UNCHANGED <<apiVars, initial, cache, start, missing, promised>>

LEMMA ListInv ==
    ASSUME CacheInv, FirstList \/ Relist
    PROVE  CacheInv'
<1> DEFINE l == Listed
<1>0. Shape /\ Starting /\ Loading /\ Linear(Trail, cache, api, edits) /\ notes \in Seq(Note)
  BY DEF CacheInv, Shape
<1>1. Reports(l)
  BY <1>0, ListedReports
<1>2. FirstList => notes = <<>> /\ events = <<>> /\ promised = {}
  BY <1>0 DEF FirstList, Starting
<1>3. <<>> \o l = l
  BY <1>1, ConcatEmptySeq DEF Reports
<1> HIDE DEF l
<1>4. /\ notes' = notes \o l /\ events' = <<>> /\ store' = api
      /\ UNCHANGED <<api, edits, cache, start, missing>> /\ watch' \in {"open", "broken"} /\ watch # "off"
      /\ \/ /\ initial' = Len(l) /\ notes = <<>> /\ promised' = {n \in Existing : api[n].valid} /\ watch = "list"
         \/ initial' = initial /\ promised' = promised /\ watch = "broken"
  BY <1>2, <1>3, Zenon DEF FirstList, Relist, apiVars, l
<1>5. /\ notes' \in Seq(Note) /\ Trail' = notes \o l
      /\ Len(notes) \in Nat /\ Len(l) \in Nat /\ Len(notes') = Len(notes) + Len(l)
  BY <1>0, <1>1, <1>4, ListTrail, Zenon
<1>6. Len(<<>>) = 0 /\ <<>> \in Seq(Note)
  BY EmptySeq
<1>7. initial' \in 0..Len(notes')
  BY <1>0, <1>4, <1>5, <1>6 DEF Shape
<1>8. promised' \subseteq Name
  BY <1>0, <1>4 DEF Shape, Existing
<1>9. Shape'
  BY <1>0, <1>4, <1>5, <1>6, <1>7, <1>8 DEF Shape
<1>10. Starting'
  BY <1>0, <1>4 DEF Starting
<1>11. Linear(Trail', cache', api', edits')
  <2>1. Linear(notes \o l, cache, api, edits)
    BY <1>0, <1>1, LinearListed
  <2>2. QED
    BY <1>4, <1>5, <2>1
<1>12. /\ Len(notes \o l) = Len(notes) + Len(l)
       /\ \A i \in 1..Len(notes) + Len(l) : (notes \o l)[i] = IF i <= Len(notes) THEN notes[i] ELSE l[i - Len(notes)]
  BY <1>0, <1>1, ConcatProperties DEF Reports
<1>13. /\ \A i \in 1..Len(notes) : i \in 1..Len(Trail) /\ Trail[i] = notes[i]
  <2>1. Len(Trail) \in Nat /\ Len(notes) \in Nat /\ Len(notes) <= Len(Trail)
    BY <1>0, NotesFirst
  <2>2. \A i \in 1..Len(notes) : Trail[i] = notes[i]
    BY <1>0, TrailType
  <2>3. QED
    BY <2>1, <2>2
<1>14. DOMAIN l = 1..Len(l) /\ \A i \in 1..Len(l) : l[i].type # "delete"
  BY <1>1, LenProperties DEF Reports, NoteOf
<1>15. ASSUME NEW i \in 1..Len(Trail'), Trail'[i].type = "delete" PROVE Trail'[i].name \notin promised'
  <2>1. i \in 1..Len(notes)
    <3>1. CASE i > Len(notes)
      <4>1. i - Len(notes) \in 1..Len(l) /\ Trail'[i] = l[i - Len(notes)]
        BY <1>5, <1>12, <3>1
      <4>2. QED
        BY <1>14, <1>15, <4>1
    <3>2. QED
      BY <1>5, <1>12, <3>1
  <2>2. Trail'[i] = Trail[i] /\ i \in 1..Len(Trail)
    BY <1>5, <1>12, <1>13, <2>1
  <2>3. promised' = promised
    BY <1>4, <1>6, <2>1
  <2>4. QED
    BY <1>0, <1>15, <2>2, <2>3 DEF Loading
<1>16. ASSUME NEW n \in promised' PROVE cache'[n] # NoObj \/ \E i \in 1..initial' : Loads(Trail'[i], n)
  <2>1. CASE initial' = Len(l) /\ notes = <<>> /\ promised' = {m \in Existing : api[m].valid}
    <3>1. n \in Existing /\ api[n].valid
      BY <1>16, <2>1
    <3>2. PICK i \in DOMAIN l : l[i] = NoteOf("update", n, api[n])
      BY <1>1, <3>1 DEF Reports
    <3>3. i \in 1..initial' /\ Trail' = l
      BY <1>3, <1>5, <1>14, <2>1, Zenon DEF l
    <3>4. Loads(l[i], n)
      BY <3>1, <3>2 DEF Loads, NoteOf
    <3>5. QED
      BY <3>3, <3>4
  <2>2. CASE initial' = initial /\ promised' = promised
    <3>1. CASE cache[n] # NoObj
      BY <1>4, <3>1
    <3>2. ASSUME NEW i \in 1..initial, Loads(Trail[i], n) PROVE \E j \in 1..initial' : Loads(Trail'[j], n)
      <4>1. i \in 1..Len(notes)
        BY <1>0, <1>5 DEF Shape
      <4>2. Trail'[i] = Trail[i]
        BY <1>5, <1>12, <1>13, <4>1
      <4>3. QED
        BY <2>2, <3>2, <4>2
    <3>3. QED
      BY <1>0, <1>16, <2>2, <3>1, <3>2, Zenon DEF Loading
  <2>3. QED
    BY <1>4, <2>1, <2>2
<1>17. Loading'
  BY <1>15, <1>16 DEF Loading
<1>18. QED
  BY <1>9, <1>10, <1>11, <1>17 DEF CacheInv

LEMMA WatchEventInv ==
    ASSUME CacheInv, WatchEvent
    PROVE  CacheInv'
<1> DEFINE e == Head(events)
           u == Tail(events)
<1>0. /\ Shape /\ Starting /\ Loading /\ Linear(Trail, cache, api, edits)
      /\ notes \in Seq(Note) /\ events \in Seq(Note) /\ initial \in 0..Len(notes)
      /\ store \in [Name -> Object \cup {NoObj}]
  BY DEF CacheInv, Shape
<1>1. /\ watch = "open" /\ events # <<>> /\ notes' = Append(notes, e) /\ events' = u
      /\ store' = [store EXCEPT ![e.name] = IF e.type = "delete" THEN NoObj ELSE e.obj]
      /\ UNCHANGED <<api, edits, watch, initial, cache, start, missing, promised>>
  BY DEF WatchEvent, apiVars
<1>2. e \in Note /\ u \in Seq(Note)
  BY <1>0, <1>1, HeadTailProperties
<1>3. Append(notes, e) \o u = notes \o events
  BY <1>0, <1>1, TrailDelivers, Zenon
<1> HIDE DEF e, u
<1>4. Trail' = Trail
  BY <1>1, <1>3 DEF Trail
<1>5. Append(notes, e) \in Seq(Note) /\ Len(Append(notes, e)) = Len(notes) + 1 /\ Len(notes) \in Nat
  BY <1>0, <1>2, AppendProperties, LenProperties
<1>6. notes' \in Seq(Note) /\ events' \in Seq(Note) /\ initial' \in 0..Len(notes')
  BY <1>0, <1>1, <1>2, <1>5
<1>7. store' \in [Name -> Object \cup {NoObj}]
  BY <1>0, <1>1, <1>2, NoteFields
<1>8. Shape'
  BY <1>0, <1>1, <1>6, <1>7 DEF Shape
<1>9. Starting' /\ Loading' /\ Linear(Trail', cache', api', edits')
  BY <1>0, <1>1, <1>4, Zenon DEF Starting, Loading
<1>10. QED
  BY <1>8, <1>9 DEF CacheInv

LEMMA ChangeInv ==
    ASSUME CacheInv, NEW n \in Edited, NEW o, NEW x \in Note, Leaves(n, o, x)
    PROVE  CacheInv'
<1>0. /\ Shape /\ Starting /\ Loading /\ Linear(Trail, cache, api, edits) /\ n \in Name
      /\ api \in [Name -> Object \cup {NoObj}] /\ cache \in [Name -> Object \cup {NoObj}] /\ edits \in Nat
      /\ events \in Seq(Note) /\ promised \subseteq Name /\ initial \in 0..Len(notes)
  BY BoundAssumption DEF CacheInv, Shape
<1>1. /\ api' = [api EXCEPT ![n] = o] /\ edits' = edits + 1
      /\ UNCHANGED <<watch, store, notes, initial, cache, start, missing>>
      /\ watch \in {"open", "broken"} => events' = Append(events, x) /\ Trail' = Append(Trail, x)
      /\ watch \notin {"open", "broken"} => events' = events /\ Trail' = Trail
  BY <1>0, ChangeTrail
<1>2. /\ x.name = n /\ Plain(x) /\ (o = NoObj \/ (o \in Object /\ o.uid = x.obj.uid /\ x.type = "update"))
      /\ (api[n] = NoObj => x.obj.uid = edits + 1) /\ (api[n] # NoObj => x.obj.uid = api[n].uid)
      /\ (x.type = "delete" /\ promised' = promised \ {n}) \/ (x.type = "update" /\ promised' = promised)
  BY Zenon DEF Leaves
<1>3. Trail \in Seq(Note) /\ Len(Trail) \in Nat /\ Len(notes) \in Nat /\ Len(notes) <= Len(Trail)
  BY <1>0, NotesFirst
<1> DEFINE t == Trail
           u == Append(Trail, x)
<1>4. u \in Seq(Note) /\ Len(u) = Len(t) + 1 /\ u[Len(t) + 1] = x /\ \A i \in 1..Len(t) : u[i] = t[i]
  BY <1>3, AppendProperties
<1>5. Append(events, x) \in Seq(Note)
  BY <1>0, AppendProperties, Zenon
<1>6. Shape'
  <2>1. api' \in [Name -> Object \cup {NoObj}]
    BY <1>0, <1>1, <1>2, Zenon
  <2>2. events' \in Seq(Note)
    BY <1>0, <1>1, <1>5, Zenon
  <2>3. promised' \subseteq Name /\ edits' \in Nat
    BY <1>0, <1>1, <1>2, SMTT(40)
  <2>4. QED
    BY <1>0, <1>1, <2>1, <2>2, <2>3 DEF Shape
<1>7. Starting'
  BY <1>0, <1>1, <1>2, Zenon DEF Starting
<1>8. Linear(t, cache, [api EXCEPT ![n] = o], edits + 1) /\ Linear(u, cache, [api EXCEPT ![n] = o], edits + 1)
  BY <1>0, <1>2, <1>3, LinearChanged, Zenon
<1> HIDE DEF t, u
<1>9. Trail = t /\ (Trail' = t \/ Trail' = u)
  BY <1>1 DEF t, u
<1>10. Linear(Trail', cache', api', edits')
  BY <1>1, <1>8, <1>9
<1>11. promised' \subseteq promised /\ (x.type = "delete" => n \notin promised')
  BY <1>2, Zenon
<1>12. \A i \in 1..Len(t) : Trail'[i] = t[i]
  BY <1>4, <1>9
<1>13. ASSUME NEW m \in promised' PROVE cache'[m] # NoObj \/ \E i \in 1..initial' : Loads(Trail'[i], m)
  <2>1. cache[m] # NoObj \/ \E i \in 1..initial : Loads(t[i], m)
    BY <1>0, <1>9, <1>11, Zenon DEF Loading
  <2>2. \A i \in 1..initial : Trail'[i] = t[i]
    BY <1>0, <1>3, <1>9, <1>12
  <2>3. QED
    BY <1>1, <2>1, <2>2
<1>14. ASSUME NEW i \in 1..Len(Trail'), Trail'[i].type = "delete" PROVE Trail'[i].name \notin promised'
  <2>1. (i \in 1..Len(t) /\ Trail'[i] = t[i]) \/ Trail'[i] = x
    BY <1>3, <1>4, <1>9
  <2>2. QED
    BY <1>0, <1>2, <1>9, <1>11, <1>14, <2>1, Zenon DEF Loading
<1>15. Loading'
  BY <1>13, <1>14, Zenon DEF Loading
<1>16. QED
  BY <1>6, <1>7, <1>10, <1>15 DEF CacheInv

LEMMA CacheStep ==
    ASSUME CacheInv, [Next]_vars
    PROVE  CacheInv'
<1>0. Shape /\ Starting /\ Loading /\ Linear(Trail, cache, api, edits)
  BY DEF CacheInv
<1>1. ASSUME UNCHANGED <<api, edits, events, store, notes, initial, cache, promised>>, Starting' PROVE CacheInv'
  <2>1. Trail' = Trail
    BY <1>1 DEF Trail
  <2>2. Shape' /\ Loading'
    BY <1>0, <1>1, <2>1 DEF Shape, Loading
  <2>3. Linear(Trail', cache', api', edits')
    BY <1>0, <1>1, <2>1
  <2>4. QED
    BY <1>1, <2>2, <2>3 DEF CacheInv
<1>2. CASE startCaches
  <2>1. UNCHANGED <<api, edits, events, store, notes, initial, cache, promised>>
    BY <1>2 DEF startCaches, apiVars
  <2>2. watch = "off" /\ watch' = "list" /\ (start' = "started" => missing') /\ start' # "init"
    BY <1>0, <1>2 DEF startCaches, Starting
  <2>3. QED
    BY <1>0, <1>1, <2>1, <2>2 DEF Starting
<1>3. CASE waitForCacheSync
  BY <1>0, <1>1, <1>3 DEF waitForCacheSync, HasSynced, Starting, apiVars, informerVars
<1>4. CASE Observer \/ ListFails \/ SendSignal \/ InstallCRD \/ UNCHANGED vars
  <2>1. UNCHANGED <<api, edits, watch, events, store, notes, initial, cache, start, missing, promised>>
    BY <1>4, Zenon DEF Observer, Wake, Probe, SetGauge, ListFails, SendSignal, InstallCRD, vars, apiVars, informerVars
  <2>2. QED
    BY <1>0, <1>1, <2>1 DEF Starting
<1>5. CASE WatchFails
  BY <1>0, <1>1, <1>5 DEF WatchFails, Starting, apiVars
<1>6. CASE Handle
  BY <1>6, HandleInv
<1>7. CASE FirstList
  BY <1>7, ListInv
<1>8. CASE WatchEvent
  BY <1>8, WatchEventInv
<1>9. CASE Rewatch
  <2>1. /\ watch = "broken" /\ watch' = "open"
        /\ UNCHANGED <<store, events, notes>> \/ (store' = api /\ events' = <<>> /\ notes' = notes \o Listed)
        /\ UNCHANGED <<apiVars, initial, cache, start, missing, promised>>
    BY <1>9, Zenon DEF Rewatch
  <2>2. CASE UNCHANGED <<store, events, notes>>
    BY <1>0, <1>1, <2>1, <2>2 DEF Starting, apiVars
  <2>3. CASE store' = api /\ events' = <<>> /\ notes' = notes \o Listed
    <3>1. Relist
      BY <2>1, <2>3, Zenon DEF Relist
    <3>2. QED
      BY <3>1, ListInv
  <2>4. QED
    BY <2>1, <2>2, <2>3
<1>10. ASSUME NEW n \in Edited, Deleted(n) \/ \E valid \in BOOLEAN : Written(n, valid) PROVE CacheInv'
  <2>1. PICK o : \E x \in Note : Leaves(n, o, x)
    BY <1>0, <1>10, ChangeShape
  <2>2. PICK x \in Note : Leaves(n, o, x)
    BY <2>1
  <2>3. QED
    BY <2>2, ChangeInv
<1>11. QED
  BY <1>2, <1>3, <1>4, <1>5, <1>6, <1>7, <1>8, <1>9, <1>10 DEF Next, Informer

\* The cache of budgets, the notifications, the undelivered events and the objects
\* hold the successive objects of a name in the order of their creation, and what the
\* first list returned is cached or still to be handled, for any number of budgets,
\* changes, failures and repeated lists, with deletions missed or not.
THEOREM CacheInvariant == Spec => []CacheInv
<1>1. CacheInv /\ [Next]_vars => CacheInv'
  BY CacheStep
<1>2. QED
  BY <1>1, CacheInit, PTL DEF Spec

\* The operator does not start with the CRD in place before every valid budget of the
\* first list is in the configCache, and no later edit takes it out.
THEOREM BudgetsLoaded == Spec => []LoadedBeforeServing
<1>1. CacheInv => LoadedBeforeServing
  BY DEF CacheInv, Starting, Loading, LoadedBeforeServing
<1>2. QED
  BY <1>1, CacheInvariant, PTL

\* A budget leaves the configCache only if its object is gone, even when the informer
\* misses deletions: a notification of a deletion that meets the entry of a newer
\* object of the same name would have to overtake it.
THEOREM BudgetsStayEnforced == Spec => StaysEnforced
<1>1. ASSUME CacheInv, [Next]_vars, NEW n \in Name, cache[n] # NoObj, cache'[n] = NoObj, api[n] # NoObj
      PROVE  api[n].uid # cache[n].uid
  <2>1. Handle
    BY <1>1, Zenon DEF Next, startCaches, waitForCacheSync, Observer, Wake, Probe, SetGauge, Informer, FirstList,
                       ListFails, Rewatch, WatchEvent, SendSignal, WatchFails, Deleted, Written, Change, InstallCRD, vars
  <2> DEFINE x == Head(notes)
  <2>2. Shape /\ Linear(Trail, cache, api, edits) /\ Len(Trail) \in Nat
    BY <1>1, TrailType DEF CacheInv
  <2>3. x = Trail[1] /\ x \in Note /\ Len(Trail) > 0
    BY <2>1, <2>2, TrailHandled
  <2>4. /\ \A m \in Name \ {x.name} : cache'[m] = cache[m]
        /\ cache'[x.name] = cache[x.name] \/ cache'[x.name] = x.obj \/ (cache'[x.name] = NoObj /\ x.type = "delete")
    BY <2>1, <2>2, HandleCache, Zenon
  <2> HIDE DEF x
  <2>5. x.name = n /\ x.type = "delete"
    BY <1>1, <2>3, <2>4, NoteFields
  <2>6. 1 \in 1..Len(Trail) /\ Plain(Trail[1])
    BY <2>2, <2>3, <2>5, SMTT(40) DEF Plain
  <2>7. cache[n].uid <= x.obj.uid /\ x.obj.uid <= api[n].uid /\ x.obj.uid # api[n].uid
    BY <1>1, <2>2, <2>3, <2>5, <2>6, Zenon DEF Linear, Behind, Ahead
  <2>8. cache[n].uid \in Nat /\ x.obj.uid \in Nat /\ api[n].uid \in Nat
    BY <1>1, <2>2, <2>3, NoteFields, Uids DEF Shape
  <2>9. QED
    BY <2>7, <2>8, SMTT(40)
<1>2. CacheInv /\ [Next]_vars =>
        [\A n \in Name : cache[n] # NoObj /\ cache'[n] = NoObj
            => api[n] = NoObj \/ api[n].uid # cache[n].uid]_vars
  BY <1>1
<1>3. QED
  BY <1>2, CacheInvariant, PTL DEF Spec, StaysEnforced
=============================================================================
