----------------------- MODULE PrepareDownscaleProofs -----------------------
(***************************************************************************)
(* The promises of the prepare-downscale webhook, for any sets, groups,    *)
(* minimum times, requests and faults.  That sets of a group downscale     *)
(* apart rests on requests of a group that do not overlap: the times a     *)
(* request has seen are then still the stored ones when it stores its own. *)
(***************************************************************************)
EXTENDS PrepareDownscale, TLAPS

Step == {"load", "create", "check", "prepare", "record", "undo", "allowed", "unchecked"}

-----------------------------------------------------------------------------
(* Stored times.                                                           *)

\* Formatting a time to the second loses less than a second.
LEMMA FormattedBounds ==
    ASSUME NEW t \in Nat
    PROVE  Formatted(t) \in Nat /\ Formatted(t) <= t /\ Formatted(t) > t - Second
<1>1. Second \in Nat /\ Second > 0
  BY SetAssumption
<1>2. PICK q \in Nat : q = t \div Second
  BY <1>1
<1>3. Second * q <= t /\ Second * q > t - Second
  BY <1>1, <1>2
<1>4. Second * q \in Nat
  BY <1>1
<1>5. QED
  BY <1>2, <1>3, <1>4 DEF Formatted

LEMMA FormattedTime ==
    ASSUME NEW t \in Time
    PROVE  Formatted(t) \in Time
BY FormattedBounds, BoundAssumption DEF Time

LEMMA TimesElements ==
    ASSUME NEW t \in Times
    PROVE  DOMAIN t \subseteq Set /\ \A w \in DOMAIN t : t[w] \in Time
<1>1. PICK S \in SUBSET Set : t \in [S -> Time]
  BY DEF Times
<1>2. QED
  BY <1>1

LEMMA TimesIntro ==
    ASSUME NEW S \in SUBSET Set, NEW t \in [S -> Time]
    PROVE  t \in Times
BY DEF Times

LEMMA NoTimesType == NoTimes \in Times /\ DOMAIN NoTimes = {}
<1>1. NoTimes \in [{} -> Time] /\ DOMAIN NoTimes = {}
  BY DEF NoTimes
<1>2. QED
  BY <1>1, TimesIntro

LEMMA WithTimes ==
    ASSUME NEW t \in Times, NEW z \in Set, NEW x \in Time
    PROVE  /\ With(t, z, x) \in Times
           /\ DOMAIN With(t, z, x) = DOMAIN t \cup {z}
           /\ With(t, z, x)[z] = x
           /\ \A w \in DOMAIN t : w # z => With(t, z, x)[w] = t[w]
<1>1. With(t, z, x) \in [DOMAIN t \cup {z} -> Time]
  BY TimesElements DEF With
<1>2. DOMAIN t \cup {z} \in SUBSET Set
  BY TimesElements
<1>3. With(t, z, x) \in Times
  BY <1>1, <1>2, TimesIntro
<1>4. QED
  BY <1>3 DEF With

-----------------------------------------------------------------------------
(* How a step changes its request.                                         *)

LEMMA ActiveRequest ==
    ASSUME TypeOK, NEW r \in Req, Active(r)
    PROVE  /\ req[r] \in Request
           /\ req[r].set \in Set /\ req[r].old \in 0..Replicas /\ req[r].new \in 0..Replicas
           /\ req[r].seen \in Times
BY DEF TypeOK, Active, Idle, Request

LEMMA GotoStep ==
    ASSUME TypeOK, NEW r \in Req, Active(r), NEW pc \in Step, Goto(r, pc)
    PROVE  /\ req' \in [Req -> {Idle} \cup Request]
           /\ req'[r].pc = pc /\ req'[r].set = req[r].set /\ req'[r].seen = req[r].seen
           /\ req'[r].old = req[r].old /\ req'[r].new = req[r].new
           /\ \A s \in Req : s # r => req'[s] = req[s]
<1>1. req[r] \in Request
  BY ActiveRequest
<1>2. req' = [req EXCEPT ![r] = [req[r] EXCEPT !.pc = pc]]
  BY DEF Goto
<1>3. [req[r] EXCEPT !.pc = pc] \in Request
  BY <1>1 DEF Request, Step
<1>4. req'[r] = [req[r] EXCEPT !.pc = pc]
  BY <1>2 DEF TypeOK
<1>5. /\ req'[r].pc = pc /\ req'[r].set = req[r].set /\ req'[r].seen = req[r].seen
      /\ req'[r].old = req[r].old /\ req'[r].new = req[r].new
  BY <1>1, <1>4 DEF Request
<1>6. QED
  BY <1>2, <1>3, <1>5 DEF TypeOK

LEMMA DenyStep ==
    ASSUME TypeOK, NEW r \in Req, Deny(r)
    PROVE  /\ req' \in [Req -> {Idle} \cup Request]
           /\ req'[r] = Idle
           /\ \A s \in Req : s # r => req'[s] = req[s]
BY DEF TypeOK, Deny

-----------------------------------------------------------------------------
(* Types.                                                                  *)

LEMMA EndpointsType ==
    ASSUME TypeOK, NEW r \in Req, Active(r)
    PROVE  createEndpoints(req[r]) \subseteq Pod
BY ActiveRequest, BoundAssumption DEF createEndpoints, Pod

LEMMA FaultType ==
    ASSUME faults \in 0..MaxFaults, Fault \/ UNCHANGED faults
    PROVE  faults' \in 0..MaxFaults
BY BoundAssumption DEF Fault

LEMMA TypeInit == Init => TypeOK
<1>1. ASSUME Init PROVE TypeOK
  <2>1. Replicas \in 0..Replicas /\ 0 \in Time /\ 0 \in 0..MaxFaults
    BY BoundAssumption DEF Time
  <2>2. stored \in Times /\ granted \in Times
    BY <1>1, NoTimesType DEF Init
  <2>3. QED
    BY <1>1, <2>1, <2>2 DEF Init, TypeOK
<1>2. QED
  BY <1>1

\* What setDownscaled stores, and the time of a grant.
LEMMA StoredType ==
    ASSUME TypeOK, NEW r \in Req, Active(r), setDownscaled(req[r])
    PROVE  stored' \in Times
<1>1. (IF tracker THEN req[r].seen ELSE stored) \in Times
  BY ActiveRequest DEF TypeOK
<1>2. Formatted(now) \in Time /\ req[r].set \in Set
  BY FormattedTime, ActiveRequest DEF TypeOK
<1>3. QED
  BY <1>1, <1>2, WithTimes DEF setDownscaled

LEMMA CreatedType ==
    ASSUME TypeOK, NEW z \in Set
    PROVE  [w \in InGroup(z) |-> Formatted(now)] \in Times
<1>1. [w \in InGroup(z) |-> Formatted(now)] \in [InGroup(z) -> Time]
  BY FormattedTime DEF TypeOK
<1>2. InGroup(z) \in SUBSET Set
  BY DEF InGroup
<1>3. QED
  BY <1>1, <1>2, TimesIntro

LEMMA TypeStep ==
    ASSUME TypeOK, [Next]_vars
    PROVE  TypeOK'
<1> USE DEF cluster, store, pods
<1>1. ASSUME NEW r \in Req, NEW z \in Set, NEW n \in 0..Replicas,
             ReceiveRequest(r, z, n) \/ getStatefulSetFails(r, z, n)
      PROVE  TypeOK'
  <2>1. \A pc \in Step : [pc |-> pc, set |-> z, old |-> replicas[z], new |-> n, seen |-> NoTimes] \in Request
    BY NoTimesType DEF TypeOK, Request, Step
  <2>2. PICK q \in Request : req' = [req EXCEPT ![r] = q]
    BY <1>1, <2>1 DEF ReceiveRequest, getStatefulSetFails, Step
  <2>3. faults' \in 0..MaxFaults
    BY <1>1, FaultType DEF ReceiveRequest, getStatefulSetFails, TypeOK
  <2>4. QED
    BY <1>1, <2>2, <2>3 DEF ReceiveRequest, getStatefulSetFails, TypeOK
<1>2. ASSUME NEW r \in Req, LoadZones(r) PROVE TypeOK'
  <2>1. req[r] \in Request
    BY <1>2, ActiveRequest DEF LoadZones, Active
  <2>2. [req[r] EXCEPT !.seen = stored, !.pc = IF tracker /\ ~mapExists THEN "create" ELSE "check"] \in Request
    BY <2>1 DEF TypeOK, Request
  <2>3. QED
    BY <1>2, <2>2 DEF LoadZones, TypeOK
<1>3. ASSUME NEW r \in Req, createConfigMap(r) PROVE TypeOK'
  <2> DEFINE times == [w \in InGroup(req[r].set) |-> Formatted(now)]
  <2>1. Active(r) /\ req[r] \in Request /\ times \in Times
    BY <1>3, ActiveRequest, CreatedType DEF createConfigMap, Active
  <2>2. CASE mapExists
    BY <1>3, <2>2, DenyStep DEF createConfigMap, TypeOK
  <2>3. CASE ~mapExists
    <3>1. [req[r] EXCEPT !.seen = times, !.pc = "check"] \in Request
      BY <2>1 DEF Request
    <3>2. req' = [req EXCEPT ![r] = [req[r] EXCEPT !.seen = times, !.pc = "check"]]
      BY <1>3, <2>3 DEF createConfigMap
    <3>3. mapExists' = TRUE /\ stored' = times
      BY <1>3, <2>3 DEF createConfigMap
    <3>4. QED
      BY <1>3, <2>1, <3>1, <3>2, <3>3 DEF createConfigMap, TypeOK
  <2>4. QED
    BY <2>2, <2>3
<1>4. ASSUME NEW r \in Req, CallFails(r) PROVE TypeOK'
  BY <1>4, DenyStep, FaultType DEF CallFails, TypeOK
<1>5. ASSUME NEW r \in Req, CheckOthers(r) PROVE TypeOK'
  <2>1. Active(r) /\ (Deny(r) \/ Goto(r, "prepare"))
    BY <1>5 DEF CheckOthers, Active
  <2>2. req' \in [Req -> {Idle} \cup Request]
    BY <2>1, DenyStep, GotoStep DEF Step
  <2>3. QED
    BY <1>5, <2>2 DEF CheckOthers, TypeOK
<1>6. ASSUME NEW r \in Req, sendPrepareShutdownRequests(r) PROVE TypeOK'
  <2>1. Active(r) /\ (Goto(r, "record") \/ Goto(r, "undo"))
    BY <1>6 DEF sendPrepareShutdownRequests, Active
  <2>2. req' \in [Req -> {Idle} \cup Request]
    BY <2>1, GotoStep DEF Step
  <2>3. prepared' \subseteq prepared \cup createEndpoints(req[r]) /\ faults' \in 0..MaxFaults
    BY <1>6, FaultType DEF sendPrepareShutdownRequests, TypeOK
  <2>4. QED
    BY <1>6, <2>1, <2>2, <2>3, EndpointsType DEF sendPrepareShutdownRequests, TypeOK
<1>7. ASSUME NEW r \in Req, Record(r) PROVE TypeOK'
  <2>1. Active(r) /\ (Goto(r, "allowed") \/ Goto(r, "undo"))
    BY <1>7 DEF Record, afterFailedRecord, Active
  <2>2. req' \in [Req -> {Idle} \cup Request]
    BY <2>1, GotoStep DEF Step
  <2>3. stored' \in Times
    BY <1>7, <2>1, StoredType DEF Record, TypeOK
  <2>4. granted' \in Times
    <3>1. req[r].set \in Set /\ now \in Time /\ granted \in Times
      BY <2>1, ActiveRequest DEF TypeOK
    <3>2. With(granted, req[r].set, now) \in Times
      BY <3>1, WithTimes
    <3>3. QED
      BY <1>7, <3>1, <3>2 DEF Record
  <2>5. faults' \in 0..MaxFaults
    BY <1>7, FaultType DEF Record, TypeOK
  <2>6. QED
    BY <1>7, <2>2, <2>3, <2>4, <2>5 DEF Record, TypeOK
<1>8. ASSUME NEW r \in Req, undoPrepareShutdownRequests(r) PROVE TypeOK'
  <2>1. req' \in [Req -> {Idle} \cup Request]
    BY <1>8, DenyStep DEF undoPrepareShutdownRequests
  <2>2. prepared' \subseteq prepared /\ leftover' \subseteq leftover \cup prepared /\ faults' \in 0..MaxFaults
    BY <1>8, FaultType DEF undoPrepareShutdownRequests, TypeOK
  <2>3. QED
    BY <1>8, <2>1, <2>2 DEF undoPrepareShutdownRequests, TypeOK
<1>9. ASSUME NEW r \in Req, Apply(r) PROVE TypeOK'
  <2>1. Active(r)
    BY <1>9 DEF Apply, Allowed, Active
  <2>2. req' \in [Req -> {Idle} \cup Request]
    BY <1>9, DenyStep DEF Apply
  <2>3. replicas' \in [Set -> 0..Replicas]
    BY <1>9, <2>1, ActiveRequest DEF Apply, TypeOK
  <2>4. QED
    BY <1>9, <2>2, <2>3 DEF Apply, TypeOK
<1>10. ASSUME NEW r \in Req, Reject(r) PROVE TypeOK'
  BY <1>10, DenyStep DEF Reject, TypeOK
<1>11. ASSUME NEW z \in Set, ScaleUp(z) PROVE TypeOK'
  BY <1>11, BoundAssumption DEF ScaleUp, TypeOK
<1>12. ASSUME NEW z \in Set, PodsChange(z) PROVE TypeOK'
  BY <1>12 DEF PodsChange, TypeOK
<1>13. CASE Tick
  BY <1>13, BoundAssumption DEF Tick, TypeOK, Time
<1>14. CASE UNCHANGED vars
  BY <1>14 DEF vars, TypeOK
<1>15. QED
  BY <1>1, <1>2, <1>3, <1>4, <1>5, <1>6, <1>7, <1>8, <1>9, <1>10, <1>11, <1>12, <1>13, <1>14
     DEF Next, Handler

\* Every variable keeps its type, the times that a request has seen and those it
\* stores included.
THEOREM TypeCorrect == Spec => []TypeOK
BY TypeInit, TypeStep, PTL DEF Spec

-----------------------------------------------------------------------------
(* Preparations.                                                           *)

\* A pod that is prepared is that of a request past sendPrepareShutdownRequests,
\* or was left behind.
Owned ==
    \A p \in prepared :
        \/ p \in leftover
        \/ \E s \in Req : req[s].pc \in {"record", "undo", "allowed"} /\ p \in createEndpoints(req[s])

\* A step of one request leaves the others alone, and its own stays about the
\* same replicas.
LEMMA RequestStep ==
    ASSUME TypeOK, NEW r \in Req, Handler(r) \/ Apply(r) \/ Reject(r)
    PROVE  /\ \A s \in Req : s # r => req'[s] = req[s]
           /\ Active(r) => \/ req'[r] = Idle
                           \/ /\ req'[r].set = req[r].set
                              /\ createEndpoints(req[r])' = createEndpoints(req[r])
<1>1. ASSUME NEW z \in Set, NEW n \in 0..Replicas, ReceiveRequest(r, z, n) \/ getStatefulSetFails(r, z, n)
      PROVE  ~Active(r) /\ \A s \in Req : s # r => req'[s] = req[s]
  BY <1>1 DEF ReceiveRequest, getStatefulSetFails, TypeOK, Active
<1>2. CASE LoadZones(r)
  <2>1. req[r] \in Request
    BY <1>2, ActiveRequest DEF LoadZones, Active
  <2>2. QED
    BY <1>2, <2>1 DEF LoadZones, TypeOK, Request, createEndpoints
<1>3. CASE createConfigMap(r)
  <2> DEFINE times == [w \in InGroup(req[r].set) |-> Formatted(now)]
  <2>1. req[r] \in Request
    BY <1>3, ActiveRequest DEF createConfigMap, Active
  <2>2. Deny(r) \/ req' = [req EXCEPT ![r].seen = times, ![r].pc = "check"]
    BY <1>3 DEF createConfigMap
  <2> HIDE DEF times
  <2>3. QED
    BY <2>1, <2>2, DenyStep DEF TypeOK, Request, createEndpoints
<1>4. CASE Deny(r)
  BY <1>4, DenyStep
<1>5. ASSUME Active(r), NEW pc \in Step, Goto(r, pc)
      PROVE  /\ \A s \in Req : s # r => req'[s] = req[s]
             /\ req'[r].set = req[r].set
             /\ createEndpoints(req[r])' = createEndpoints(req[r])
  BY <1>5, GotoStep DEF createEndpoints
<1>6. CASE CallFails(r) \/ undoPrepareShutdownRequests(r) \/ Apply(r) \/ Reject(r)
  BY <1>4, <1>6 DEF CallFails, undoPrepareShutdownRequests, Apply, Reject
<1>7. CASE CheckOthers(r) \/ sendPrepareShutdownRequests(r) \/ Record(r)
  <2>1. Active(r) /\ (Deny(r) \/ Goto(r, "prepare") \/ Goto(r, "record") \/ Goto(r, "allowed") \/ Goto(r, "undo"))
    BY <1>7 DEF CheckOthers, sendPrepareShutdownRequests, Record, afterFailedRecord, Active
  <2>2. QED
    BY <1>4, <1>5, <2>1 DEF Step
<1>8. QED
  BY <1>1, <1>2, <1>3, <1>6, <1>7 DEF Handler

LEMMA OwnedStep ==
    ASSUME TypeOK, Owned, [Next]_vars
    PROVE  Owned'
<1> USE DEF cluster, store, pods
\* Steps that leave the pods alone, and the request where it was or past them.
<1>1. ASSUME NEW r \in Req, Handler(r), UNCHANGED pods,
             req[r].pc \in {"record", "undo", "allowed"} => Active(r)' /\ req'[r].pc \in {"undo", "allowed"}
      PROVE  Owned'
  <2> SUFFICES ASSUME NEW p \in prepared', p \notin leftover'
               PROVE  \E s \in Req : req'[s].pc \in {"record", "undo", "allowed"} /\ p \in createEndpoints(req[s])'
    BY DEF Owned
  <2>1. PICK s \in Req : req[s].pc \in {"record", "undo", "allowed"} /\ p \in createEndpoints(req[s])
    BY <1>1 DEF Owned
  <2>2. CASE s = r
    BY <1>1, <2>1, <2>2, RequestStep DEF Active, Idle
  <2>3. CASE s # r
    BY <1>1, <2>1, <2>3, RequestStep DEF createEndpoints
  <2>4. QED
    BY <2>2, <2>3
<1>2. ASSUME NEW r \in Req, NEW z \in Set, NEW n \in 0..Replicas,
             ReceiveRequest(r, z, n) \/ getStatefulSetFails(r, z, n)
      PROVE  Owned'
  BY <1>1, <1>2 DEF ReceiveRequest, getStatefulSetFails, Handler
<1>3. ASSUME NEW r \in Req, LoadZones(r) \/ createConfigMap(r) \/ CallFails(r) \/ CheckOthers(r) PROVE Owned'
  BY <1>1, <1>3 DEF LoadZones, createConfigMap, CallFails, CheckOthers, Handler
<1>4. ASSUME NEW r \in Req, sendPrepareShutdownRequests(r) PROVE Owned'
  <2>1. Active(r) /\ (Goto(r, "record") \/ Goto(r, "undo"))
    BY <1>4 DEF sendPrepareShutdownRequests, Active
  <2>2. req'[r].pc \in {"record", "undo"} /\ createEndpoints(req[r])' = createEndpoints(req[r])
    BY <2>1, GotoStep DEF Step, createEndpoints
  <2>3. prepared' \subseteq prepared \cup createEndpoints(req[r]) /\ leftover' = leftover
    BY <1>4 DEF sendPrepareShutdownRequests
  <2>4. \A s \in Req : s # r => req'[s] = req[s] /\ createEndpoints(req[s])' = createEndpoints(req[s])
    BY <1>4, RequestStep DEF Handler, createEndpoints
  <2>5. req[r].pc = "prepare"
    BY <1>4 DEF sendPrepareShutdownRequests
  <2>6. QED
    BY <2>2, <2>3, <2>4, <2>5 DEF Owned
<1>5. ASSUME NEW r \in Req, Record(r) PROVE Owned'
  <2>1. Active(r) /\ (Goto(r, "allowed") \/ Goto(r, "undo")) /\ UNCHANGED pods
    BY <1>5 DEF Record, afterFailedRecord, Active
  <2>2. req'[r].pc \in {"undo", "allowed"}
    BY <2>1, GotoStep DEF Step
  <2>3. Active(r)'
    BY <2>2 DEF Active
  <2>4. QED
    BY <1>1, <1>5, <2>1, <2>2, <2>3 DEF Handler
\* Steps that end a request: its pods are left behind or not prepared.
<1>6. ASSUME NEW r \in Req, Handler(r) \/ Apply(r) \/ Reject(r),
             prepared' \subseteq prepared, prepared' \cap leftover \subseteq leftover',
             prepared' \cap createEndpoints(req[r]) \subseteq leftover'
      PROVE  Owned'
  <2>1. \A s \in Req : s # r => req'[s] = req[s] /\ createEndpoints(req[s])' = createEndpoints(req[s])
    BY <1>6, RequestStep DEF createEndpoints
  <2>2. QED
    BY <1>6, <2>1 DEF Owned
<1>7. ASSUME NEW r \in Req, undoPrepareShutdownRequests(r) PROVE Owned'
  <2>1. /\ prepared' \subseteq prepared /\ prepared' \cap leftover \subseteq leftover'
        /\ prepared' \cap createEndpoints(req[r]) \subseteq leftover'
    BY <1>7 DEF undoPrepareShutdownRequests
  <2>2. QED
    BY <1>6, <1>7, <2>1 DEF Handler
<1>8. ASSUME NEW r \in Req, Apply(r) PROVE Owned'
  <2>1. Active(r)
    BY <1>8 DEF Apply, Allowed, Active
  <2>2. \A p \in prepared' : p \in prepared /\ p \notin createEndpoints(req[r])
    BY <1>8, <2>1, EndpointsType, ActiveRequest DEF Apply, createEndpoints
  <2>3. prepared' \cap leftover \subseteq leftover'
    BY <1>8 DEF Apply
  <2>4. QED
    BY <1>6, <1>8, <2>2, <2>3
<1>9. ASSUME NEW r \in Req, Reject(r) PROVE Owned'
  <2>1. CASE Checked(r)
    <3>1. prepared' = prepared /\ leftover' = leftover \cup (prepared \cap createEndpoints(req[r]))
      BY <1>9, <2>1 DEF Reject
    <3>2. QED
      BY <1>6, <1>9, <3>1
  <2>2. CASE ~Checked(r)
    <3>1. UNCHANGED pods /\ req[r].pc \notin {"record", "undo", "allowed"}
      BY <1>9, <2>2 DEF Reject, Checked
    <3>2. \A s \in Req : s # r => req'[s] = req[s]
      BY <1>9, RequestStep
    <3>3. QED
      BY <3>1, <3>2 DEF Owned, createEndpoints
  <2>3. QED
    BY <2>1, <2>2
<1>10. CASE UNCHANGED <<pods, req>>
  BY <1>10 DEF Owned, createEndpoints
<1>11. CASE Tick \/ UNCHANGED vars \/ \E z \in Set : ScaleUp(z) \/ PodsChange(z)
  BY <1>10, <1>11 DEF Tick, ScaleUp, PodsChange, vars
<1>12. QED
  BY <1>2, <1>3, <1>4, <1>5, <1>7, <1>8, <1>9, <1>11 DEF Next, Handler

\* However requests overlap and calls fail, a pod that is prepared is that of a
\* request in flight, or one whose undo failed or whose allowed downscale the API
\* server rejected: no path through prepareDownscale forgets one.
THEOREM NothingStaysPrepared == Spec => []NothingLeftPrepared
<1>1. Init => Owned
  BY DEF Init, Owned
<1>2. Owned => NothingLeftPrepared
  BY DEF Owned, NothingLeftPrepared, Checked
<1>3. TypeOK /\ Owned /\ [Next]_vars => Owned'
  BY OwnedStep
<1>4. QED
  BY <1>1, <1>2, <1>3, TypeCorrect, PTL DEF Spec

-----------------------------------------------------------------------------
(* Requests of a group that do not overlap.                                *)

Alone ==
    \A r, s \in Req : r # s /\ Active(r) /\ Active(s) => Group[req[r].set] # Group[req[s].set]

\* The pods of a request that is about to be allowed, or is, are prepared.
Ready ==
    \A r \in Req : req[r].pc \in {"record", "allowed"} => createEndpoints(req[r]) \subseteq prepared

\* Only ReceiveRequest, getStatefulSetFails and steps of active requests change a request.
LEMMA AloneStep ==
    ASSUME Serial, TypeOK, Alone, [Next]_vars
    PROVE  Alone'
<1>1. ASSUME NEW r \in Req, NEW z \in Set, NEW n \in 0..Replicas,
             ReceiveRequest(r, z, n) \/ getStatefulSetFails(r, z, n)
      PROVE  Alone'
  <2>1. req'[r].set = z /\ \A s \in Req : s # r => req'[s] = req[s]
    BY <1>1 DEF ReceiveRequest, getStatefulSetFails, TypeOK
  <2>2. \A s \in Req \ {r} : Active(s) => Group[req[s].set] # Group[z]
    BY <1>1 DEF ReceiveRequest, getStatefulSetFails, Admitted
  <2>3. QED
    BY <2>1, <2>2 DEF Alone, Active
<1>2. ASSUME NEW r \in Req, Active(r), Handler(r) \/ Apply(r) \/ Reject(r) PROVE Alone'
  <2>1. req'[r] = Idle \/ req'[r].set = req[r].set
    BY <1>2, RequestStep
  <2>2. \A s \in Req : s # r => req'[s] = req[s]
    BY <1>2, RequestStep
  <2>3. Idle.pc = "idle"
    BY DEF Idle
  <2>4. QED
    BY <1>2, <2>1, <2>2, <2>3 DEF Alone, Active
<1>3. CASE UNCHANGED req
  BY <1>3 DEF Alone, Active
<1>4. ASSUME NEW r \in Req, Handler(r), ~Active(r) PROVE \E z \in Set, n \in 0..Replicas : ReceiveRequest(r, z, n) \/ getStatefulSetFails(r, z, n)
  BY <1>4 DEF Handler, Active, LoadZones, createConfigMap, CallFails, CheckOthers,
     sendPrepareShutdownRequests, Record, undoPrepareShutdownRequests
<1>5. ASSUME NEW r \in Req, Apply(r) \/ Reject(r) PROVE Active(r)
  BY <1>5 DEF Apply, Reject, Allowed, Active
<1>6. CASE Tick \/ UNCHANGED vars \/ \E z \in Set : ScaleUp(z) \/ PodsChange(z)
  BY <1>3, <1>6 DEF Tick, ScaleUp, PodsChange, vars
<1>7. QED
  BY <1>1, <1>2, <1>4, <1>5, <1>6 DEF Next

\* The pods of two active requests are different ones.
LEMMA AloneEndpoints ==
    ASSUME TypeOK, Alone, NEW r \in Req, NEW s \in Req, r # s, Active(r), Active(s)
    PROVE  /\ req[r].set # req[s].set
           /\ createEndpoints(req[r]) \cap createEndpoints(req[s]) = {}
           /\ \A p \in createEndpoints(req[s]) : p[1] # req[r].set
<1>1. req[r].set # req[s].set
  BY DEF Alone
<1>2. QED
  BY <1>1 DEF createEndpoints

LEMMA ReadyStep ==
    ASSUME TypeOK, Alone, Ready, [Next]_vars
    PROVE  Ready'
<1> USE DEF cluster, store, pods
<1>1. ASSUME NEW r \in Req, Handler(r) \/ Apply(r) \/ Reject(r), prepared \subseteq prepared',
             req'[r].pc \notin {"record", "allowed"}
      PROVE  Ready'
  BY <1>1, RequestStep DEF Ready, createEndpoints
<1>2. ASSUME NEW r \in Req, NEW z \in Set, NEW n \in 0..Replicas,
             ReceiveRequest(r, z, n) \/ getStatefulSetFails(r, z, n)
      PROVE  Ready'
  <2>1. prepared' = prepared /\ req'[r].pc \in {"load", "unchecked"}
    BY <1>2 DEF ReceiveRequest, getStatefulSetFails, TypeOK
  <2>2. QED
    BY <1>1, <1>2, <2>1 DEF Handler
<1>3. ASSUME NEW r \in Req, LoadZones(r) PROVE Ready'
  <2>1. req[r] \in Request
    BY <1>3, ActiveRequest DEF LoadZones, Active
  <2>2. prepared' = prepared /\ req'[r].pc \in {"create", "check"}
    BY <1>3, <2>1 DEF LoadZones, TypeOK, Request
  <2>3. QED
    BY <1>1, <1>3, <2>2 DEF Handler
<1>4. ASSUME NEW r \in Req, createConfigMap(r) PROVE Ready'
  <2> DEFINE times == [w \in InGroup(req[r].set) |-> Formatted(now)]
  <2>1. req[r] \in Request /\ prepared' = prepared
    BY <1>4, ActiveRequest DEF createConfigMap, Active
  <2>2. Deny(r) \/ req' = [req EXCEPT ![r].seen = times, ![r].pc = "check"]
    BY <1>4 DEF createConfigMap
  <2> HIDE DEF times
  <2>3. req'[r].pc \in {"idle", "check"}
    BY <2>1, <2>2, DenyStep DEF TypeOK, Request, Idle
  <2>4. QED
    BY <1>1, <1>4, <2>1, <2>3 DEF Handler
<1>5. ASSUME NEW r \in Req, CallFails(r) \/ CheckOthers(r) PROVE Ready'
  <2>1. Active(r) /\ prepared' = prepared /\ (Deny(r) \/ Goto(r, "prepare"))
    BY <1>5 DEF CallFails, CheckOthers, Active
  <2>2. req'[r].pc \in {"idle", "prepare"}
    BY <2>1, DenyStep, GotoStep DEF Step, Idle
  <2>3. QED
    BY <1>1, <1>5, <2>1, <2>2 DEF Handler
<1>6. ASSUME NEW r \in Req, sendPrepareShutdownRequests(r) PROVE Ready'
  <2>1. Active(r) /\ prepared \subseteq prepared'
    BY <1>6 DEF sendPrepareShutdownRequests, Active
  <2>2. CASE Goto(r, "undo")
    <3>1. req'[r].pc = "undo"
      BY <2>1, <2>2, GotoStep DEF Step
    <3>2. QED
      BY <1>1, <1>6, <2>1, <3>1 DEF Handler
  <2>3. CASE prepared' = prepared \cup createEndpoints(req[r]) /\ Goto(r, "record")
    <3>1. createEndpoints(req[r])' = createEndpoints(req[r])
      BY <2>1, <2>3, GotoStep DEF Step, createEndpoints
    <3>2. \A s \in Req : s # r => req'[s] = req[s] /\ createEndpoints(req[s])' = createEndpoints(req[s])
      BY <1>6, RequestStep DEF Handler, createEndpoints
    <3>3. QED
      BY <2>3, <3>1, <3>2 DEF Ready
  <2>4. QED
    BY <1>6, <2>2, <2>3 DEF sendPrepareShutdownRequests
<1>7. ASSUME NEW r \in Req, Record(r) PROVE Ready'
  <2>1. Active(r) /\ prepared' = prepared /\ req[r].pc = "record"
    BY <1>7 DEF Record, Active
  <2>2. \A s \in Req : s # r => req'[s] = req[s] /\ createEndpoints(req[s])' = createEndpoints(req[s])
    BY <1>7, RequestStep DEF Handler, createEndpoints
  <2>3. Goto(r, "allowed") \/ Goto(r, "undo")
    BY <1>7 DEF Record, afterFailedRecord
  <2>4. createEndpoints(req[r])' = createEndpoints(req[r])
    BY <2>1, <2>3, GotoStep DEF Step, createEndpoints
  <2>5. QED
    BY <2>1, <2>2, <2>4 DEF Ready
\* Steps that end a request do not reach the pods of another one.
<1>8. ASSUME NEW r \in Req, Active(r), Handler(r) \/ Apply(r) \/ Reject(r), Deny(r),
             \A p \in prepared : p \in prepared' \/ p[1] = req[r].set
      PROVE  Ready'
  <2>1. SUFFICES ASSUME NEW s \in Req, req'[s].pc \in {"record", "allowed"},
                        NEW p \in createEndpoints(req[s])'
                 PROVE  p \in prepared'
    BY DEF Ready
  <2>2. s # r
    BY <1>8, <2>1, DenyStep DEF Idle
  <2>3. req[s].pc \in {"record", "allowed"} /\ p \in createEndpoints(req[s])
    BY <1>8, <2>1, <2>2, DenyStep DEF createEndpoints
  <2>4. p \in prepared
    BY <2>3 DEF Ready
  <2>5. p[1] # req[r].set
    BY <1>8, <2>2, <2>3, AloneEndpoints DEF Active
  <2>6. QED
    BY <1>8, <2>4, <2>5
<1>9. ASSUME NEW r \in Req, undoPrepareShutdownRequests(r) PROVE Ready'
  <2>1. \A p \in prepared : p \in prepared' \/ p \in createEndpoints(req[r])
    BY <1>9 DEF undoPrepareShutdownRequests
  <2>2. \A p \in createEndpoints(req[r]) : p[1] = req[r].set
    BY DEF createEndpoints
  <2>3. Active(r) /\ Deny(r)
    BY <1>9 DEF undoPrepareShutdownRequests, Active
  <2>4. QED
    BY <1>8, <1>9, <2>1, <2>2, <2>3 DEF Handler
<1>10. ASSUME NEW r \in Req, Apply(r) PROVE Ready'
  <2>1. \A p \in prepared : p \in prepared' \/ p[1] = req[r].set
    BY <1>10 DEF Apply
  <2>2. Active(r) /\ Deny(r)
    BY <1>10 DEF Apply, Allowed, Active
  <2>3. QED
    BY <1>8, <1>10, <2>1, <2>2
<1>11. ASSUME NEW r \in Req, Reject(r) PROVE Ready'
  BY <1>8, <1>11 DEF Reject, Allowed, Active
<1>12. CASE UNCHANGED <<pods, req>>
  BY <1>12 DEF Ready, createEndpoints
<1>13. CASE Tick \/ UNCHANGED vars \/ \E z \in Set : ScaleUp(z) \/ PodsChange(z)
  BY <1>12, <1>13 DEF Tick, ScaleUp, PodsChange, vars
<1>14. QED
  BY <1>2, <1>3, <1>4, <1>5, <1>6, <1>7, <1>9, <1>10, <1>11, <1>13 DEF Next, Handler

\* When requests of a group do not overlap, the API server removes only replicas
\* whose pods are prepared: no undo of another request reaches them between
\* sendPrepareShutdownRequests and the downscale.  The exception is a request for
\* the scale subresource that getStatefulSetPrepareInfo lets through unchecked.
THEOREM RemovedPodsArePrepared ==
    ASSUME Serial
    PROVE  Spec => PreparedWhenApplied
<1> DEFINE Gone(z) == {<<z, i>> : i \in replicas'[z]..replicas[z] - 1}
           Unchecked(z) == \E r \in Req : req[r].pc = "unchecked" /\ req[r].set = z /\ Apply(r)
           Removed == \A z \in Set :
                         \/ {<<z, i>> : i \in replicas'[z]..replicas[z] - 1} \subseteq prepared
                         \/ \E r \in Req : req[r].pc = "unchecked" /\ req[r].set = z /\ Apply(r)
<1>1. Init => Alone /\ Ready
  BY DEF Init, Alone, Ready, Active, Idle
<1>2. TypeOK /\ Alone /\ Ready /\ [Next]_vars => Alone' /\ Ready'
  BY AloneStep, ReadyStep
<1>3. TypeOK /\ Ready /\ [Next]_vars => [Removed]_vars
  <2> SUFFICES ASSUME TypeOK, Ready, Next PROVE Removed
    OBVIOUS
  <2>1. ASSUME NEW r \in Req, Apply(r) PROVE Removed
    <3>1. Active(r) /\ replicas' = [replicas EXCEPT ![req[r].set] = req[r].new]
      BY <2>1 DEF Apply, Allowed, Active
    <3>2. ASSUME NEW z \in Set, z # req[r].set PROVE replicas'[z]..replicas[z] - 1 = {}
      BY <3>1, <3>2 DEF TypeOK
    <3>3. req[r].pc = "allowed" => Gone(req[r].set) \subseteq prepared
      <4>1. replicas[req[r].set] = req[r].old
        BY <2>1 DEF Apply
      <4>2. replicas'[req[r].set] = req[r].new
        BY <3>1, ActiveRequest DEF TypeOK
      <4>3. QED
        BY <4>1, <4>2 DEF Ready, createEndpoints
    <3>4. req[r].pc # "allowed" => Unchecked(req[r].set)
      BY <2>1 DEF Apply, Allowed
    <3>5. ASSUME NEW z \in Set PROVE Gone(z) \subseteq prepared \/ Unchecked(z)
      BY <3>2, <3>3, <3>4
    <3>6. QED
      BY <3>5
  <2>2. ASSUME \A z \in Set : replicas'[z]..replicas[z] - 1 = {} PROVE Removed
    BY <2>2
  <2>3. CASE UNCHANGED replicas
    BY <2>2, <2>3 DEF TypeOK
  <2>4. ASSUME NEW z \in Set, ScaleUp(z) PROVE Removed
    <3>1. \A w \in Set : replicas'[w]..replicas[w] - 1 = {}
      BY <2>4 DEF ScaleUp, TypeOK
    <3>2. QED
      BY <2>2, <3>1
  <2>5. ASSUME NEW r \in Req, Handler(r) \/ Reject(r) PROVE UNCHANGED replicas
    BY <2>5 DEF Handler, ReceiveRequest, getStatefulSetFails, LoadZones, createConfigMap, CallFails, CheckOthers,
       sendPrepareShutdownRequests, Record, undoPrepareShutdownRequests, Reject, cluster
  <2>6. CASE Tick \/ \E z \in Set : PodsChange(z)
    BY <2>3, <2>6 DEF Tick, PodsChange
  <2> HIDE DEF Removed
  <2>7. QED
    BY <2>1, <2>3, <2>4, <2>5, <2>6 DEF Next
<1>4. QED
  BY <1>1, <1>2, <1>3, TypeCorrect, PTL DEF Spec, PreparedWhenApplied

-----------------------------------------------------------------------------
(* Zones downscale apart.                                                  *)

\* The ConfigMap is written back as a whole: it serves one group only.
MapOfOneGroup == TRUE \notin UseZoneTracker \/ \A z, w \in Set : Group[z] = Group[w]

\* What request r has seen of its group is still what is stored.
Current(r) ==
    \A w \in InGroup(req[r].set) :
        /\ w \in DOMAIN req[r].seen <=> w \in DOMAIN stored
        /\ w \in DOMAIN stored => req[r].seen[w] = stored[w]

Creating == \A r \in Req : req[r].pc = "create" => tracker
SeenCurrent == \A r \in Req : req[r].pc \in {"check", "prepare", "record"} => Current(r)
Waited == \A r \in Req : req[r].pc \in {"prepare", "record"} => ~findDownscalesDoneMinTimeAgo(req[r])
StoredLate ==
    \A z \in DOMAIN granted :
        granted[z] <= now /\ z \in DOMAIN stored /\ stored[z] > granted[z] - Second

TimesInv == Creating /\ SeenCurrent /\ Waited /\ StoredLate /\ ZonesApart

\* setDownscaled changes the time of its own set only.
LEMMA StoredOthers ==
    ASSUME MapOfOneGroup, TypeOK, NEW r \in Req, Active(r), Current(r), setDownscaled(req[r])
    PROVE  /\ req[r].set \in DOMAIN stored' /\ stored'[req[r].set] = Formatted(now)
           /\ \A w \in Set : w # req[r].set =>
                 /\ w \in DOMAIN stored' <=> w \in DOMAIN stored
                 /\ w \in DOMAIN stored => stored'[w] = stored[w]
<1> DEFINE base == IF tracker THEN req[r].seen ELSE stored
<1>1. base \in Times /\ req[r].set \in Set /\ Formatted(now) \in Time
  BY ActiveRequest, FormattedTime DEF TypeOK
<1>2. \A w \in Set : (w \in DOMAIN base <=> w \in DOMAIN stored) /\ (w \in DOMAIN stored => base[w] = stored[w])
  <2>1. CASE tracker
    BY <2>1, <1>1, SwitchAssumption DEF Current, InGroup, MapOfOneGroup, TypeOK
  <2>2. CASE ~tracker
    BY <2>2
  <2>3. QED
    BY <2>1, <2>2
<1>3. stored' = With(base, req[r].set, Formatted(now))
  BY DEF setDownscaled
<1> HIDE DEF base
<1>4. /\ DOMAIN stored' = DOMAIN base \cup {req[r].set}
      /\ stored'[req[r].set] = Formatted(now)
      /\ \A w \in DOMAIN base : w # req[r].set => stored'[w] = base[w]
  <2> DEFINE z == req[r].set
             t == Formatted(now)
  <2>1. base \in Times /\ z \in Set /\ t \in Time /\ stored' = With(base, z, t)
    BY <1>1, <1>3
  <2> HIDE DEF z, t
  <2>2. /\ DOMAIN stored' = DOMAIN base \cup {z}
        /\ stored'[z] = t
        /\ \A w \in DOMAIN base : w # z => stored'[w] = base[w]
    BY <2>1, WithTimes
  <2>3. QED
    BY <2>2 DEF z, t
<1>5. QED
  BY <1>1, <1>2, <1>4

\* A step that leaves the times alone and takes its request out of the checks.
LEMMA TimesRest ==
    ASSUME TimesInv, NEW r \in Req, UNCHANGED <<tracker, now, stored, granted>>,
           \A s \in Req : s # r => req'[s] = req[s],
           req'[r].pc \notin {"create", "check", "prepare", "record"}
    PROVE  TimesInv'
<1>1. Creating' /\ SeenCurrent' /\ Waited'
  BY DEF TimesInv, Creating, SeenCurrent, Waited, Current, InGroup, findDownscalesDoneMinTimeAgo
<1>2. StoredLate' /\ ZonesApart'
  BY DEF TimesInv, StoredLate, ZonesApart
<1>3. QED
  BY <1>1, <1>2 DEF TimesInv

\* A step that leaves the times alone and moves its request on within the checks.
LEMMA TimesMove ==
    ASSUME TypeOK, TimesInv, NEW r \in Req, Active(r), NEW pc \in {"prepare", "record"}, Goto(r, pc),
           UNCHANGED <<tracker, now, stored, granted>>,
           Current(r), ~findDownscalesDoneMinTimeAgo(req[r])
    PROVE  TimesInv'
<1>1. /\ \A s \in Req : s # r => req'[s] = req[s]
      /\ req'[r].pc = pc /\ req'[r].set = req[r].set /\ req'[r].seen = req[r].seen
  BY GotoStep DEF Step
<1>2. Creating' /\ SeenCurrent'
  BY <1>1 DEF TimesInv, Creating, SeenCurrent, Current, InGroup
<1>3. Waited'
  BY <1>1 DEF TimesInv, Waited, InGroup, findDownscalesDoneMinTimeAgo
<1>4. StoredLate' /\ ZonesApart'
  BY DEF TimesInv, StoredLate, ZonesApart
<1>5. QED
  BY <1>2, <1>3, <1>4 DEF TimesInv

LEMMA LoadStep ==
    ASSUME TypeOK, TimesInv, NEW r \in Req, LoadZones(r)
    PROVE  TimesInv'
<1> USE DEF cluster, store
<1>1. req[r] \in Request /\ UNCHANGED <<tracker, now, stored, granted>>
  BY ActiveRequest DEF LoadZones, Active
<1>2. /\ req'[r].seen = stored /\ req'[r].set = req[r].set
      /\ req'[r].pc \in {"create", "check"} /\ (req'[r].pc = "create" => tracker)
  BY <1>1 DEF LoadZones, TypeOK, Request
<1>3. \A s \in Req : s # r => req'[s] = req[s]
  BY DEF LoadZones, TypeOK
<1>4. Creating' /\ SeenCurrent'
  BY <1>1, <1>2, <1>3 DEF TimesInv, Creating, SeenCurrent, Current, InGroup
<1>5. Waited'
  BY <1>1, <1>2, <1>3 DEF TimesInv, Waited, InGroup, findDownscalesDoneMinTimeAgo
<1>6. StoredLate' /\ ZonesApart'
  BY <1>1 DEF TimesInv, StoredLate, ZonesApart
<1>7. QED
  BY <1>4, <1>5, <1>6 DEF TimesInv

\* The new ConfigMap has the current time for every set, which no grant is later
\* than.
LEMMA CreateStep ==
    ASSUME MapOfOneGroup, TypeOK, Alone, TimesInv, NEW r \in Req, createConfigMap(r), ~mapExists
    PROVE  TimesInv'
<1> USE DEF cluster
<1> DEFINE times == [w \in InGroup(req[r].set) |-> Formatted(now)]
<1>1. req[r] \in Request /\ Active(r) /\ tracker /\ req[r].set \in Set
  BY ActiveRequest DEF createConfigMap, Active, TimesInv, Creating
<1>2. InGroup(req[r].set) = Set
  BY <1>1, SwitchAssumption DEF InGroup, MapOfOneGroup, TypeOK
<1>3. stored' = times /\ UNCHANGED <<tracker, now, granted>>
  BY DEF createConfigMap
<1>4. req' = [req EXCEPT ![r].seen = times, ![r].pc = "check"]
  BY DEF createConfigMap
<1>5. DOMAIN times = Set /\ \A w \in Set : times[w] = Formatted(now)
  BY <1>2
<1> HIDE DEF times
<1>6. req'[r].seen = times /\ req'[r].set = req[r].set /\ req'[r].pc = "check"
  BY <1>1, <1>4 DEF TypeOK, Request
<1>7. \A s \in Req : s # r => req'[s] = req[s]
  BY <1>4 DEF TypeOK
<1>8. \A s \in Req : s # r => req[s].pc = "idle"
  <2> SUFFICES ASSUME NEW s \in Req, s # r, Active(s) PROVE FALSE
    BY DEF Active
  <2>1. Group[req[s].set] # Group[req[r].set] /\ req[s].set \in Set
    BY <1>1, ActiveRequest DEF Alone
  <2>2. QED
    BY <1>1, <2>1, SwitchAssumption DEF MapOfOneGroup, TypeOK
<1>9. Creating' /\ SeenCurrent' /\ Waited'
  BY <1>3, <1>6, <1>7, <1>8 DEF Creating, SeenCurrent, Waited, Current
<1>10. StoredLate'
  <2>1. SUFFICES ASSUME NEW z \in DOMAIN granted
                 PROVE  granted[z] <= now /\ z \in DOMAIN stored' /\ stored'[z] > granted[z] - Second
    BY <1>3 DEF StoredLate
  <2>2. z \in Set /\ granted[z] \in Nat /\ granted[z] <= now /\ now \in Nat
    BY TimesElements, BoundAssumption DEF TypeOK, TimesInv, StoredLate, Time
  <2>3. Formatted(now) > now - Second /\ Formatted(now) \in Nat
    BY <2>2, FormattedBounds
  <2>4. QED
    BY <1>3, <1>5, <2>2, <2>3, SetAssumption
<1>11. ZonesApart'
  BY <1>3 DEF TimesInv, ZonesApart
<1>12. QED
  BY <1>9, <1>10, <1>11 DEF TimesInv

\* A request that is allowed has waited for every other set of its group.
LEMMA GrantApart ==
    ASSUME \A z \in Set : MinTime[z] >= Second,
           TypeOK, TimesInv, NEW r \in Req, req[r].pc = "record",
           granted' = With(granted, req[r].set, now)
    PROVE  ZonesApart'
<1> DEFINE v == req[r].set
<1>1. v \in Set /\ granted \in Times /\ now \in Time /\ Active(r)
  BY ActiveRequest DEF TypeOK, Active
<1>2. /\ DOMAIN granted' = DOMAIN granted \cup {v} /\ granted'[v] = now
      /\ \A w \in DOMAIN granted : w # v => granted'[w] = granted[w]
  <2> HIDE DEF v
  <2>1. granted' = With(granted, v, now)
    BY DEF v
  <2>2. QED
    BY <1>1, <2>1, WithTimes
<1>3. ASSUME NEW z \in DOMAIN granted, z # v, Group[z] = Group[v]
      PROVE  /\ z \in Set /\ granted[z] \in Nat /\ granted[z] <= now /\ now \in Nat /\ MinTime[z] \in Nat
             /\ now - granted[z] > MinTime[z] - Second
  <2>1. /\ z \in Set /\ granted[z] \in Nat /\ now \in Nat /\ granted[z] <= now
        /\ MinTime[z] \in Nat /\ Second \in Nat
    BY <1>1, TimesElements, BoundAssumption, SetAssumption DEF Time, TimesInv, StoredLate
  <2>2. z \in InGroup(v) /\ z \in DOMAIN stored /\ stored[z] > granted[z] - Second
    BY <1>3, <2>1 DEF InGroup, TimesInv, StoredLate
  <2>3. stored[z] \in Nat
    BY <2>2, TimesElements, BoundAssumption DEF TypeOK, Time
  <2>4. z \in DOMAIN req[r].seen /\ req[r].seen[z] = stored[z]
    BY <2>2 DEF TimesInv, SeenCurrent, Current
  <2>5. ~(now - stored[z] < MinTime[z])
    BY <1>3, <2>2, <2>4 DEF TimesInv, Waited, findDownscalesDoneMinTimeAgo
  <2>6. QED
    BY <2>1, <2>2, <2>3, <2>5
<1> HIDE DEF v
<1>4. SUFFICES ASSUME NEW z \in DOMAIN granted', NEW w \in DOMAIN granted', z # w, Group[z] = Group[w],
                      granted'[z] <= granted'[w]
               PROVE  granted'[w] - granted'[z] > MinTime[z] - Second
  BY DEF ZonesApart
<1>5. CASE w = v
  BY <1>2, <1>3, <1>4, <1>5
<1>6. CASE z = v
  <2>1. /\ w \in Set /\ granted[w] \in Nat /\ granted[w] <= now /\ now \in Nat /\ MinTime[w] \in Nat
        /\ now - granted[w] > MinTime[w] - Second
    BY <1>2, <1>3, <1>4, <1>6
  <2>2. now <= granted[w] /\ MinTime[w] >= Second /\ Second \in Nat
    BY <1>2, <1>4, <1>6, <2>1, SetAssumption
  <2>3. QED
    BY <2>1, <2>2
<1>7. CASE w # v /\ z # v
  BY <1>2, <1>4, <1>7 DEF TimesInv, ZonesApart
<1>8. QED
  BY <1>5, <1>6, <1>7

LEMMA RecordStep ==
    ASSUME MapOfOneGroup, \A z \in Set : MinTime[z] >= Second,
           TypeOK, Alone, TimesInv, NEW r \in Req, Record(r)
    PROVE  TimesInv'
<1> USE DEF cluster
<1> DEFINE v == req[r].set
<1>1. Active(r) /\ req[r].pc = "record" /\ Current(r) /\ v \in Set /\ UNCHANGED <<tracker, now>>
  BY ActiveRequest DEF Record, Active, TimesInv, SeenCurrent
<1>2. \A w \in Set : w # v => /\ w \in DOMAIN stored' <=> w \in DOMAIN stored
                              /\ w \in DOMAIN stored => stored'[w] = stored[w]
  BY <1>1, StoredOthers DEF Record
<1>3. Goto(r, "allowed") \/ Goto(r, "undo")
  BY DEF Record, afterFailedRecord
<1>4. req'[r].pc \in {"allowed", "undo"} /\ \A s \in Req : s # r => req'[s] = req[s]
  BY <1>1, <1>3, GotoStep DEF Step
<1>5. Creating' /\ Waited'
  BY <1>1, <1>4 DEF TimesInv, Creating, Waited, findDownscalesDoneMinTimeAgo, InGroup
<1>6. SeenCurrent'
  <2>1. SUFFICES ASSUME NEW s \in Req, req'[s].pc \in {"check", "prepare", "record"} PROVE Current(s)'
    BY DEF SeenCurrent
  <2>2. s # r /\ req'[s] = req[s] /\ Current(s) /\ Active(s)
    BY <1>4, <2>1 DEF TimesInv, SeenCurrent, Active
  <2>3. v \notin InGroup(req[s].set)
    BY <1>1, <2>2 DEF Alone, InGroup
  <2>4. InGroup(req[s].set) \subseteq Set
    BY DEF InGroup
  <2>5. QED
    BY <1>2, <2>2, <2>3, <2>4 DEF Current, InGroup
<1>7. CASE setDownscaled(req[r]) /\ granted' = With(granted, v, now)
  <2>1. ZonesApart'
    BY <1>1, <1>7, GrantApart
  <2>2. /\ DOMAIN granted' = DOMAIN granted \cup {v} /\ granted'[v] = now
        /\ \A w \in DOMAIN granted : w # v => granted'[w] = granted[w]
    <3>1. granted \in Times /\ now \in Time /\ v \in Set
      BY <1>1 DEF TypeOK
    <3> HIDE DEF v
    <3>2. QED
      BY <1>7, <3>1, WithTimes
  <2>3. v \in DOMAIN stored' /\ stored'[v] = Formatted(now)
    BY <1>1, <1>7, StoredOthers
  <2>4. now \in Nat /\ DOMAIN granted \subseteq Set /\ Formatted(now) > now - Second
    BY TimesElements, FormattedBounds, BoundAssumption DEF TypeOK, Time
  <2> HIDE DEF v
  <2>5. StoredLate'
    BY <1>1, <1>2, <2>2, <2>3, <2>4 DEF TimesInv, StoredLate
  <2>6. QED
    BY <1>5, <1>6, <2>1, <2>5 DEF TimesInv
<1>8. CASE UNCHANGED granted /\ (setDownscaled(req[r]) \/ UNCHANGED stored)
  <2>1. ZonesApart'
    BY <1>8 DEF TimesInv, ZonesApart
  <2>2. SUFFICES ASSUME NEW z \in DOMAIN granted
                 PROVE  z \in DOMAIN stored' /\ stored'[z] > granted[z] - Second /\ granted[z] <= now
    BY <1>1, <1>5, <1>6, <1>8, <2>1 DEF TimesInv, StoredLate
  <2>3. z \in Set /\ granted[z] \in Nat /\ now \in Nat /\ Second \in Nat
    BY TimesElements, BoundAssumption, SetAssumption DEF TypeOK, Time
  <2>4. granted[z] <= now /\ z \in DOMAIN stored /\ stored[z] > granted[z] - Second
    BY DEF TimesInv, StoredLate
  <2>5. CASE z # v
    BY <1>2, <2>3, <2>4, <2>5
  <2>6. CASE z = v /\ setDownscaled(req[r])
    <3>1. z \in DOMAIN stored' /\ stored'[z] = Formatted(now)
      BY <1>1, <2>6, StoredOthers
    <3>2. Formatted(now) > now - Second /\ Formatted(now) \in Nat
      BY <2>3, FormattedBounds
    <3>3. QED
      BY <2>3, <2>4, <3>1, <3>2
  <2>7. QED
    BY <1>8, <2>4, <2>5, <2>6
<1>9. QED
  BY <1>7, <1>8 DEF Record

LEMMA TimesStep ==
    ASSUME MapOfOneGroup, \A z \in Set : MinTime[z] >= Second,
           TypeOK, Alone, TimesInv, [Next]_vars
    PROVE  TimesInv'
<1> USE DEF cluster, store
<1>1. ASSUME NEW r \in Req, NEW z \in Set, NEW n \in 0..Replicas,
             ReceiveRequest(r, z, n) \/ getStatefulSetFails(r, z, n)
      PROVE  TimesInv'
  <2>1. req'[r].pc \in {"load", "unchecked"} /\ \A s \in Req : s # r => req'[s] = req[s]
    BY <1>1 DEF ReceiveRequest, getStatefulSetFails, TypeOK
  <2>2. QED
    BY <1>1, <2>1, TimesRest DEF ReceiveRequest, getStatefulSetFails
\* Steps that end their request.
<1>2. ASSUME NEW r \in Req, Deny(r), UNCHANGED <<tracker, now, stored, granted>> PROVE TimesInv'
  <2>1. req'[r].pc = "idle" /\ \A s \in Req : s # r => req'[s] = req[s]
    BY <1>2, DenyStep DEF Idle
  <2>2. QED
    BY <1>2, <2>1, TimesRest
<1>3. ASSUME NEW r \in Req, CallFails(r) \/ undoPrepareShutdownRequests(r) \/ Apply(r) \/ Reject(r) PROVE TimesInv'
  BY <1>2, <1>3 DEF CallFails, undoPrepareShutdownRequests, Apply, Reject
<1>4. ASSUME NEW r \in Req, createConfigMap(r) PROVE TimesInv'
  <2>1. CASE mapExists
    BY <1>2, <1>4, <2>1 DEF createConfigMap
  <2>2. CASE ~mapExists
    BY <1>4, <2>2, CreateStep
  <2>3. QED
    BY <2>1, <2>2
<1>5. ASSUME NEW r \in Req, CheckOthers(r) PROVE TimesInv'
  <2>1. Active(r) /\ Current(r) /\ UNCHANGED <<tracker, now, stored, granted>>
    BY <1>5 DEF CheckOthers, Active, TimesInv, SeenCurrent
  <2>2. Deny(r) \/ (~findDownscalesDoneMinTimeAgo(req[r]) /\ Goto(r, "prepare"))
    BY <1>5 DEF CheckOthers
  <2>3. QED
    BY <1>2, <2>1, <2>2, TimesMove
<1>6. ASSUME NEW r \in Req, sendPrepareShutdownRequests(r) PROVE TimesInv'
  <2>1. /\ Active(r) /\ Current(r) /\ ~findDownscalesDoneMinTimeAgo(req[r])
        /\ UNCHANGED <<tracker, now, stored, granted>>
    BY <1>6 DEF sendPrepareShutdownRequests, Active, TimesInv, SeenCurrent, Waited
  <2>2. CASE Goto(r, "record")
    BY <2>1, <2>2, TimesMove
  <2>3. CASE Goto(r, "undo")
    <3>1. req'[r].pc = "undo" /\ \A s \in Req : s # r => req'[s] = req[s]
      BY <2>1, <2>3, GotoStep DEF Step
    <3>2. QED
      BY <2>1, <3>1, TimesRest
  <2>4. QED
    BY <1>6, <2>2, <2>3 DEF sendPrepareShutdownRequests
<1>7. CASE UNCHANGED <<tracker, now, stored, granted, req>>
  <2>1. Creating' /\ SeenCurrent' /\ Waited'
    BY <1>7 DEF TimesInv, Creating, SeenCurrent, Waited, Current, InGroup, findDownscalesDoneMinTimeAgo
  <2>2. StoredLate' /\ ZonesApart'
    BY <1>7 DEF TimesInv, StoredLate, ZonesApart
  <2>3. QED
    BY <2>1, <2>2 DEF TimesInv
<1>8. CASE UNCHANGED vars \/ \E z \in Set : ScaleUp(z) \/ PodsChange(z)
  BY <1>7, <1>8 DEF vars, ScaleUp, PodsChange
\* Time only makes the last downscales older.
<1>9. CASE Tick
  <2>1. now' = now + 1 /\ now \in Nat /\ UNCHANGED <<tracker, stored, granted, req>>
    BY <1>9, BoundAssumption DEF Tick, TypeOK, Time
  <2>2. Creating' /\ SeenCurrent' /\ ZonesApart'
    BY <2>1 DEF TimesInv, Creating, SeenCurrent, Current, InGroup, ZonesApart
  <2>3. StoredLate'
    <3>1. \A z \in DOMAIN granted : granted[z] \in Nat
      BY TimesElements, BoundAssumption DEF TypeOK, Time
    <3>2. QED
      BY <2>1, <3>1 DEF TimesInv, StoredLate
  <2>4. Waited'
    <3>1. SUFFICES ASSUME NEW r \in Req, req[r].pc \in {"prepare", "record"},
                          NEW w \in (InGroup(req[r].set) \cap DOMAIN req[r].seen) \ {req[r].set},
                          now' - req[r].seen[w] < MinTime[w]
                   PROVE  FALSE
      BY <2>1 DEF Waited, findDownscalesDoneMinTimeAgo, InGroup
    <3>2. ~(now - req[r].seen[w] < MinTime[w])
      BY <3>1 DEF TimesInv, Waited, findDownscalesDoneMinTimeAgo
    <3>3. req[r].seen \in Times
      BY <3>1, ActiveRequest DEF Active
    <3>4. req[r].seen[w] \in Nat /\ MinTime[w] \in Nat
      BY <3>1, <3>3, TimesElements, BoundAssumption, SetAssumption DEF Time
    <3>5. QED
      BY <2>1, <3>1, <3>2, <3>4
  <2>5. QED
    BY <2>2, <2>3, <2>4 DEF TimesInv
<1>10. QED
  BY <1>1, <1>3, <1>4, <1>5, <1>6, <1>8, <1>9, LoadStep, RecordStep DEF Next, Handler

\* When requests of a group do not overlap, its sets pass the check only
\* with the minimum time between them, less the second that formatting may lose,
\* whatever calls fail: for annotations with any groups, for the zone tracker's
\* ConfigMap with one.  Minimum times are at least a second.
THEOREM ZonesStayApart ==
    ASSUME Serial, MapOfOneGroup, \A z \in Set : MinTime[z] >= Second
    PROVE  Spec => []ZonesApart
<1>1. Init => Alone /\ TimesInv
  <2>1. Init => DOMAIN granted = {} /\ \A r \in Req : req[r].pc = "idle"
    BY NoTimesType DEF Init, Idle
  <2>2. QED
    BY <2>1 DEF Alone, Active, TimesInv, Creating, SeenCurrent, Waited, StoredLate, ZonesApart
<1>2. TypeOK /\ Alone /\ TimesInv /\ [Next]_vars => Alone' /\ TimesInv'
  BY AloneStep, TimesStep
<1>3. TimesInv => ZonesApart
  BY DEF TimesInv
<1>4. QED
  BY <1>1, <1>2, <1>3, TypeCorrect, PTL DEF Spec
=============================================================================
