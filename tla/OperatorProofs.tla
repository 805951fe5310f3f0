--------------------------- MODULE OperatorProofs ---------------------------
(***************************************************************************)
(* At most one operator at a time, and requests are only routed to a       *)
(* process that serves them: for any number of pods, any bounds on faults  *)
(* and edits, and all durations that validate accepts.  What depends on    *)
(* more than validate asks for says so: LeadsInTime, StopsInTime.          *)
(***************************************************************************)
EXTENDS Operator, FiniteSetTheorems, TLAPS

TypeOK ==
    /\ op \in [Instance -> [step : Step, ready : BOOLEAN, cancelled : BOOLEAN,
                            event : {"none", "pending", "failed"}]]
    /\ label \in [Instance -> BOOLEAN]
    /\ probed \in [Instance -> BOOLEAN]

\* What runs before a process may be the leader.
Early == {"down", "boot", "standby"}

\* With election a process is past these steps only as the leader.
LeaderOnly == cfg.election => \A i \in Instance : op[i].step \notin Early => MayAct(i)

\* A process that is told to stop knows.
StopsKnown == \A i \in Instance : role[i] = "stopping" => op[i].cancelled

\* A process that is ready, or whose last probe succeeded, is past its start;
\* without election it has published itself.  What is left of a process that is gone
\* is the result of its last probe.
ReadyInTime ==
    \A i \in Instance :
        /\ op[i].ready => op[i].step # "down"
        /\ op[i].ready \/ probed[i] => /\ op[i].step # "boot"
                                       /\ ~cfg.election => op[i].step \in {"down", "run"}

\* A pod carries the label from PublishLeader until the next process clears it.
LabelInTime ==
    cfg.election => \A i \in Instance : label[i] =>
        op[i].step \in {"down", "boot", "ready", "run"}

\* Only a process that has cleared its label takes part in the election.
RoleInTime ==
    \A i \in Instance : role[i] # "off" => cfg.election /\ op[i].step \notin {"down", "boot"}

ElectionInv == ElectionTypeOK /\ LeaseCovers

Inv == TypeOK /\ ElectionInv /\ LeaderOnly /\ RoleInTime /\ StopsKnown /\ ReadyInTime /\ LabelInTime

-----------------------------------------------------------------------------
(* The Lease.                                                              *)

LEMMA Durations ==
    /\ LeaseDuration \in Nat /\ RenewLimit \in Nat /\ Hold \in Nat
    /\ RenewLimit <= Hold /\ (StopsInTime => LeadsInTime)
    /\ (LeadsInTime => RenewLimit < LeaseDuration) /\ (StopsInTime => Hold < LeaseDuration)
BY FlagsAssumption DEF RenewLimit, Hold, LeadsInTime, StopsInTime

\* The Lease is free at first, and nobody acts.
LEMMA ElectionStarts == ElectionInit => ElectionInv
<1> SUFFICES ASSUME ElectionInit PROVE ElectionInv
  OBVIOUS
<1>1. ElectionTypeOK
  BY Durations DEF ElectionInit, ElectionTypeOK, Role
<1>2. LeaseCovers
  BY DEF ElectionInit, LeaseCovers, Covered, MayAct
<1> QED
  BY <1>1, <1>2 DEF ElectionInv

\* Every step of the election keeps a leader's Lease ahead of its expiry: a
\* candidate finds the Lease expired only when no leader is left that it covers, and
\* time passes only while those that act are within their limits.
LEMMA ElectionKeeps == ASSUME ElectionInv, ElectionNext PROVE ElectionInv'
<1> USE Durations
<1>1. ASSUME NEW i \in Instance, Join(i) \/ Leave(i) PROVE ElectionInv'
  BY <1>1 DEF ElectionInv, Join, Leave, Become, ElectionTypeOK, LeaseCovers, Covered, MayAct, Role
<1>2. ASSUME NEW i \in Instance, TryAcquire(i) PROVE ElectionInv'
  <2>1. ASSUME NEW j \in Instance, Covered(j) PROVE FALSE
    <3>1. lease.age <= since[j] /\ since[j] <= (IF role[j] = "leading" THEN RenewLimit ELSE Hold)
      BY <2>1 DEF ElectionInv, LeaseCovers, Covered, MayAct
    <3>2. lease.age = LeaseDuration /\ since[j] \in Nat
      BY <1>2 DEF ElectionInv, TryAcquire, ElectionTypeOK
    <3> QED
      BY <2>1, <3>1, <3>2 DEF Covered, MayAct
  <2>2. /\ role' = [role EXCEPT ![i] = "leading"] /\ since' = [since EXCEPT ![i] = 0]
        /\ lease' = [holder |-> i, age |-> 0]
    BY <1>2 DEF TryAcquire, Become
  <2>3. ElectionTypeOK'
    BY <2>2 DEF ElectionInv, ElectionTypeOK, Role
  <2>4. \A j \in Instance : Covered(j)' => j = i
    BY <2>1, <2>2 DEF ElectionInv, ElectionTypeOK, Covered, MayAct
  <2>5. LeaseCovers'
    BY <2>2, <2>4 DEF ElectionInv, ElectionTypeOK, LeaseCovers, MayAct
  <2> QED
    BY <2>3, <2>5 DEF ElectionInv
<1>3. ASSUME NEW i \in Instance, Renew(i) PROVE ElectionInv'
  <2>1. \A j \in Instance : Covered(j) => j = i
    BY <1>3 DEF ElectionInv, Renew, LeaseCovers
  <2> QED
    BY <1>3, <2>1 DEF ElectionInv, Renew, ElectionTypeOK, LeaseCovers, Covered, MayAct, Role
<1>4. ASSUME NEW i \in Instance, Cease(i) PROVE ElectionInv'
  BY <1>4 DEF ElectionInv, Cease, Become, ElectionTypeOK, LeaseCovers, Covered, MayAct, Role
<1>5. ASSUME Tick PROVE ElectionInv'
  <2>1. LeaseCovers'
    BY <1>5 DEF ElectionInv, Tick, ElectionTypeOK, LeaseCovers, Covered, MayAct, Role
  <2>2. \A i \in Instance : MayAct(i) => since[i] + 1 \in 0..Hold
    BY <1>5 DEF ElectionInv, Tick, ElectionTypeOK, MayAct, Role
  <2>3. ElectionTypeOK'
    BY <1>5, <2>2 DEF ElectionInv, Tick, ElectionTypeOK, MayAct
  <2> QED
    BY <2>1, <2>3 DEF ElectionInv
<1> QED
  BY <1>1, <1>2, <1>3, <1>4, <1>5 DEF ElectionNext

LEMMA ElectionStutters == ASSUME ElectionInv, UNCHANGED electionVars PROVE ElectionInv'
BY DEF ElectionInv, electionVars, ElectionTypeOK, LeaseCovers, Covered, MayAct

\* A Lease has one holder.
LEMMA OneHolder == ElectionInv => OneLeader
BY DEF ElectionInv, LeaseCovers, Covered, MayAct, OneLeader

\* The election by itself, whatever the processes do between its steps and for all
\* flags that validate accepts: where leaders give up before the Lease expires, as
\* with the default flags, two processes never lead at once; where they also stop
\* before it does, two processes never act as the leader at once.
THEOREM ElectionSafe == ElectionSpec => []OneLeader
<1>1. ElectionInv /\ [ElectionNext]_electionVars => ElectionInv'
  BY ElectionKeeps, ElectionStutters
<1> QED
  BY ElectionStarts, <1>1, OneHolder, PTL DEF ElectionSpec

-----------------------------------------------------------------------------
(* The processes.                                                          *)

\* A process exits: it leaves the election, if there is one.
LEMMA GoneElects ==
    ASSUME NEW i \in Instance, Gone(i) PROVE ElectionNext \/ UNCHANGED electionVars
BY DEF Gone, ElectionNext

\* Whatever a process does is a step of the election, or none.
LEMMA EveryStepElects == Next => ElectionNext \/ UNCHANGED electionVars
<1>1. ASSUME NEW i \in Instance,
             Start(i) \/ StartServing(i) \/ PublishLeader(i) \/ BecomeReady(i)
               \/ onWebHookConfigurationObserved(i) \/ Probe(i)
      PROVE  UNCHANGED electionVars
  BY <1>1 DEF Start, StartServing, PublishLeader, BecomeReady,
              onWebHookConfigurationObserved, Probe
<1>2. ASSUME NEW i \in Instance, runWithLeaderElection(i) PROVE ElectionNext \/ UNCHANGED electionVars
  BY <1>2 DEF runWithLeaderElection, ElectionNext
<1>3. ASSUME NEW i \in Instance,
             Certificate(i) \/ updateCertificateSecret(i) \/ createCertificateSecret(i)
               \/ rereadCertificateSecret(i) \/ checkAndWatchCertificate(i)
      PROVE  ElectionNext \/ UNCHANGED electionVars
  BY <1>3, GoneElects DEF Certificate, updateCertificateSecret, createCertificateSecret,
       rereadCertificateSecret, checkAndWatchCertificate, Store
<1>4. ASSUME NEW i \in Instance, OnStartedLeading(i) \/ RenewLease(i) PROVE ElectionNext
  BY <1>4 DEF OnStartedLeading, RenewLease, ElectionNext
<1>5. ASSUME NEW i \in Instance, LeaseLost(i) \/ Exit(i) \/ Fatal(i)
      PROVE  ElectionNext \/ UNCHANGED electionVars
  BY <1>5, GoneElects DEF LeaseLost, Exit, Fatal
<1>6. ASSUME NEW i \in Instance, ExpiryTimer(i) \/ Terminate(i)
      PROVE  ElectionNext \/ UNCHANGED electionVars
  BY <1>6 DEF ExpiryTimer, Terminate, Cancel, ElectionNext
<1>7. ASSUME Time PROVE ElectionNext
  BY <1>7 DEF Time, ElectionNext
<1>8. ASSUME DeleteSecret \/ ApplyWebhook \/ \E c \in Cert : Expire(c) PROVE UNCHANGED electionVars
  BY <1>8 DEF DeleteSecret, ApplyWebhook, Expire
<1> QED
  BY <1>1, <1>2, <1>3, <1>4, <1>5, <1>6, <1>7, <1>8 DEF Next, runOperator, maybeStartTLSServer

\* What the processes' part of the invariant says of one of them.
Orderly(i) ==
    /\ cfg.election /\ op[i].step \notin Early => MayAct(i)
    /\ role[i] # "off" => cfg.election /\ op[i].step \notin {"down", "boot"}
    /\ role[i] = "stopping" => op[i].cancelled
    /\ op[i].ready => op[i].step # "down"
    /\ op[i].ready \/ probed[i] => /\ op[i].step # "boot"
                                   /\ ~cfg.election => op[i].step \in {"down", "run"}
    /\ cfg.election /\ label[i] => op[i].step \in {"down", "boot", "ready", "run"}

ProcessInv == TypeOK /\ \A i \in Instance : Orderly(i)

LEMMA InvSplits == Inv <=> ElectionInv /\ ProcessInv
BY DEF Inv, ProcessInv, Orderly, LeaderOnly, RoleInTime, StopsKnown, ReadyInTime, LabelInTime

Process == [step : Step, ready : BOOLEAN, cancelled : BOOLEAN, event : {"none", "pending", "failed"}]

LEMMA StepTyped ==
    ASSUME NEW o \in [Instance -> Process], NEW i \in Instance, NEW s \in Step, NEW b \in BOOLEAN
    PROVE  /\ [o EXCEPT ![i].step = s] \in [Instance -> Process]
           /\ [o EXCEPT ![i].step = s, ![i].ready = b] \in [Instance -> Process]
<1>1. o[i] \in Process
  OBVIOUS
<1>2. [o[i] EXCEPT !.step = s] \in Process /\ [o[i] EXCEPT !.step = s, !.ready = b] \in Process
  BY <1>1 DEF Process
<1>3. QED
  BY <1>2

\* A process that exits leaves nothing behind but the label and its last probe.
LEMMA GoneKeeps ==
    ASSUME ElectionInv, ProcessInv, NEW i \in Instance, Gone(i), UNCHANGED cfg,
           label' = label \/ label' = [label EXCEPT ![i] = FALSE]
    PROVE  ProcessInv'
<1>1. TypeOK'
  BY DEF ProcessInv, TypeOK, Gone, Down, Step
<1>2. op'[i] = Down /\ probed'[i] = probed[i]
  BY DEF ProcessInv, TypeOK, Gone
<1>3. Orderly(i)'
  <2>1. role'[i] = "off"
    BY DEF ElectionInv, ElectionTypeOK, ProcessInv, Orderly, Gone, Leave, Become, electionVars
  <2> QED
    BY <1>2, <2>1 DEF Orderly, Down, Early
<1>4. ASSUME NEW j \in Instance, j # i PROVE Orderly(j)'
  <2>1. op'[j] = op[j] /\ probed'[j] = probed[j] /\ label'[j] = label[j]
    BY <1>4 DEF ProcessInv, TypeOK, Gone
  <2>2. role'[j] = role[j]
    BY <1>4 DEF ElectionInv, ElectionTypeOK, Gone, Leave, Become, electionVars
  <2> QED
    BY <2>1, <2>2, <1>4 DEF ProcessInv, Orderly, MayAct
<1> QED
  BY <1>1, <1>3, <1>4 DEF ProcessInv

\* A step of process i that leaves the others, and the election, alone.
LEMMA AlonePreserves ==
    ASSUME ProcessInv, TypeOK', NEW i \in Instance, Orderly(i)', UNCHANGED <<cfg, role>>,
           \A j \in Instance \ {i} : /\ op'[j].step = op[j].step /\ op'[j].ready = op[j].ready
                                     /\ op'[j].cancelled = op[j].cancelled
                                     /\ probed'[j] = probed[j] /\ label'[j] = label[j]
    PROVE  ProcessInv'
<1>1. ASSUME NEW j \in Instance, j # i PROVE Orderly(j)'
  BY <1>1 DEF ProcessInv, Orderly, MayAct
<1> QED
  BY <1>1 DEF ProcessInv

\* The steps of runOperator are those of the leader, and come in this order.
LEMMA RunOperatorKeeps ==
    ASSUME ElectionInv, ProcessInv, NEW i \in Instance, runOperator(i) PROVE ProcessInv'
<1> USE DEF ProcessInv
<1>1. CASE StartServing(i) \/ BecomeReady(i)
  <2>1. TypeOK'
    BY <1>1 DEF StartServing, BecomeReady, Goto, TypeOK, Step
  <2>2. Orderly(i)'
    BY <1>1 DEF StartServing, BecomeReady, Goto, TypeOK, Orderly, Early, MayAct, electionVars
  <2> QED
    BY <1>1, <2>1, <2>2, AlonePreserves DEF StartServing, BecomeReady, Goto, TypeOK, electionVars
<1>2. CASE PublishLeader(i)
  <2>1. TypeOK'
    BY <1>2 DEF PublishLeader, Goto, TypeOK, Step
  <2>2. Orderly(i)'
    BY <1>2 DEF PublishLeader, Goto, TypeOK, Orderly, Early, MayAct, electionVars
  <2> QED
    BY <1>2, <2>1, <2>2, AlonePreserves DEF PublishLeader, Goto, TypeOK, electionVars
<1>3. CASE Certificate(i) \/ updateCertificateSecret(i) \/ createCertificateSecret(i)
             \/ rereadCertificateSecret(i) \/ checkAndWatchCertificate(i)
  <2>1. CASE Gone(i)
    BY <1>3, <2>1, GoneKeeps DEF Certificate, updateCertificateSecret, createCertificateSecret,
       rereadCertificateSecret, checkAndWatchCertificate, Store
  <2>2. CASE ~Gone(i)
    <3>1. /\ op[i].step \in {"start", "update", "create", "reread", "observe"}
          /\ \/ \E s \in {"update", "create", "observe", "reread"} : Goto(i, s)
             \/ StartObserver(i)
          /\ UNCHANGED <<cfg, role, label, probed>>
      BY <1>3, <2>2 DEF Certificate, updateCertificateSecret, createCertificateSecret, rereadCertificateSecret,
         checkAndWatchCertificate, Store, Obtain, electionVars
    <3>2. TypeOK'
      BY <3>1 DEF Goto, StartObserver, TypeOK, Step
    <3>3. Orderly(i)'
      BY <3>1 DEF Goto, StartObserver, TypeOK, Orderly, Early, MayAct
    <3> QED
      BY <3>1, <3>2, <3>3, AlonePreserves DEF Goto, StartObserver, TypeOK
  <2> QED
    BY <2>1, <2>2
<1> QED
  BY <1>1, <1>2, <1>3 DEF runOperator, maybeStartTLSServer

\* The steps around runOperator: the label is cleared before a standby is
\* ready, and a new leader is not ready until it has been published.
LEMMA ProcessKeeps == ASSUME ElectionInv, ProcessInv, Next PROVE ProcessInv'
<1> USE DEF ProcessInv
<1>1. ASSUME NEW i \in Instance, Start(i) PROVE ProcessInv'
  <2>1. TypeOK'
    <3>1. op' \in [Instance -> Process]
      BY <1>1, StepTyped DEF Start, Goto, TypeOK, Process, Step
    <3>2. label' \in [Instance -> BOOLEAN] /\ probed' \in [Instance -> BOOLEAN]
      <4>1. PICK l \in {FALSE, label[i]} : label' = [label EXCEPT ![i] = l]
        BY <1>1, Zenon DEF Start
      <4>2. l \in BOOLEAN
        BY <4>1 DEF TypeOK
      <4> QED
        BY <1>1, <4>1, <4>2 DEF Start, TypeOK
    <3> QED
      BY <3>1, <3>2 DEF TypeOK, Process
  <2>2. Orderly(i)'
    BY <1>1 DEF Start, Goto, TypeOK, Orderly, Early, electionVars
  <2> QED
    BY <1>1, <2>1, <2>2, AlonePreserves DEF Start, Goto, TypeOK, electionVars
<1>2. ASSUME NEW i \in Instance, runWithLeaderElection(i) PROVE ProcessInv'
  <2>1. TypeOK'
    <3>1. CASE cfg.election
      <4>1. /\ op' = [op EXCEPT ![i].step = "standby", ![i].ready = TRUE]
            /\ label' = [label EXCEPT ![i] = FALSE]
            /\ probed' = probed
        BY <1>2, <3>1 DEF runWithLeaderElection
      <4> QED
        BY <4>1 DEF TypeOK, Step
    <3>2. CASE ~cfg.election
      BY <1>2, <3>2 DEF runWithLeaderElection, Goto, TypeOK, Step
    <3> QED
      BY <3>1, <3>2
  <2>2. Orderly(i)'
    BY <1>2 DEF runWithLeaderElection, Goto, TypeOK, Orderly, Early, electionVars, MayAct
  <2>3. ASSUME NEW j \in Instance, j # i PROVE Orderly(j)'
    BY <1>2, <2>3 DEF runWithLeaderElection, Join, Become, Goto, TypeOK, Orderly, electionVars, MayAct,
                      ElectionInv, ElectionTypeOK
  <2> QED
    BY <2>1, <2>2, <2>3
<1>3. ASSUME NEW i \in Instance, OnStartedLeading(i) PROVE ProcessInv'
  <2>1. TypeOK'
    <3>1. op' \in [Instance -> Process]
      BY <1>3, StepTyped DEF OnStartedLeading, TypeOK, Process, Step
    <3> QED
      BY <1>3, <3>1 DEF OnStartedLeading, TypeOK, Process
  <2>2. Orderly(i)'
    BY <1>3 DEF OnStartedLeading, TryAcquire, Become, TypeOK, Orderly, Early, MayAct,
                ElectionInv, ElectionTypeOK
  <2>3. ASSUME NEW j \in Instance, j # i PROVE Orderly(j)'
    BY <1>3, <2>3 DEF OnStartedLeading, TryAcquire, Become, TypeOK, Orderly, MayAct,
                      ElectionInv, ElectionTypeOK
  <2> QED
    BY <2>1, <2>2, <2>3
<1>4. ASSUME NEW i \in Instance, LeaseLost(i) \/ Exit(i) \/ Fatal(i) PROVE ProcessInv'
  <2>1. Gone(i) /\ UNCHANGED cfg /\ (label' = label \/ label' = [label EXCEPT ![i] = FALSE])
    BY <1>4 DEF LeaseLost, Exit, Fatal, TypeOK
  <2> QED
    BY <2>1, GoneKeeps
<1>5. ASSUME NEW i \in Instance, ExpiryTimer(i) \/ Terminate(i) PROVE ProcessInv'
  <2>1. Cancel(i)
    BY <1>5 DEF ExpiryTimer, Terminate
  <2>2. TypeOK'
    BY <2>1 DEF Cancel, TypeOK
  <2>3. \A j \in Instance : /\ MayAct(j) => MayAct(j)'
                            /\ role'[j] # "off" => role[j] # "off"
                            /\ role'[j] = "stopping" => j = i \/ role[j] = "stopping"
    BY <2>1 DEF Cancel, Cease, Become, MayAct, electionVars, ElectionInv, ElectionTypeOK
  <2>4. ASSUME NEW j \in Instance PROVE Orderly(j)'
    BY <2>1, <2>3 DEF Cancel, TypeOK, Orderly
  <2> QED
    BY <2>2, <2>4
<1>6. ASSUME ApplyWebhook \/ \E i \in Instance : onWebHookConfigurationObserved(i) PROVE ProcessInv'
  <2>1. UNCHANGED <<cfg, role, label, probed>>
    BY <1>6 DEF ApplyWebhook, onWebHookConfigurationObserved, electionVars
  <2>2. op' \in [Instance -> [step : Step, ready : BOOLEAN, cancelled : BOOLEAN,
                             event : {"none", "pending", "failed"}]]
        /\ \A j \in Instance : /\ op'[j].step = op[j].step /\ op'[j].ready = op[j].ready
                               /\ op'[j].cancelled = op[j].cancelled
    <3>1. CASE ApplyWebhook
      BY <3>1 DEF ApplyWebhook, Changed, TypeOK
    <3>2. ASSUME NEW i \in Instance, onWebHookConfigurationObserved(i) PROVE <2>2!1 /\ <2>2!2
      <4>1. PICK e \in {"none", "failed"} :
              \/ op' = [op EXCEPT ![i].event = e]
              \/ Changed(cert[i], [op EXCEPT ![i].event = e])
        BY <3>2 DEF onWebHookConfigurationObserved, PatchCABundle
      <4>2. CASE op' = [op EXCEPT ![i].event = e]
        BY <4>2 DEF TypeOK
      <4>3. CASE Changed(cert[i], [op EXCEPT ![i].event = e])
        BY <4>3 DEF Changed, TypeOK
      <4> QED
        BY <4>1, <4>2, <4>3
    <3> QED
      BY <1>6, <3>1, <3>2
  <2> QED
    BY <2>1, <2>2 DEF TypeOK, Orderly, MayAct
<1>7. ASSUME NEW i \in Instance, Probe(i) PROVE ProcessInv'
  <2>1. TypeOK'
    BY <1>7 DEF Probe, TypeOK
  <2>2. Orderly(i)'
    BY <1>7 DEF Probe, TypeOK, Orderly, MayAct, electionVars
  <2> QED
    BY <1>7, <2>1, <2>2, AlonePreserves DEF Probe, TypeOK, electionVars
<1>8. ASSUME \/ Time \/ DeleteSecret
             \/ \E i \in Instance : RenewLease(i)
             \/ \E c \in Cert : Expire(c)
      PROVE  ProcessInv'
  <2>1. UNCHANGED <<cfg, role, op, label, probed>>
    BY <1>8 DEF Time, Tick, DeleteSecret, RenewLease, Renew, Expire, electionVars, processVars
  <2> QED
    BY <2>1 DEF TypeOK, Orderly, MayAct
<1> QED
  BY <1>1, <1>2, <1>3, <1>4, <1>5, <1>6, <1>7, <1>8, RunOperatorKeeps DEF Next

\* The invariant holds of every behaviour.
THEOREM OperatorInvariant == Spec => []Inv
<1>1. Init => Inv
  <2> SUFFICES ASSUME Init PROVE ElectionInv /\ ProcessInv
    BY InvSplits
  <2>1. ElectionInv
    BY ElectionStarts DEF Init
  <2>2. ProcessInv
    BY DEF Init, ElectionInit, ProcessInv, TypeOK, Orderly, Down, Step, Early
  <2> QED
    BY <2>1, <2>2
<1>2. Inv /\ [Next]_vars => Inv'
  <2> SUFFICES ASSUME ElectionInv, ProcessInv, [Next]_vars PROVE ElectionInv' /\ ProcessInv'
    BY DEF Inv, ProcessInv, Orderly, LeaderOnly, RoleInTime, StopsKnown, ReadyInTime, LabelInTime
  <2>1. CASE Next
    BY <2>1, EveryStepElects, ElectionKeeps, ElectionStutters, ProcessKeeps
  <2>2. CASE UNCHANGED vars
    BY <2>2, ElectionStutters DEF vars, processVars, electionVars, ProcessInv, TypeOK, Orderly, MayAct
  <2> QED
    BY <2>1, <2>2
<1> QED
  BY <1>1, <1>2, PTL DEF Spec

\* README: only the leader runs controllers and admission webhooks.  For all flags
\* that validate accepts: where leaders give up before the Lease expires, as with the
\* default flags, one of two processes that are past runOperator's start has been told
\* to stop; where they also stop before it does, there are no two.
THEOREM OneOperatorAtATime == Spec => []OneOperator
<1>1. Inv => OneOperator
  BY OneHolder DEF Inv, LeaderOnly, StopsKnown, OneLeader, OneOperator, AtWork, Early
<1> QED
  BY <1>1, OperatorInvariant, PTL

\* The webhook Service routes to no process but one whose TLS server and caches are
\* up, whatever an earlier process of the pod left behind.
THEOREM RoutedProcessServes == Spec => []RoutedServes
<1>1. Inv => RoutedServes
  BY DEF Inv, TypeOK, ReadyInTime, LabelInTime, RoutedServes, Routed, Serving
<1> QED
  BY <1>1, OperatorInvariant, PTL

-----------------------------------------------------------------------------
(* The Secret.                                                             *)

\* Deployments whose processes cannot replace each other's certificate: only one
\* of them gets as far as the Secret, or no certificate that they find is invalid.
Single(c) == (c.election /\ StopsInTime) \/ \A i, j \in c.up : i = j
Lasting(c) == c.expiries = 0 /\ c.secrets \subseteq Cert \cup {NoCert}

\* A process exists only in a pod that does.
RunsInPod == \A i \in Instance : op[i].step # "down" => i \in cfg.up

\* A process that is about to update the Secret has found it without a valid
\* certificate, and nobody else can have put one there since.
StillInvalid ==
    Single(cfg) => \A i \in Instance : op[i].step = "update" => ~containsValidCertificate(secret)

\* A Secret with a certificate is always found valid.
NeverInvalid ==
    Lasting(cfg) => /\ expired = {} /\ secret \in Cert \cup {NoCert}
                    /\ \A i \in Instance : op[i].step # "update"
                    /\ "expiries" \in DOMAIN left /\ left.expiries = 0

SecretInv == RunsInPod /\ StillInvalid /\ NeverInvalid

\* Certificates in use are few, so that a new one can be generated.
LEMMA NewCertificate == Generated \in Cert
<1> DEFINE served == {cert[i] : i \in Instance}
<1>2. IsFiniteSet(served) /\ Cardinality(served) <= Cardinality(Instance)
  <2>1. [i \in Instance |-> cert[i]] \in Surjection(Instance, served)
    BY DEF Surjection
  <2> QED
    BY <2>1, FS_Surjection, SupplyAssumption
<1>3. IsFiniteSet({secret, bundle}) /\ Cardinality({secret, bundle}) <= 2
  <2>1. {secret, bundle} = {secret} \cup {bundle}
    OBVIOUS
  <2>2. IsFiniteSet({secret}) /\ Cardinality({secret}) = 1
    BY FS_Singleton
  <2> QED
    BY <2>1, <2>2, FS_AddElement
<1> HIDE DEF served
<1>4. IsFiniteSet(InUse) /\ Cardinality(InUse) <= Cardinality(Instance) + 2
  <2>1. /\ IsFiniteSet({secret, bundle} \cup served)
        /\ Cardinality({secret, bundle} \cup served)
             = Cardinality({secret, bundle}) + Cardinality(served) - Cardinality({secret, bundle} \cap served)
    BY <1>2, <1>3, FS_Union
  <2>2. InUse = {secret, bundle} \cup served
    BY DEF InUse, served
  <2>3. IsFiniteSet({secret, bundle} \cap served)
    BY <1>2, <1>3, FS_Intersection
  <2>4. /\ Cardinality({secret, bundle}) \in Nat /\ Cardinality(served) \in Nat
        /\ Cardinality({secret, bundle} \cap served) \in Nat /\ Cardinality(Instance) \in Nat
    BY <1>2, <1>3, <2>3, SupplyAssumption, FS_CardinalityType
  <2> QED
    BY <1>2, <1>3, <2>1, <2>2, <2>4
<1>5. ~(Cert \subseteq InUse)
  <2> SUFFICES ASSUME Cert \subseteq InUse PROVE FALSE
    OBVIOUS
  <2>1. IsFiniteSet(Cert) /\ Cardinality(Cert) <= Cardinality(InUse)
    BY <1>4, FS_Subset
  <2>2. Cardinality(Cert) \in Nat /\ Cardinality(InUse) \in Nat /\ Cardinality(Instance) \in Nat
    BY <1>4, <2>1, SupplyAssumption, FS_CardinalityType
  <2> QED
    BY <1>4, <2>1, <2>2, SupplyAssumption
<1> QED
  BY <1>5 DEF Generated

\* A step other than Store leaves the Secret as it is, or deletes it, and makes
\* no certificate valid.
SecretRests ==
    /\ secret' = secret \/ DeleteSecret
    /\ \/ expired' = expired
       \/ (\E c \in Cert : Expire(c)) /\ expired \subseteq expired'

\* Process i stores a new certificate, having found none, or none just now.
Stores(i) == (op[i].step = "update" \/ secret = NoCert) /\ op[i].step \in {"update", "create"} /\ Store(i)

LEMMA SecretSteps ==
    ASSUME Next
    PROVE  SecretRests \/ \E i \in Instance : Stores(i)
<1>1. ASSUME NEW i \in Instance, runOperator(i)
      PROVE  Stores(i) \/ UNCHANGED <<secret, expired>>
  BY <1>1 DEF Stores, runOperator, maybeStartTLSServer, Certificate, updateCertificateSecret,
     createCertificateSecret, rereadCertificateSecret, checkAndWatchCertificate, StartServing,
     PublishLeader, BecomeReady, certVars
<1>2. ASSUME NEW i \in Instance,
             \/ Start(i) \/ runWithLeaderElection(i) \/ OnStartedLeading(i) \/ RenewLease(i)
             \/ LeaseLost(i) \/ onWebHookConfigurationObserved(i) \/ ExpiryTimer(i)
             \/ Terminate(i) \/ Exit(i) \/ Fatal(i) \/ Probe(i)
      PROVE  UNCHANGED <<secret, expired>>
  BY <1>2 DEF Start, runWithLeaderElection, OnStartedLeading, RenewLease, LeaseLost,
     onWebHookConfigurationObserved, ExpiryTimer, Terminate, Cancel, Exit, Fatal, Probe, certVars
<1>3. ASSUME Time \/ ApplyWebhook PROVE UNCHANGED <<secret, expired>>
  BY <1>3 DEF Time, ApplyWebhook, certVars
<1>4. ASSUME DeleteSecret \/ \E c \in Cert : Expire(c) PROVE SecretRests
  BY <1>4 DEF DeleteSecret, Expire, SecretRests
<1> QED
  BY <1>1, <1>2, <1>3, <1>4 DEF Next, SecretRests

\* Where a process gets by one step: up in a pod that exists, to an update only by
\* finding the Secret invalid.
Moved(i) ==
    \/ op'[i].step \in {op[i].step, "down"}
    \/ op'[i].step = "boot" /\ i \in cfg.up
    \/ /\ op'[i].step = "update" /\ op[i].step = "start"
       /\ secret # NoCert /\ ~containsValidCertificate(secret) /\ UNCHANGED <<secret, expired>>
    \/ op'[i].step # "update" /\ op[i].step # "down"

LEMMA Moves == ASSUME Inv, Next, NEW i \in Instance PROVE Moved(i)
<1> USE DEF Inv, TypeOK
<1>1. ASSUME NEW j \in Instance, Gone(j) PROVE Moved(i)
  BY <1>1 DEF Gone, Down, Moved
<1>2. ASSUME NEW j \in Instance, Certificate(j) PROVE Moved(i)
  BY <1>1, <1>2 DEF Certificate, Obtain, Goto, certVars, Moved
<1>3. ASSUME NEW j \in Instance, NEW s \in Step \ {"update"}, Goto(j, s), op[j].step # "down" PROVE Moved(i)
  BY <1>3 DEF Goto, Moved
<1>4. ASSUME NEW j \in Instance, Start(j) PROVE Moved(i)
  BY <1>4 DEF Start, Goto, Moved
<1>5. ASSUME NEW j \in Instance, StartServing(j) \/ PublishLeader(j) PROVE Moved(i)
  BY <1>3, <1>5 DEF StartServing, PublishLeader, Step
<1>6. ASSUME NEW j \in Instance, updateCertificateSecret(j) \/ createCertificateSecret(j)
               \/ rereadCertificateSecret(j) \/ checkAndWatchCertificate(j)
      PROVE  Moved(i)
  <2>1. /\ Gone(j) \/ Goto(j, "observe") \/ Goto(j, "reread") \/ StartObserver(j)
        /\ op[j].step # "down"
    BY <1>6 DEF updateCertificateSecret, createCertificateSecret, rereadCertificateSecret,
       checkAndWatchCertificate, Store, Obtain
  <2>2. CASE StartObserver(j)
    BY <2>1, <2>2 DEF StartObserver, Moved
  <2> QED
    BY <2>1, <2>2, <1>1, <1>3 DEF Step
<1>7. ASSUME NEW j \in Instance, LeaseLost(j) \/ Exit(j) \/ Fatal(j) PROVE Moved(i)
  BY <1>1, <1>7 DEF LeaseLost, Exit, Fatal
<1>8. ASSUME NEW j \in Instance, runWithLeaderElection(j) PROVE Moved(i)
  <2>1. /\ Goto(j, "start") \/ op' = [op EXCEPT ![j].step = "standby", ![j].ready = TRUE]
        /\ op[j].step # "down"
    BY <1>8 DEF runWithLeaderElection
  <2>2. CASE op' = [op EXCEPT ![j].step = "standby", ![j].ready = TRUE]
    BY <2>1, <2>2 DEF Moved
  <2> QED
    BY <2>1, <2>2, <1>3 DEF Step
<1>9. ASSUME NEW j \in Instance, OnStartedLeading(j) PROVE Moved(i)
  <2>1. op[j].step # "down"
    BY <1>9 DEF OnStartedLeading, TryAcquire, RoleInTime
  <2> QED
    BY <1>9, <2>1 DEF OnStartedLeading, Moved
<1>10. ASSUME NEW j \in Instance, BecomeReady(j) PROVE Moved(i)
  BY <1>10 DEF BecomeReady, Moved
<1>11. ASSUME NEW j \in Instance, ExpiryTimer(j) \/ Terminate(j) PROVE Moved(i)
  <2>1. Cancel(j)
    BY <1>11 DEF ExpiryTimer, Terminate
  <2> QED
    BY <2>1 DEF Cancel, Moved
<1>12. ASSUME ApplyWebhook \/ \E j \in Instance : onWebHookConfigurationObserved(j) PROVE Moved(i)
  <2>1. ASSUME NEW b, NEW p \in [Instance -> [step : Step, ready : BOOLEAN, cancelled : BOOLEAN,
                                  event : {"none", "pending", "failed"}]],
               p[i].step = op[i].step, Changed(b, p)
        PROVE  Moved(i)
    BY <2>1 DEF Changed, Moved
  <2>2. CASE ApplyWebhook
    BY <2>1, <2>2 DEF ApplyWebhook
  <2>3. ASSUME NEW j \in Instance, onWebHookConfigurationObserved(j) PROVE Moved(i)
    <3>1. PICK e \in {"none", "failed"} :
            \/ op' = [op EXCEPT ![j].event = e]
            \/ Changed(cert[j], [op EXCEPT ![j].event = e])
      BY <2>3 DEF onWebHookConfigurationObserved, PatchCABundle
    <3>2. CASE op' = [op EXCEPT ![j].event = e]
      BY <3>2 DEF Moved
    <3>3. CASE Changed(cert[j], [op EXCEPT ![j].event = e])
      BY <2>1, <3>3
    <3> QED
      BY <3>1, <3>2, <3>3
  <2> QED
    BY <1>12, <2>2, <2>3
<1>13. ASSUME \/ Time \/ DeleteSecret
              \/ \E j \in Instance : RenewLease(j) \/ Probe(j)
              \/ \E c \in Cert : Expire(c)
       PROVE  Moved(i)
  BY <1>13 DEF Time, DeleteSecret, RenewLease, Probe, Expire, processVars, Moved
<1> QED
  BY <1>2, <1>4, <1>5, <1>6, <1>7, <1>8, <1>9, <1>10, <1>11, <1>12, <1>13
     DEF Next, runOperator, maybeStartTLSServer

LEMMA ConfigFixed == Next => UNCHANGED cfg
BY DEF Next, Start, runWithLeaderElection, runOperator, maybeStartTLSServer, Certificate, Store,
   updateCertificateSecret, createCertificateSecret, rereadCertificateSecret,
   checkAndWatchCertificate, StartServing, PublishLeader, BecomeReady, OnStartedLeading, RenewLease,
   LeaseLost, onWebHookConfigurationObserved, ExpiryTimer, Terminate, Cancel, Exit, Fatal, Probe,
   Time, Expire, DeleteSecret, ApplyWebhook

\* Certificates that do not expire do not begin to.
LEMMA NoExpiry ==
    ASSUME Next, "expiries" \in DOMAIN left, left.expiries = 0
    PROVE  "expiries" \in DOMAIN left' /\ left'.expiries = 0 /\ ~\E c \in Cert : Expire(c)
<1>1. ASSUME NEW what \in {"faults", "stops", "edits", "unpatched"}, Spend(what)
      PROVE  "expiries" \in DOMAIN left' /\ left'.expiries = 0
  BY <1>1 DEF Spend
<1>2. ~Spend("expiries")
  BY DEF Spend
<1>3. ~\E c \in Cert : Expire(c)
  BY <1>2 DEF Expire
<1>4. UNCHANGED left \/ \E what \in {"faults", "stops", "edits", "unpatched"} : Spend(what)
  <2>1. ASSUME NEW i \in Instance,
               \/ runOperator(i) \/ Start(i) \/ runWithLeaderElection(i) \/ OnStartedLeading(i) \/ RenewLease(i)
               \/ ExpiryTimer(i) \/ Exit(i) \/ Probe(i)
        PROVE  UNCHANGED left
    BY <2>1 DEF runOperator, maybeStartTLSServer, Certificate, updateCertificateSecret, Store,
       createCertificateSecret, rereadCertificateSecret, checkAndWatchCertificate, StartServing,
       PublishLeader, BecomeReady, Start, runWithLeaderElection, OnStartedLeading, RenewLease,
       ExpiryTimer, Exit, Probe
  <2>2. ASSUME NEW i \in Instance, LeaseLost(i) \/ Terminate(i) \/ Fatal(i)
        PROVE  Spend("faults") \/ Spend("stops")
    BY <2>2 DEF LeaseLost, Terminate, Fatal
  <2>3. ASSUME NEW i \in Instance, onWebHookConfigurationObserved(i) PROVE UNCHANGED left \/ Spend("unpatched")
    BY <2>3 DEF onWebHookConfigurationObserved, PatchCABundle
  <2>4. ASSUME Time PROVE UNCHANGED left
    BY <2>4 DEF Time
  <2>5. ASSUME DeleteSecret \/ ApplyWebhook PROVE Spend("edits")
    BY <2>5 DEF DeleteSecret, ApplyWebhook
  <2> QED
    BY <1>3, <2>1, <2>2, <2>3, <2>4, <2>5 DEF Next
<1> QED
  BY <1>1, <1>3, <1>4

\* One process at a time gets to the Secret: the leader, or that of the only pod.
LEMMA OneAtWork ==
    ASSUME Inv, RunsInPod, Single(cfg), NEW i \in Instance, NEW j \in Instance,
           op[i].step \notin Early, op[j].step \notin Early
    PROVE  i = j
<1>1. CASE cfg.election /\ StopsInTime
  BY <1>1, OneHolder, Durations DEF Inv, LeaderOnly, OneLeader
<1>2. CASE ~(cfg.election /\ StopsInTime)
  BY <1>2 DEF Single, RunsInPod, Early
<1> QED
  BY <1>1, <1>2

\* Nobody writes a certificate between a process's read and its update.
LEMMA StaysInvalid ==
    ASSUME Inv, RunsInPod, StillInvalid, Next, UNCHANGED cfg PROVE StillInvalid'
<1> SUFFICES ASSUME Single(cfg), NEW i \in Instance, op'[i].step = "update"
             PROVE  ~containsValidCertificate(secret)'
  BY DEF StillInvalid, Single
<1>1. CASE op[i].step # "update"
  BY <1>1, Moves DEF Moved, containsValidCertificate
<1>2. CASE op[i].step = "update"
  <2>1. ASSUME NEW j \in Instance, Stores(j) PROVE FALSE
    <3>1. i = j
      BY <1>2, <2>1, OneAtWork DEF Stores, Early
    <3> QED
      BY <2>1, <3>1 DEF Stores, Store, Obtain, Goto, Inv, TypeOK
  <2>2. SecretRests
    BY <2>1, SecretSteps
  <2> QED
    BY <1>2, <2>2, CertAssumption DEF SecretRests, DeleteSecret, StillInvalid, containsValidCertificate
<1> QED
  BY <1>1, <1>2

\* While no certificate expires, what a process finds in the Secret is valid.
LEMMA StaysValid ==
    ASSUME Inv, NeverInvalid, Next, UNCHANGED cfg PROVE NeverInvalid'
<1> SUFFICES ASSUME Lasting(cfg)
             PROVE  /\ expired' = {} /\ secret' \in Cert \cup {NoCert}
                    /\ \A i \in Instance : op'[i].step # "update"
                    /\ "expiries" \in DOMAIN left' /\ left'.expiries = 0
  BY DEF NeverInvalid, Lasting
<1>1. /\ expired = {} /\ secret \in Cert \cup {NoCert}
      /\ \A i \in Instance : op[i].step # "update"
      /\ "expiries" \in DOMAIN left /\ left.expiries = 0
  BY DEF NeverInvalid
<1>2. "expiries" \in DOMAIN left' /\ left'.expiries = 0 /\ ~\E c \in Cert : Expire(c)
  BY <1>1, NoExpiry
<1>3. expired' = {} /\ secret' \in Cert \cup {NoCert}
  <2>1. CASE SecretRests
    BY <1>1, <1>2, <2>1 DEF SecretRests, DeleteSecret
  <2>2. ASSUME NEW i \in Instance, Stores(i) PROVE expired' = {} /\ secret' \in Cert \cup {NoCert}
    BY <1>1, <2>2, NewCertificate DEF Stores, Store
  <2> QED
    BY <2>1, <2>2, SecretSteps
<1>4. ASSUME NEW i \in Instance PROVE op'[i].step # "update"
  BY <1>1, Moves DEF Moved, containsValidCertificate
<1> QED
  BY <1>2, <1>3, <1>4

\* A process that goes on to updateCertificateSecret has found no valid certificate,
\* and there still is none, in every deployment where only one gets that far; where
\* certificates last, none goes on to it.
THEOREM SecretInvariant == Spec => []SecretInv
<1>1. Init => SecretInv
  <2> SUFFICES ASSUME Init PROVE SecretInv
    OBVIOUS
  <2>1. \A i \in Instance : op[i].step = "down"
    BY DEF Init, Down
  <2>2. "expiries" \in DOMAIN left /\ left.expiries = cfg.expiries
    BY DEF Init
  <2> QED
    BY <2>1, <2>2 DEF Init, SecretInv, RunsInPod, StillInvalid, NeverInvalid, Lasting
<1>2. Inv /\ SecretInv /\ [Next]_vars => SecretInv'
  <2> SUFFICES ASSUME Inv, SecretInv, [Next]_vars PROVE SecretInv'
    OBVIOUS
  <2>1. CASE UNCHANGED vars
    BY <2>1 DEF vars, processVars, certVars, SecretInv, RunsInPod, StillInvalid, NeverInvalid, Single, Lasting,
       containsValidCertificate
  <2>2. CASE Next
    <3>1. UNCHANGED cfg
      BY <2>2, ConfigFixed
    <3>2. RunsInPod'
      BY <2>2, <3>1, Moves DEF SecretInv, RunsInPod, Moved
    <3> QED
      BY <2>2, <3>1, <3>2, StaysInvalid, StaysValid DEF SecretInv
  <2> QED
    BY <2>1, <2>2
<1> QED
  BY <1>1, <1>2, OperatorInvariant, PTL DEF Spec

\* With leader election and processes that stop before the Lease expires, in a single
\* pod, or while no certificate expires, no process ever replaces a valid certificate in the Secret, although updateCertificateSecret
\* sends no resource version.
THEOREM CertificateKept == Spec => [][Single(cfg) \/ Lasting(cfg) => KeepsCertificate]_vars
<1>1. SecretInv /\ [Next]_vars => [Single(cfg) \/ Lasting(cfg) => KeepsCertificate]_vars
  <2> SUFFICES ASSUME SecretInv, Next, Single(cfg) \/ Lasting(cfg), containsValidCertificate(secret)
               PROVE  secret' = secret \/ DeleteSecret
    BY DEF KeepsCertificate
  <2>1. ASSUME NEW i \in Instance, Stores(i) PROVE FALSE
    BY <2>1, CertAssumption DEF Stores, SecretInv, StillInvalid, NeverInvalid, containsValidCertificate
  <2> QED
    BY <2>1, SecretSteps DEF SecretRests
<1> QED
  BY <1>1, SecretInvariant, PTL DEF Spec

\* README: the certificate is stored to be reused across restarts.  Of deployments
\* of these kinds, a valid certificate is only done away with by a user.
THEOREM CertificateReused ==
    ASSUME \A c \in Configs : Single(c) \/ Lasting(c)
    PROVE  Spec => ValidCertificateKept
<1>1. Init => cfg \in Configs
  BY DEF Init
<1>2. cfg \in Configs /\ [Next]_vars => (cfg \in Configs)'
  BY ConfigFixed DEF vars
<1>3. cfg \in Configs => Single(cfg) \/ Lasting(cfg)
  OBVIOUS
<1>4. cfg \in Configs /\ [Single(cfg) \/ Lasting(cfg) => KeepsCertificate]_vars => [KeepsCertificate]_vars
  BY <1>3
<1> QED
  BY <1>1, <1>2, <1>4, CertificateKept, PTL DEF Spec, ValidCertificateKept
=============================================================================
