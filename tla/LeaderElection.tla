--------------------------- MODULE LeaderElection ---------------------------
(***************************************************************************)
(* The Lease through which the operators of a namespace elect a leader:    *)
(* client-go's elector as cmd/rollout-operator/main.go configures it.      *)
(* Time is counted in ticks.  A process is in one of the roles             *)
(*   off       not running, or not yet taking part,                        *)
(*   standby   trying to acquire the Lease,                                *)
(*   leading   renewing it, with the leader-only parts running,            *)
(*   stopping  told to stop: no longer renewing, but not yet gone.         *)
(***************************************************************************)
EXTENDS Integers

CONSTANTS
    Instance,      \* the operator pods
    Nobody,        \* the holder of a Lease that does not exist
    LeaseDuration, \* what a candidate waits for after the last renewal it saw
    RenewDeadline, \* how long a leader keeps trying to renew
    RetryPeriod,   \* its pause after a renewal, and between attempts
    StopTime       \* a process told to stop exits within this time

VARIABLES
    lease, \* holder: whose Lease it is; age: since it was last written
    role,  \* role[i]: see above
    since  \* since[i]: since i last saw a renewal of its own succeed

electionVars == <<lease, role, since>>

Role == {"off", "standby", "leading", "stopping"}

\* What the flags are checked for; 6/5 is client-go's jitter factor.
validate ==
    /\ RenewDeadline > 0 /\ RetryPeriod > 0
    /\ LeaseDuration > RenewDeadline
    /\ 5 * RenewDeadline > 6 * RetryPeriod

\* The renew loop allows RenewDeadline for every renewal, counted from its first
\* attempt, a RetryPeriod after the renewal before.  The time that the answer to a
\* renewal is under way is not counted.
RenewLimit == RetryPeriod + RenewDeadline

\* A process that is told to stop is gone by then, even if that is just before it
\* would have given up.
Hold == RenewLimit + StopTime

ASSUME FlagsAssumption ==
    /\ LeaseDuration \in Nat /\ RenewDeadline \in Nat /\ RetryPeriod \in Nat /\ StopTime \in Nat
    /\ validate
    /\ Nobody \notin Instance

\* What validate does not ask for.  A leader that cannot renew gives up before the
\* Lease expires: 2 + 10 < 15 for the default flags.
LeadsInTime == RenewLimit < LeaseDuration

\* So does one that is told to stop while it cannot renew.  Not so for the default
\* flags, with the 5 s that clearing the label may take: 2 + 10 + 5 > 15.
StopsInTime == Hold < LeaseDuration

ElectionInit ==
    /\ lease = [holder |-> Nobody, age |-> LeaseDuration]
    /\ role = [i \in Instance |-> "off"]
    /\ since = [i \in Instance |-> 0]

Become(i, r) == role' = [role EXCEPT ![i] = r]

\* elector.Run is called.
Join(i) ==
    /\ role[i] = "off"
    /\ Become(i, "standby")
    /\ UNCHANGED <<lease, since>>

\* A candidate writes itself into a Lease that nobody renewed for as long as
\* LeaseDuration.  Its own clock starts when it sees the last renewal, so it may
\* be later than this, never earlier.  A process does not know the identity of
\* the one before it in the same pod, and waits for it as for any other.
TryAcquire(i) ==
    /\ role[i] = "standby"
    /\ lease.age = LeaseDuration
    /\ lease' = [holder |-> i, age |-> 0]
    /\ since' = [since EXCEPT ![i] = 0]
    /\ Become(i, "leading")

\* The answer to a renewal may be lost.
Renew(i) ==
    /\ role[i] = "leading" /\ lease.holder = i
    /\ lease' = [lease EXCEPT !.age = 0]
    /\ \E s \in {0, since[i]} : since' = [since EXCEPT ![i] = s]
    /\ UNCHANGED role

\* A plausible misconfiguration: the Lease is released when the context is cancelled.
CeaseMutant(i) ==
    /\ role[i] \in {"standby", "leading"}
    /\ Become(i, IF role[i] = "leading" THEN "stopping" ELSE "off")
    /\ lease' = IF role[i] = "leading" THEN [lease EXCEPT !.age = LeaseDuration] ELSE lease
    /\ UNCHANGED since

\* The context is cancelled.  The Lease is not released.
Cease(i) ==
    /\ role[i] \in {"standby", "leading"}
    /\ Become(i, IF role[i] = "leading" THEN "stopping" ELSE "off")
    /\ UNCHANGED <<lease, since>>

\* The process exits.
Leave(i) ==
    /\ Become(i, "off")
    /\ since' = [since EXCEPT ![i] = 0]
    /\ UNCHANGED lease

\* A leader that could not renew stops in time, and a process that stops exits
\* in time.
Tick ==
    /\ \A i \in Instance : /\ role[i] = "leading" => since[i] < RenewLimit
                           /\ role[i] = "stopping" => since[i] < Hold
    /\ lease' = [lease EXCEPT !.age = IF @ < LeaseDuration THEN @ + 1 ELSE @]
    /\ since' = [i \in Instance |->
                   IF role[i] \in {"leading", "stopping"} THEN since[i] + 1 ELSE since[i]]
    /\ UNCHANGED role

ElectionNext ==
    \/ \E i \in Instance : Join(i) \/ TryAcquire(i) \/ Renew(i) \/ Cease(i) \/ Leave(i)
    \/ Tick

ElectionSpec == ElectionInit /\ [][ElectionNext]_electionVars

\* The leader-only controllers and webhooks of i may be running.
MayAct(i) == role[i] \in {"leading", "stopping"}

\* README: only the leader runs controllers and admission webhooks, and a
\* replacement waits for the Lease to expire.  If leaders give up in time, two
\* processes never lead at once: a process that acts besides the leader has been told
\* to stop.  If they also stop in time, there is no such process.
OneLeader ==
    \A i, j \in Instance : MayAct(i) /\ MayAct(j) =>
        \/ i = j
        \/ ~StopsInTime /\ "stopping" \in {role[i], role[j]}
        \/ ~LeadsInTime

\* Those to whom the Lease is sure to belong.
Covered(i) == (role[i] = "leading" /\ LeadsInTime) \/ (MayAct(i) /\ StopsInTime)

\* Why: until it gives up, or is gone, a leader's Lease is its own and not yet
\* expired.
LeaseCovers ==
    \A i \in Instance :
        /\ MayAct(i) => since[i] <= (IF role[i] = "leading" THEN RenewLimit ELSE Hold)
        /\ Covered(i) => lease.holder = i /\ lease.age <= since[i]

ElectionTypeOK ==
    /\ lease \in [holder : Instance \cup {Nobody}, age : 0..LeaseDuration]
    /\ role \in [Instance -> Role]
    /\ since \in [Instance -> 0..Hold]
=============================================================================
