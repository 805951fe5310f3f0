------------------------------ MODULE Operator ------------------------------
(***************************************************************************)
(* The operator process from start to exit: main.go with and without       *)
(* leader election, the certificate in the Secret (tlscert), the CA bundle *)
(* in the webhook configuration, and how the webhook Service routes.       *)
(*                                                                         *)
(* A process goes through the steps                                        *)
(*   down, boot, standby (with election only), start, create or update,    *)
(*   reread, observe, listen, publish, ready, run                          *)
(* and is back at down when it exits.  A call that fails in between is     *)
(* fatal, and the container is started again.                              *)
(***************************************************************************)
EXTENDS LeaderElection, FiniteSets

CONSTANTS
    Cert,      \* certificates, numbered; an id not in use is taken for a new one
    NoCert,    \* no certificate: an empty bundle, no Secret
    Empty,     \* the Secret exists, without data
    Malformed, \* the Secret exists, and its data is not a certificate
    Configs,   \* the deployments considered, see Init
    Restarted  \* the pods that are certain to be started again

ASSUME CertAssumption ==
    NoCert \notin Cert /\ Empty \notin Cert \cup {NoCert} /\ Malformed \notin Cert \cup {NoCert, Empty}

\* There is always a certificate that is not in use.
ASSUME SupplyAssumption ==
    /\ IsFiniteSet(Instance)
    /\ IsFiniteSet(Cert) => Cardinality(Cert) > Cardinality(Instance) + 2

VARIABLES
    cfg,     \* election: enabled or not; up: the pods there are; secrets: how the
             \* Secret may start; faults, stops, expiries, edits, unpatched: bounds
    op,      \* op[i]: the process in pod i
    cert,    \* cert[i]: the certificate that it serves, or will
    label,   \* label[i]: the leader label of pod i
    probed,  \* probed[i]: what the last readiness probe of pod i returned
    secret,  \* the certificate in the Secret
    expired, \* the certificates that have expired
    bundle,  \* the CA bundle in the webhook configuration
    left     \* what is left of the bounds

processVars == <<op, cert, label, probed>>
certVars == <<secret, expired, bundle>>
vars == <<electionVars, cfg, processVars, certVars, left>>

Down == [step |-> "down", ready |-> FALSE, cancelled |-> FALSE, event |-> "none"]

Step == {"down", "boot", "standby", "start", "create", "update", "reread",
         "observe", "listen", "publish", "ready", "run"}

\* The TLS server is started right after the webhook observer, and answers
\* until the process exits.
Observing == {"listen", "publish", "ready", "run"}
Serving == {"publish", "ready", "run"}

Init ==
    /\ cfg \in Configs
    /\ ElectionInit
    /\ op = [i \in Instance |-> Down]
    /\ cert = [i \in Instance |-> NoCert]
    /\ label = [i \in Instance |-> FALSE]
    /\ probed = [i \in Instance |-> FALSE]
    /\ secret \in cfg.secrets
    /\ expired = {}
    /\ bundle = NoCert
    /\ left = [faults |-> cfg.faults, stops |-> cfg.stops, expiries |-> cfg.expiries,
               edits |-> cfg.edits, unpatched |-> cfg.unpatched]

Spend(what) == left[what] > 0 /\ left' = [left EXCEPT ![what] = @ - 1]

Goto(i, step) == op' = [op EXCEPT ![i].step = step]

\* os.Exit, or the end of main: whatever the process held is gone.  The label and
\* the result of the last probe stay behind.
Gone(i) ==
    /\ op' = [op EXCEPT ![i] = Down]
    /\ cert' = [cert EXCEPT ![i] = NoCert]
    /\ UNCHANGED probed
    /\ IF cfg.election THEN Leave(i) ELSE UNCHANGED electionVars

-----------------------------------------------------------------------------
(* Start-up and election.                                                  *)

\* The container is started again, or in a new pod, which has no label.  To the
\* kubelet a container is not ready until a probe of it has succeeded.
Start(i) ==
    /\ i \in cfg.up /\ op[i].step = "down"
    /\ Goto(i, "boot")
    /\ \E l \in {FALSE, label[i]} : label' = [label EXCEPT ![i] = l]
    /\ probed' = [probed EXCEPT ![i] = FALSE]
    /\ UNCHANGED <<electionVars, cfg, cert, certVars, left>>

\* A plausible bug: the label of the process before is not cleared.
runWithLeaderElectionMutant(i) ==
    /\ op[i].step = "boot" /\ ~op[i].cancelled
    /\ IF cfg.election
       THEN /\ Join(i)
            /\ op' = [op EXCEPT ![i].step = "standby", ![i].ready = TRUE]
            /\ UNCHANGED label
       ELSE Goto(i, "start") /\ UNCHANGED <<electionVars, label>>
    /\ UNCHANGED <<cfg, cert, probed, certVars, left>>

\* With election the label is cleared, and only then is the standby ready.
runWithLeaderElection(i) ==
    /\ op[i].step = "boot" /\ ~op[i].cancelled
    /\ IF cfg.election
       THEN /\ label' = [label EXCEPT ![i] = FALSE]
            /\ op' = [op EXCEPT ![i].step = "standby", ![i].ready = TRUE]
            /\ Join(i)
       ELSE Goto(i, "start") /\ UNCHANGED <<electionVars, label>>
    /\ UNCHANGED <<cfg, cert, probed, certVars, left>>

OnStartedLeading(i) ==
    /\ TryAcquire(i)
    /\ op' = [op EXCEPT ![i].step = "start", ![i].ready = FALSE]
    /\ UNCHANGED <<cfg, cert, label, probed, certVars, left>>

RenewLease(i) ==
    /\ Renew(i)
    /\ UNCHANGED <<cfg, processVars, certVars, left>>

\* Renewals failed for too long: fatal, without another call to the API server.
LeaseLost(i) ==
    /\ role[i] = "leading" /\ since[i] >= RenewDeadline
    /\ Spend("faults")
    /\ Gone(i)
    /\ UNCHANGED <<cfg, label, certVars>>

-----------------------------------------------------------------------------
(* The certificate: KubeSecretPersistedCertProvider.                       *)

\* A plausible bug: the expiry is not looked at.
containsValidCertificateMutant(s) == s \in Cert

containsValidCertificate(s) == s \in Cert \ expired

InUse == {secret, bundle} \cup {cert[i] : i \in Instance}

\* SelfSignedProvider.Certificate: a new key pair, which nobody else has.
Generated == CHOOSE c \in Cert : c \notin InUse

\* The process goes on with certificate c.
Obtain(i, c) == Goto(i, "observe") /\ cert' = [cert EXCEPT ![i] = c]

\* The caches of the eviction controller have synced; the Secret is read.  Data
\* that does not parse is fatal: "delete the secret and try again".
Certificate(i) ==
    /\ op[i].step = "start" /\ ~op[i].cancelled
    /\ \/ secret = Malformed /\ Gone(i)
       \/ containsValidCertificate(secret) /\ Obtain(i, secret) /\ UNCHANGED <<electionVars, probed>>
       \/ secret = NoCert /\ Goto(i, "create") /\ UNCHANGED <<electionVars, cert, probed>>
       \/ /\ secret \notin {NoCert, Malformed} /\ ~containsValidCertificate(secret)
          /\ Goto(i, "update") /\ UNCHANGED <<electionVars, cert, probed>>
    /\ UNCHANGED <<cfg, label, certVars, left>>

Store(i) ==
    /\ secret' = Generated
    /\ expired' = expired \ {Generated}
    /\ Obtain(i, Generated)
    /\ UNCHANGED <<electionVars, cfg, label, probed, bundle, left>>

\* No resource version is sent: the last update wins.  Like any request it may
\* have been sent before a cancellation.
updateCertificateSecret(i) ==
    /\ op[i].step = "update"
    /\ IF secret # NoCert THEN Store(i)
       ELSE Gone(i) /\ UNCHANGED <<cfg, label, certVars, left>>

\* A plausible bug: an existing Secret is overwritten.
createCertificateSecretMutant(i) == op[i].step = "create" /\ Store(i)

\* AlreadyExists: another process was faster.
createCertificateSecret(i) ==
    /\ op[i].step = "create"
    /\ IF secret = NoCert THEN Store(i)
       ELSE Goto(i, "reread") /\ UNCHANGED <<electionVars, cfg, cert, label, probed, certVars, left>>

rereadCertificateSecret(i) ==
    /\ op[i].step = "reread"
    /\ IF containsValidCertificate(secret)
       THEN Obtain(i, secret) /\ UNCHANGED <<electionVars, probed>>
       ELSE Gone(i)
    /\ UNCHANGED <<cfg, label, certVars, left>>

-----------------------------------------------------------------------------
(* The rest of the start-up.                                               *)

\* The observer has listed the webhook configuration, which its handler gets.
StartObserver(i) == op' = [op EXCEPT ![i].step = "listen", ![i].event = "pending"]

\* An expired certificate is fatal.
checkAndWatchCertificate(i) ==
    /\ op[i].step = "observe" /\ ~op[i].cancelled
    /\ \/ cert[i] \in expired /\ Gone(i)
       \/ cert[i] \notin expired /\ StartObserver(i) /\ UNCHANGED <<electionVars, cert, probed>>
    /\ UNCHANGED <<cfg, label, certVars, left>>

\* The TLS server listens; the webhook collector and the rollout controller
\* have synced their caches.
StartServing(i) ==
    /\ op[i].step = "listen" /\ ~op[i].cancelled
    /\ Goto(i, "publish")
    /\ UNCHANGED <<electionVars, cfg, cert, label, probed, certVars, left>>

\* setLeaderLabel, also by a request that was on its way at a cancellation.
PublishLeader(i) ==
    /\ op[i].step = "publish"
    /\ Goto(i, "ready")
    /\ label' = [label EXCEPT ![i] = cfg.election \/ @]
    /\ UNCHANGED <<electionVars, cfg, cert, probed, certVars, left>>

\* ready.Store(true), also when a cancellation has just stored false.
BecomeReady(i) ==
    /\ op[i].step = "ready"
    /\ op' = [op EXCEPT ![i].step = "run", ![i].ready = TRUE]
    /\ UNCHANGED <<electionVars, cfg, cert, label, probed, certVars, left>>

-----------------------------------------------------------------------------
(* The CA bundle: WebhookObserver and PatchCABundleOn...Webhook.           *)

\* Every change of the configuration is reported to every observer.
Changed(b, p) ==
    /\ bundle' = b
    /\ op' = [i \in Instance |->
                IF op[i].step \in Observing THEN [p[i] EXCEPT !.event = "pending"] ELSE p[i]]

\* A bundle other than the process's own is patched.  The patch carries the
\* object's resource version, so it fails when the object has changed since, and
\* the event of that change follows.  When it fails otherwise nothing follows:
\* the handler has set the bundle in the informer's own copy of the object, and
\* to a resync that copy looks right.
PatchCABundle(i) ==
    LET handled(e) == [op EXCEPT ![i].event = e]
    IN  \/ bundle = cert[i] /\ op' = handled("none") /\ UNCHANGED <<bundle, left>>
        \/ bundle # cert[i] /\ Changed(cert[i], handled("none")) /\ UNCHANGED left
        \/ bundle # cert[i] /\ Spend("unpatched") /\ op' = handled("failed") /\ UNCHANGED bundle

\* The handler of the observer's events.
onWebHookConfigurationObserved(i) ==
    /\ op[i].event = "pending"
    /\ PatchCABundle(i)
    /\ UNCHANGED <<electionVars, cfg, cert, label, probed, secret, expired>>

-----------------------------------------------------------------------------
(* Stopping.                                                               *)

\* The context is cancelled: the process is no longer ready.
Cancel(i) ==
    /\ op[i].step # "down" /\ ~op[i].cancelled
    /\ op' = [op EXCEPT ![i].cancelled = TRUE, ![i].ready = FALSE]
    /\ IF role[i] = "off" THEN UNCHANGED electionVars ELSE Cease(i)
    /\ UNCHANGED <<cfg, cert, label, probed, certVars>>

\* The timer of checkAndWatchCertificate.
ExpiryTimer(i) ==
    /\ op[i].step \in Observing /\ cert[i] \in expired
    /\ Cancel(i)
    /\ UNCHANGED left

Terminate(i) == Spend("stops") /\ Cancel(i)

\* The label is cleared on the way out, unless that call fails or a late
\* PublishLeader comes after it.
Exit(i) ==
    /\ op[i].cancelled
    /\ Gone(i)
    /\ \E l \in {FALSE, label[i]} : label' = [label EXCEPT ![i] = l]
    /\ UNCHANGED <<cfg, certVars, left>>

\* A call that fails during start-up, or a crash at any time.
Fatal(i) ==
    /\ op[i].step # "down"
    /\ Spend("faults")
    /\ Gone(i)
    /\ UNCHANGED <<cfg, label, certVars>>

-----------------------------------------------------------------------------
(* The cluster, the clock and the users.                                   *)

\* The kubelet asks readyHandler.
Probe(i) ==
    /\ probed[i] # op[i].ready
    /\ probed' = [probed EXCEPT ![i] = op[i].ready]
    /\ UNCHANGED <<electionVars, cfg, op, cert, label, certVars, left>>

\* Once no more faults are to come, renewals succeed in time.
Time ==
    /\ cfg.election /\ Tick
    /\ UNCHANGED <<cfg, processVars, certVars, left>>

Expire(c) ==
    /\ c \in InUse \ expired
    /\ Spend("expiries")
    /\ expired' = expired \cup {c}
    /\ UNCHANGED <<electionVars, cfg, processVars, secret, bundle>>

DeleteSecret ==
    /\ secret # NoCert /\ Spend("edits")
    /\ secret' = NoCert
    /\ UNCHANGED <<electionVars, cfg, processVars, expired, bundle>>

\* The manifests are applied again, without a bundle.
ApplyWebhook ==
    /\ bundle # NoCert /\ Spend("edits")
    /\ Changed(NoCert, op)
    /\ UNCHANGED <<electionVars, cfg, cert, label, probed, secret, expired>>

\* What a process does by itself; only one of the steps is enabled at a time.
maybeStartTLSServer(i) ==
    \/ Certificate(i)
    \/ updateCertificateSecret(i) \/ createCertificateSecret(i) \/ rereadCertificateSecret(i)
    \/ checkAndWatchCertificate(i) \/ StartServing(i)

runOperator(i) == maybeStartTLSServer(i) \/ PublishLeader(i) \/ BecomeReady(i)

Next ==
    \/ \E i \in Instance :
         \/ Start(i) \/ runWithLeaderElection(i) \/ runOperator(i)
         \/ OnStartedLeading(i) \/ RenewLease(i) \/ LeaseLost(i)
         \/ onWebHookConfigurationObserved(i)
         \/ ExpiryTimer(i) \/ Terminate(i) \/ Exit(i) \/ Fatal(i) \/ Probe(i)
    \/ Time
    \/ \E c \in Cert : Expire(c)
    \/ DeleteSecret \/ ApplyWebhook

Spec == Init /\ [][Next]_vars

\* The goroutines of a process run, timers fire, the kubelet probes and starts
\* the containers of the pods in Restarted again.
LiveSpec ==
    /\ Spec
    /\ WF_vars(Time)
    /\ \A i \in Instance :
         /\ WF_vars(runWithLeaderElection(i)) /\ WF_vars(runOperator(i))
         /\ WF_vars(OnStartedLeading(i)) /\ WF_vars(RenewLease(i))
         /\ WF_vars(onWebHookConfigurationObserved(i)) /\ WF_vars(ExpiryTimer(i))
         /\ WF_vars(Exit(i)) /\ WF_vars(Probe(i))
    /\ \A i \in Restarted : WF_vars(Start(i))

-----------------------------------------------------------------------------
(* Properties.                                                             *)

\* The webhook Service selects ready pods and, with election, the leader label.
Routed(i) == probed[i] /\ (cfg.election => label[i])

\* "Publish the leader only after its admission caches and TLS listener are
\* initialized": whatever an earlier process of the pod left behind, and however
\* old the last probe, no process gets requests that does not serve them.  Those that
\* are routed to a pod before its exit is noticed reach nobody.
RoutedServes == \A i \in Instance : Routed(i) => op[i].step \in Serving \cup {"down"}

AtWork(i) == op[i].step \notin {"down", "boot", "standby"}

\* README: only the leader runs controllers and admission webhooks.  If leaders give
\* up in time, then of two processes past runOperator's start one has been told to
\* stop; if they also stop in time, there are no two, also while the one before is
\* stopping.
OneOperator ==
    cfg.election => \A i, j \in Instance : AtWork(i) /\ AtWork(j) =>
        \/ i = j
        \/ ~StopsInTime /\ (op[i].cancelled \/ op[j].cancelled)
        \/ ~LeadsInTime

\* What a step may do to the Secret: a valid certificate stays.
KeepsCertificate == containsValidCertificate(secret) => secret' = secret \/ DeleteSecret

\* README: the certificate is stored to be reused across restarts.  No process
\* replaces a certificate that is still valid, however old its read of the
\* Secret is; only a user's deletion does away with one.
ValidCertificateKept == [][KeepsCertificate]_vars

\* The API server reaches a process, and whichever it reaches it trusts.
Available ==
    /\ \E i \in Instance : Routed(i)
    /\ \A i \in Instance : Routed(i) => /\ op[i].step \in Serving
                                        /\ cert[i] \notin expired
                                        /\ bundle = cert[i]

\* After the last crash, lost Lease, restart, expiry and edit the webhooks become
\* available and stay so, even if a pod never comes back: only a process whose
\* patch of the bundle failed can leave them without trust, and only a Secret that
\* does not parse without a process.
WebhooksRecover ==
    <>[](Available \/ secret = Malformed \/ \E i \in Instance : op[i].event = "failed")
=============================================================================
