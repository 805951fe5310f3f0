--------------------------- MODULE ConfigObserver ---------------------------
(***************************************************************************)
(* The observer of ZoneAwarePodDisruptionBudgets (config_observer.go and   *)
(* config_cache.go of pkg/zpdb): it fills the cache of budgets that the    *)
(* eviction controller decides with, holds up the start of the operator    *)
(* until the cache is filled, and publishes whether it keeps up.           *)
(*                                                                         *)
(* Concurrent are the informer, which lists and watches the objects, the   *)
(* goroutine that runs the event handlers, the one that starts the         *)
(* operator, and the one that publishes the readiness.                     *)
(***************************************************************************)
EXTENDS Integers, Sequences, SequencesExt

CONSTANTS
    Name,        \* names of budgets
    NoObj,       \* no object
    Edited,      \* bound: the budgets that are changed
    DeletesSeen, \* assumption: the informer does not miss a deletion
    MaxEdits,    \* bound: changes of the objects
    MaxFaults    \* bound: failing calls and watches

ASSUME BoundAssumption ==
    Edited \subseteq Name /\ MaxEdits \in Nat /\ MaxFaults \in Nat /\ DeletesSeen \in BOOLEAN

\* An object has a generation, which starts at 1 and grows with every change, and is
\* valid or not.  The number of its version stands for its content, that of its
\* first version for its uid.
Object == [gen : Nat, valid : BOOLEAN, version : Nat, uid : Nat]

ASSUME ObjectAssumption == IsFiniteSet(Name) /\ NoObj \notin Object

VARIABLES
    allowMissing, \* the flag that lets the operator start without the CRD
    crd,          \* the CRD is installed
    api,          \* the objects
    edits,        \* changes of the objects so far
    watch,        \* the informer's watch: not started, before the first list, open, broken
    events,       \* changes that the watch has not delivered
    store,        \* the informer's own copy of the objects
    notes,        \* notifications that the handlers have not seen
    initial,      \* how many of them are from the first list
    cache,        \* entries of the configCache
    start,        \* start of the operator: not begun, waiting for the sync, done
    missing,      \* the operator was started without the CRD
    healthy,      \* watchHealthy
    sending,      \* setWatchHealthy is between the change of watchHealthy and its signal
    signal,       \* readinessChanged holds a signal
    obs,          \* observeReadiness
    gauge,        \* ConfigObserverReady
    promised,     \* history: budgets that the first list returned and are not deleted
    faults        \* failing calls and watches so far

apiVars == <<allowMissing, crd, api, edits>>
informerVars == <<watch, events, store>>
readinessVars == <<healthy, sending, signal, obs, gauge>>
vars == <<apiVars, informerVars, notes, initial, cache, start, missing, readinessVars, promised, faults>>

NoteOf(type, n, o) == [type |-> type, name |-> n, obj |-> o]

Init ==
    /\ allowMissing \in BOOLEAN
    /\ crd \in BOOLEAN
    /\ \E N \in SUBSET Name, valid \in BOOLEAN :
          /\ N # {} => crd
          /\ api = [n \in Name |-> IF n \in N THEN [gen |-> 1, valid |-> valid \/ n \notin Edited,
                                                   version |-> 0, uid |-> 0] ELSE NoObj]
    /\ watch = "off" /\ events = <<>>
    /\ store = [n \in Name |-> NoObj] /\ cache = [n \in Name |-> NoObj]
    /\ notes = <<>> /\ initial = 0
    /\ start = "init" /\ missing = FALSE
    /\ healthy = FALSE /\ sending = FALSE /\ signal = FALSE /\ obs = "off" /\ gauge = 0
    /\ promised = {}
    /\ edits = 0 /\ faults = 0

Fault == faults < MaxFaults /\ faults' = faults + 1

-----------------------------------------------------------------------------
(* The start of the operator.                                              *)

\* Without the CRD the operator goes on at once if it may, and the wait for the
\* sync is left to a goroutine.  Any other error of the probe is waited out.
startCaches ==
    /\ start = "init"
    /\ watch' = "list"
    /\ \/ missing' = (allowMissing /\ ~crd) /\ UNCHANGED faults
       \/ missing' = FALSE /\ Fault
    /\ start' = IF missing' THEN "started" ELSE "sync"
    /\ UNCHANGED <<apiVars, events, store, notes, initial, cache, readinessVars, promised>>

\* pdbHandler.HasSynced: the handlers have seen what the first list returned.
HasSyncedMutant == watch \in {"open", "broken"}

HasSynced == watch \in {"open", "broken"} /\ initial = 0

\* The wait is over and observeReadiness is started.
waitForCacheSync ==
    /\ HasSynced
    /\ start # "init" /\ obs = "off"
    /\ start' = "started"
    /\ obs' = "probe"
    /\ UNCHANGED <<apiVars, informerVars, notes, initial, cache, missing, healthy, sending, signal, gauge, promised, faults>>

-----------------------------------------------------------------------------
(* Readiness.                                                              *)

\* The informer's goroutine; the signal is only sent on a change.
setWatchHealthy(h) ==
    /\ ~sending
    /\ healthy' = h
    /\ sending' = (healthy # h)
    /\ UNCHANGED signal

SendSignalMutant ==
    /\ sending /\ sending' = FALSE
    /\ signal' = (signal \/ obs = "wait")
    /\ UNCHANGED <<apiVars, informerVars, notes, initial, cache, start, missing, healthy, obs, gauge, promised, faults>>

\* The channel holds one signal; a send that would block is dropped.
SendSignal ==
    /\ sending /\ sending' = FALSE
    /\ signal' = TRUE
    /\ UNCHANGED <<apiVars, informerVars, notes, initial, cache, start, missing, healthy, obs, gauge, promised, faults>>

WakeMutant ==
    /\ obs = "wait" /\ signal
    /\ obs' = "probe"
    /\ signal' = FALSE
    /\ UNCHANGED <<apiVars, informerVars, notes, initial, cache, start, missing, healthy, sending, gauge, promised, faults>>

\* observeReadiness: the ticker or a signal.
Wake ==
    /\ obs = "wait"
    /\ obs' = "probe"
    /\ signal' = FALSE \/ UNCHANGED signal
    /\ UNCHANGED <<apiVars, informerVars, notes, initial, cache, start, missing, healthy, sending, gauge, promised, faults>>

\* updateReadiness up to the decision: the probe may fail.
Probe ==
    /\ obs = "probe"
    /\ \/ obs' = (IF crd /\ HasSynced /\ healthy THEN "set1" ELSE "set0") /\ UNCHANGED faults
       \/ obs' = "set0" /\ Fault
    /\ UNCHANGED <<apiVars, informerVars, notes, initial, cache, start, missing, healthy, sending, signal, gauge, promised>>

SetGauge ==
    /\ obs \in {"set0", "set1"}
    /\ gauge' = IF obs = "set1" THEN 1 ELSE 0
    /\ obs' = "wait"
    /\ UNCHANGED <<apiVars, informerVars, notes, initial, cache, start, missing, healthy, sending, signal, promised, faults>>

-----------------------------------------------------------------------------
(* The event handlers and the cache of budgets.                            *)

addOrUpdateRawMutant(n, o) ==
    IF ~o.valid THEN NoObj
    ELSE IF cache[n] # NoObj /\ cache[n].gen >= o.gen THEN cache[n] ELSE o

\* A budget that is invalid, or not newer than the entry, is ignored.
addOrUpdateRaw(n, o) ==
    IF ~o.valid \/ (cache[n] # NoObj /\ cache[n].gen >= o.gen) THEN cache[n] ELSE o

\* A budget that is older than the entry is not deleted.
deleteMutant(n, o) == IF cache[n] # NoObj /\ cache[n].gen >= o.gen THEN cache[n] ELSE NoObj

delete(n, o) == IF cache[n] # NoObj /\ cache[n].gen > o.gen THEN cache[n] ELSE NoObj

\* A tombstone is not an object, and onPdbDeleted ignores it.
Handle ==
    /\ notes # <<>>
    /\ LET e == Head(notes)
       IN  cache' = [cache EXCEPT ![e.name] = CASE e.type = "update" -> addOrUpdateRaw(e.name, e.obj)
                                                [] e.type = "delete" -> delete(e.name, e.obj)
                                                [] e.type = "tombstone" -> @]
    /\ notes' = Tail(notes)
    /\ initial' = IF initial > 0 THEN initial - 1 ELSE 0
    /\ UNCHANGED <<apiVars, informerVars, start, missing, readinessVars, promised, faults>>

-----------------------------------------------------------------------------
(* The informer.                                                           *)

Existing == {n \in Name : api[n] # NoObj}

\* The list replaces the informer's copy.  What is gone from it, with no event of its
\* deletion, is reported by a tombstone.
Listed ==
    LET gone == {n \in Name : store[n] # NoObj} \ Existing
    IN  SetToSeq({NoteOf("update", n, api[n]) : n \in Existing})
          \o SetToSeq({NoteOf("tombstone", n, store[n]) : n \in gone})

\* The first list; the watch is yet to be opened.
FirstList ==
    /\ watch = "list" /\ crd /\ ~sending
    /\ watch' = "broken"
    /\ store' = api
    /\ notes' = Listed /\ initial' = Len(Listed)
    /\ promised' = {n \in Existing : api[n].valid}
    /\ UNCHANGED <<apiVars, events, cache, start, missing, readinessVars, faults>>

\* The list fails, because there is no CRD or otherwise, and is tried again.
ListFails ==
    /\ watch = "list" /\ setWatchHealthy(FALSE)
    /\ (~crd /\ UNCHANGED faults) \/ Fault
    /\ UNCHANGED <<apiVars, informerVars, notes, initial, cache, start, missing, obs, gauge, promised>>

WatchFails ==
    /\ watch = "open" /\ Fault
    /\ watch' = "broken" /\ setWatchHealthy(FALSE)
    /\ UNCHANGED <<apiVars, events, store, notes, initial, cache, start, missing, obs, gauge, promised>>

\* The watch is opened, after a failure where it broke, or, if the API server no longer has
\* the changes since, the objects are listed anew.
Rewatch ==
    /\ watch = "broken"
    /\ watch' = "open" /\ setWatchHealthy(TRUE)
    /\ \/ UNCHANGED <<store, events, notes>>
       \/ /\ DeletesSeen => \A i \in DOMAIN events : events[i].type # "delete"
          /\ store' = api /\ events' = <<>> /\ notes' = notes \o Listed
    /\ UNCHANGED <<apiVars, initial, cache, start, missing, obs, gauge, promised, faults>>

WatchEvent ==
    /\ watch = "open" /\ events # <<>> /\ ~sending
    /\ LET e == Head(events)
       IN  store' = [store EXCEPT ![e.name] = IF e.type = "delete" THEN NoObj ELSE e.obj]
    /\ notes' = Append(notes, Head(events))
    /\ events' = Tail(events)
    /\ UNCHANGED <<apiVars, watch, initial, cache, start, missing, readinessVars, promised, faults>>

-----------------------------------------------------------------------------
(* The API server.                                                         *)

Change(n, o, e) ==
    /\ crd /\ edits < MaxEdits /\ edits' = edits + 1
    /\ api' = [api EXCEPT ![n] = o]
    /\ events' = IF watch \in {"open", "broken"} THEN Append(events, e) ELSE events
    /\ UNCHANGED <<allowMissing, crd, watch, store, notes, initial, cache, start, missing, readinessVars, faults>>

Written(n, valid) ==
    LET v == edits + 1
        o == IF api[n] = NoObj THEN [gen |-> 1, valid |-> valid, version |-> v, uid |-> v]
             ELSE [api[n] EXCEPT !.gen = @ + 1, !.valid = valid, !.version = v]
    IN  Change(n, o, NoteOf("update", n, o)) /\ UNCHANGED promised

Deleted(n) ==
    /\ api[n] # NoObj
    /\ Change(n, NoObj, NoteOf("delete", n, api[n]))
    /\ promised' = promised \ {n}

InstallCRD ==
    /\ ~crd /\ crd' = TRUE
    /\ UNCHANGED <<allowMissing, api, edits, informerVars, notes, initial, cache, start, missing, readinessVars,
                   promised, faults>>

Informer == FirstList \/ ListFails \/ Rewatch \/ WatchEvent \/ SendSignal
Observer == Wake \/ Probe \/ SetGauge

Next ==
    \/ startCaches \/ waitForCacheSync \/ Observer \/ Handle \/ Informer \/ WatchFails
    \/ \E n \in Edited : Deleted(n) \/ \E valid \in BOOLEAN : Written(n, valid)
    \/ InstallCRD

\* Every goroutine runs on, the informer retries, and the ticker ticks.
Fairness ==
    /\ WF_vars(startCaches) /\ WF_vars(waitForCacheSync) /\ WF_vars(Handle)
    /\ WF_vars(FirstList) /\ WF_vars(Rewatch) /\ WF_vars(WatchEvent) /\ WF_vars(SendSignal)
    /\ WF_vars(Observer)

Spec == Init /\ [][Next]_vars
LiveSpec == Spec /\ Fairness

-----------------------------------------------------------------------------
(* Properties.                                                             *)

\* README: startup waits for the ZPDB cache.  Once the operator has started with the
\* CRD in place, every budget that waitForCacheSync waited for is enforced until it is
\* deleted; later edits, valid or not, do not switch it off.
LoadedBeforeServing ==
    start = "started" /\ ~missing => \A n \in promised : cache[n] # NoObj

\* A budget leaves the configCache only when its object has been deleted: neither an
\* invalid edit nor a deletion of an earlier object of the same name removes it.
StaysEnforced ==
    [][\A n \in Name : cache[n] # NoObj /\ cache'[n] = NoObj
          => api[n] = NoObj \/ api[n].uid # cache[n].uid]_vars

\* setWatchHealthy never leaves observeReadiness uninformed: when the gauge says ready
\* and the watch has failed, a signal is waiting or on its way, or the gauge is about
\* to be set.
NoLostSignal == gauge = 1 /\ ~healthy => sending \/ signal \/ obs \in {"probe", "set0", "set1"}

\* In the end the configCache holds exactly the budgets that exist, in their latest
\* version where that one is valid.
CacheConverges ==
    <>[](\A n \in Name : \/ api[n] = NoObj /\ cache[n] = NoObj
                         \/ api[n] # NoObj /\ (api[n].valid => cache[n] = api[n]))

\* Runbook: recovery is automatic.  Once the CRD is there the gauge ends at ready,
\* whichever watches and probes have failed before.
ReadinessRecovers == <>[](crd => gauge = 1)
=============================================================================
