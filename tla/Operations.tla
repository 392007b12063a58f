----------------------------- MODULE Operations -----------------------------
(***************************************************************************)
(* The operations monitor: the recovery gate that suspends decisions       *)
(* (operations/resilience.py), the alert life cycle and the probe loop     *)
(* (operations/service.py), with the probe of main.py and the append-only  *)
(* alert rows.                                                             *)
(*                                                                         *)
(* The monitor loop and failing decision cycles (reporters) observe        *)
(* dependencies as concurrent tasks; a step is the code between two        *)
(* awaits.  Writing an alert may fail, or its answer may be lost after the *)
(* commit, and the process may crash.                                      *)
(***************************************************************************)
EXTENDS Naturals, Sequences, FiniteSets

CONSTANTS
    Critical,           \* critical dependencies: DATABASE, AUDIT, RISK
    Unprobed,           \* those the probe always calls healthy: AUDIT, RISK
    NonCritical,        \* BROKER, MARKET_DATA, SHADOW_RUNTIME
    ProbeOrder,         \* the order of the probe's answers
    SloOrder,           \* service level objectives, in the order of evaluate_slos
    RateSlos,           \* those about a success rate; the others bound a latency
    Windows,            \* <<samples, failures or p95 latency>> a window may show
    ErrorNum, ErrorDen, \* the failures per sample that a rate target allows
    LatencyTarget,      \* the latency that a latency target allows
    Reporters,          \* decision cycles that report a failed dependency
    RecoverySuccesses,  \* recovery_successes_required
    MaxReports,         \* bound on outages and reported failures
    MaxAlertFaults      \* bound on failed alert writes and crashes

Slos == {SloOrder[i] : i \in DOMAIN SloOrder}
Dependencies == Critical \cup NonCritical
AlertKeys == Dependencies \cup Slos
Monitor == "monitor"
Free == "free"          \* _alert_lock is nobody's
Observers == Reporters \cup {Monitor}

ASSUME OperationsAssumption ==
    /\ RecoverySuccesses \in Nat \ {0}
    /\ MaxReports \in Nat /\ MaxAlertFaults \in Nat
    /\ ProbeOrder \in Seq(Dependencies) /\ SloOrder \in Seq(Slos)
    /\ \A i, j \in DOMAIN ProbeOrder : ProbeOrder[i] = ProbeOrder[j] => i = j
    /\ "slos" \notin Dependencies
    /\ Monitor \notin Reporters /\ Free \notin Reporters
    /\ Unprobed \subseteq Critical
    /\ Critical \cap NonCritical = {} /\ Slos \cap Dependencies = {}
    /\ RateSlos \subseteq Slos /\ Windows \subseteq Nat \X Nat /\ <<0, 0>> \in Windows
    /\ ErrorNum \in Nat \ {0} /\ ErrorDen \in Nat \ {0} /\ LatencyTarget \in Nat \ {0}

VARIABLES
    monitoring,     \* operations_monitor_enabled
    up, objective,  \* what a probe and the metrics would show (environment)
    healthy,        \* DependencyState.healthy
    successes,      \* consecutive_successes, counted up to RecoverySuccesses
    latched,        \* _critical_latched
    activeAlerts,   \* _active_alerts
    sequences,      \* _alert_sequences
    alertRows,      \* operational_alert_events by key, in lifecycle_sequence order
    alertLock,      \* who holds _alert_lock
    observer,       \* what each task is doing
    answers,        \* what the monitor has still to observe in this round
    reports,        \* history: outages and reports so far
    freshProbes,    \* history: probes begun since a critical failure was observed
    alertFaults, answersLost    \* history: failures, and answers lost, so far

recovery == <<healthy, successes, latched>>
alerts == <<activeAlerts, sequences>>
operationsHistory == <<reports, freshProbes, alertFaults, answersLost>>
world == <<monitoring, up, objective>>
operationsVars == <<world, recovery, alerts, alertRows, alertLock, observer, answers,
                    operationsHistory>>

SloStatuses == {"NO_DATA", "BREACHED", "WARNING", "HEALTHY"}
AlertEvents == {"OPENED", "RESOLVED"}

\* _rate_evaluation: WARNING once at most a fifth of the error budget is left.
RateStatus(total, failures) ==
    CASE total = 0 -> "NO_DATA"
      [] total > 0 /\ failures * ErrorDen > ErrorNum * total -> "BREACHED"
      [] total > 0 /\ failures * ErrorDen <= ErrorNum * total ->
            IF 5 * failures * ErrorDen >= 4 * ErrorNum * total THEN "WARNING" ELSE "HEALTHY"

\* _latency_evaluation
LatencyStatus(count, p95) ==
    CASE count = 0 -> "NO_DATA"
      [] count > 0 /\ p95 > LatencyTarget -> "BREACHED"
      [] count > 0 /\ p95 <= LatencyTarget ->
            IF 5 * p95 >= 4 * LatencyTarget THEN "WARNING" ELSE "HEALTHY"

IdleObserver == [step |-> "idle", key |-> "none", event |-> "none"]
Least(a, b) == IF a <= b THEN a ELSE b

OperationsInit ==
    /\ monitoring \in BOOLEAN
    /\ up = [d \in Dependencies |-> TRUE] /\ objective = [s \in Slos |-> <<0, 0>>]
    /\ healthy = [d \in Dependencies |-> TRUE]
    /\ successes = [d \in Dependencies |-> 0]
    /\ latched = FALSE
    /\ activeAlerts = {} /\ sequences = [k \in AlertKeys |-> 0]
    /\ alertRows = [k \in AlertKeys |-> <<>>]
    /\ alertLock = Free
    /\ observer = [o \in Observers |-> IdleObserver]
    /\ answers = <<>>
    /\ reports = 0 /\ freshProbes = 0 /\ alertFaults = 0 /\ answersLost = 0

\* RecoveryCoordinator.mode
Mode ==
    IF latched \/ \E d \in Critical : ~healthy[d] THEN "SAFE_HALT"
    ELSE IF \E d \in NonCritical : ~healthy[d] THEN "DEGRADED" ELSE "HEALTHY"

DecisionsAllowed == Mode # "SAFE_HALT"

\* Mutant: a failure does not reset the count of successes.
ObserveCumulative(d, ok) ==
    LET h == [healthy EXCEPT ![d] = ok]
        s == [successes EXCEPT ![d] = IF ok THEN Least(@ + 1, RecoverySuccesses) ELSE @]
        confirmed == \A c \in Critical : h[c] /\ s[c] >= RecoverySuccesses
    IN  /\ healthy' = h /\ successes' = s
        /\ latched' = ((latched \/ (~ok /\ d \in Critical)) /\ ~confirmed)

\* RecoveryCoordinator.observe: a critical failure latches the halt; it ends
\* when every critical dependency is confirmed often enough in a row.
Observe(d, ok) ==
    LET h == [healthy EXCEPT ![d] = ok]
        s == [successes EXCEPT ![d] = IF ok THEN Least(@ + 1, RecoverySuccesses) ELSE 0]
        confirmed == \A c \in Critical : h[c] /\ s[c] >= RecoverySuccesses
    IN  /\ healthy' = h /\ successes' = s
        /\ latched' = ((latched \/ (~ok /\ d \in Critical)) /\ ~confirmed)

\* observe_dependency after it: which alert to record, decided on the alerts
\* known before the lock is taken.
AlertFor(d, ok) ==
    IF ~ok /\ d \notin activeAlerts THEN "OPENED"
    ELSE IF ok /\ d \in activeAlerts
            /\ (d \in Critical => successes'[d] >= RecoverySuccesses)
         THEN "RESOLVED" ELSE "none"

\* _sync_slo_alert: NO_DATA leaves the alert alone.
AlertForSlo(s, status) ==
    IF status = "BREACHED" /\ s \notin activeAlerts THEN "OPENED"
    ELSE IF status \in {"HEALTHY", "WARNING"} /\ s \in activeAlerts
         THEN "RESOLVED" ELSE "none"

Alerting(o, key, event) ==
    observer' = [observer EXCEPT ![o] =
        IF event = "none" THEN [@ EXCEPT !.step = "idle"]
        ELSE [step |-> "lock", key |-> key, event |-> event]]

-----------------------------------------------------------------------------
(* Observations *)

\* A dependency fails or comes back, or the metrics of an objective change.
EnvironmentChanges ==
    /\ reports < MaxReports
    /\ \/ /\ \E d \in Dependencies \ Unprobed : up' = [up EXCEPT ![d] = ~@]
          /\ UNCHANGED objective
       \/ /\ \E s \in Slos, window \in Windows : objective' = [objective EXCEPT ![s] = window]
          /\ UNCHANGED up
    /\ reports' = reports + 1
    /\ UNCHANGED <<monitoring, recovery, alerts, alertRows, alertLock, observer, answers,
                   freshProbes, alertFaults, answersLost>>

\* operational_probe: AUDIT and RISK are called healthy as long as the process
\* runs, the others as they are found.
Probe ==
    /\ monitoring /\ observer[Monitor].step = "idle" /\ answers = <<>>
    /\ answers' = [i \in DOMAIN ProbeOrder |-> <<ProbeOrder[i], up[ProbeOrder[i]]>>]
    /\ freshProbes' = Least(freshProbes + 1, RecoverySuccesses)
    /\ UNCHANGED <<world, recovery, alerts, alertRows, alertLock, observer, reports, alertFaults,
                   answersLost>>

\* The last dependency is followed by the objectives.
Evaluations == <<<<"slos", TRUE>>>>

\* The monitor's observe_dependency of the next answer.
MonitorObserves ==
    LET d == Head(answers)[1]
        ok == Head(answers)[2]
    IN  /\ observer[Monitor].step = "idle" /\ answers # <<>>
        /\ d \in Dependencies
        /\ answers' = IF Len(answers) = 1 THEN Evaluations ELSE Tail(answers)
        /\ Observe(d, ok)
        /\ freshProbes' = IF ~ok /\ d \in Critical THEN 0 ELSE freshProbes
        /\ Alerting(Monitor, d, AlertFor(d, ok))
        /\ UNCHANGED <<world, alerts, alertRows, alertLock, reports, alertFaults, answersLost>>

SloStatus(s) ==
    IF s \in RateSlos THEN RateStatus(objective[s][1], objective[s][2])
                      ELSE LatencyStatus(objective[s][1], objective[s][2])

\* evaluate_slos: every objective over the metrics of the window, then saved.
EvaluateSlos ==
    /\ observer[Monitor].step = "idle" /\ answers = Evaluations
    /\ answers' = [i \in DOMAIN SloOrder |-> <<SloOrder[i], SloStatus(SloOrder[i])>>]
    /\ UNCHANGED <<world, recovery, alerts, alertRows, alertLock, observer, operationsHistory>>

\* _sync_slo_alert of the next evaluation.
SyncSloAlert ==
    LET s == Head(answers)[1]
    IN  /\ observer[Monitor].step = "idle" /\ answers # <<>> /\ s \in Slos
        /\ answers' = Tail(answers)
        /\ Alerting(Monitor, s, AlertForSlo(s, Head(answers)[2]))
        /\ UNCHANGED <<world, recovery, alerts, alertRows, alertLock, operationsHistory>>

\* The evaluations are not saved: the exception ends the round.
EvaluateSlosFails ==
    /\ observer[Monitor].step = "idle" /\ answers = Evaluations
    /\ alertFaults < MaxAlertFaults /\ alertFaults' = alertFaults + 1
    /\ answers' = <<>>
    /\ UNCHANGED <<world, recovery, alerts, alertRows, alertLock, observer, reports,
                   freshProbes, answersLost>>

\* _mark_operational_dependency_unhealthy of a decision cycle.
ReportFailure(o, d) ==
    /\ observer[o].step = "idle" /\ reports < MaxReports
    /\ Observe(d, FALSE)
    /\ freshProbes' = 0
    /\ Alerting(o, d, AlertFor(d, FALSE))
    /\ reports' = reports + 1
    /\ UNCHANGED <<world, alerts, alertRows, alertLock, answers, alertFaults, answersLost>>

-----------------------------------------------------------------------------
(* _record_alert *)

\* Mutant: nothing is checked again under the lock.
NeverRedundant(key, event) == FALSE

\* An alert that is open already is not opened, one that is not is not resolved.
Redundant(key, event) == (event = "OPENED") = (key \in activeAlerts)

LockAlerts(o) ==
    /\ observer[o].step = "lock" /\ alertLock = Free
    /\ IF Redundant(observer[o].key, observer[o].event)
       THEN observer' = [observer EXCEPT ![o] = IdleObserver] /\ UNCHANGED alertLock
       ELSE observer' = [observer EXCEPT ![o].step = "save"] /\ alertLock' = o
    /\ UNCHANGED <<world, recovery, alerts, alertRows, answers, operationsHistory>>

\* The row's lifecycle_sequence, which is unique per key.
NextSequence(key) == sequences[key] + 1
SequenceTaken(key) == NextSequence(key) <= Len(alertRows[key])

\* The triggers on the operational evidence refuse every UPDATE and DELETE.
KeepsAlerts(old, new) == \A k \in AlertKeys : SubSeq(new[k], 1, Len(old[k])) = old[k]

InsertAlert(o) ==
    /\ alertRows' = [alertRows EXCEPT ![observer[o].key] = Append(@, observer[o].event)]
    /\ KeepsAlerts(alertRows, alertRows')

\* The event is stored, then counted and made active or not.
SaveAlert(o) ==
    LET key == observer[o].key
    IN  /\ observer[o].step = "save" /\ ~SequenceTaken(key)
        /\ InsertAlert(o)
        /\ sequences' = [sequences EXCEPT ![key] = NextSequence(key)]
        /\ activeAlerts' = IF observer[o].event = "OPENED" THEN activeAlerts \cup {key}
                                                           ELSE activeAlerts \ {key}
        /\ alertLock' = Free
        /\ observer' = [observer EXCEPT ![o] = IdleObserver]
        /\ UNCHANGED <<world, recovery, answers, operationsHistory>>

\* Mutant: the lock is not released on an exception.
AlertRaisesLocked(o) ==
    /\ UNCHANGED alertLock
    /\ observer' = [observer EXCEPT ![o] = IdleObserver]
    /\ answers' = IF o = Monitor THEN <<>> ELSE answers

\* The exception releases the lock; it ends the monitor's round, and a
\* reporter logs it.
AlertRaises(o) ==
    /\ alertLock' = Free
    /\ observer' = [observer EXCEPT ![o] = IdleObserver]
    /\ answers' = IF o = Monitor THEN <<>> ELSE answers

\* The sequence number exists: the memory is behind the rows.
SaveConflicts(o) ==
    /\ observer[o].step = "save" /\ SequenceTaken(observer[o].key)
    /\ AlertRaises(o)
    /\ UNCHANGED <<world, recovery, alerts, alertRows, operationsHistory>>

\* The write fails before its commit, or its answer is lost after it.
SaveAlertFails(o) ==
    /\ observer[o].step = "save" /\ alertFaults < MaxAlertFaults
    /\ alertFaults' = alertFaults + 1
    /\ AlertRaises(o)
    /\ \/ UNCHANGED <<alertRows, answersLost>>
       \/ ~SequenceTaken(observer[o].key) /\ InsertAlert(o) /\ answersLost' = answersLost + 1
    /\ UNCHANGED <<world, recovery, alerts, reports, freshProbes>>

\* The process dies and starts again: the recovery state is new, the alerts
\* come from their rows.
CrashOperations ==
    /\ alertFaults < MaxAlertFaults
    /\ alertFaults' = alertFaults + 1
    /\ healthy' = [d \in Dependencies |-> TRUE]
    /\ successes' = [d \in Dependencies |-> 0]
    /\ latched' = FALSE
    /\ sequences' = [k \in AlertKeys |-> Len(alertRows[k])]
    /\ activeAlerts' = {k \in AlertKeys : alertRows[k] # <<>> /\
                            alertRows[k][Len(alertRows[k])] = "OPENED"}
    /\ alertLock' = Free
    /\ observer' = [o \in Observers |-> IdleObserver]
    /\ answers' = <<>>
    /\ UNCHANGED <<world, alertRows, reports, freshProbes, answersLost>>

AlertStep(o) == LockAlerts(o) \/ SaveAlert(o) \/ SaveConflicts(o)

OperationsNext ==
    \/ EnvironmentChanges
    \/ Probe \/ MonitorObserves \/ EvaluateSlos \/ SyncSloAlert \/ EvaluateSlosFails
    \/ \E o \in Reporters, d \in Critical : ReportFailure(o, d)
    \/ \E o \in Observers : AlertStep(o) \/ SaveAlertFails(o)
    \/ CrashOperations

\* The monitor loop goes on, and a task that waits for a free lock or for the
\* database gets its turn.
OperationsFairness ==
    /\ WF_operationsVars(Probe \/ MonitorObserves \/ EvaluateSlos \/ SyncSloAlert)
    /\ \A o \in Observers : WF_operationsVars(AlertStep(o))

OperationsSpec == OperationsInit /\ [][OperationsNext]_operationsVars /\ OperationsFairness

-----------------------------------------------------------------------------
(* Properties *)

OperationsTypeOK ==
    /\ monitoring \in BOOLEAN
    /\ up \in [Dependencies -> BOOLEAN] /\ objective \in [Slos -> Windows]
    /\ healthy \in [Dependencies -> BOOLEAN]
    /\ successes \in [Dependencies -> 0..RecoverySuccesses]
    /\ latched \in BOOLEAN
    /\ activeAlerts \subseteq AlertKeys /\ sequences \in [AlertKeys -> Nat]
    /\ alertRows \in [AlertKeys -> Seq(AlertEvents)]
    /\ alertLock \in Observers \cup {Free}
    /\ observer \in [Observers -> [step : {"idle", "lock", "save"},
                                   key : AlertKeys \cup {"none"},
                                   event : AlertEvents \cup {"none"}]]
    /\ reports \in 0..MaxReports /\ freshProbes \in 0..RecoverySuccesses
    /\ alertFaults \in 0..MaxAlertFaults /\ answersLost \in 0..MaxAlertFaults

\* The alert events of a key alternate OPENED, RESOLVED, OPENED, ... although
\* several tasks decide on the alerts they saw before they got the lock, and
\* although a lost answer or a restart separates the memory from the rows.
AlertLifecycle ==
    \A k \in AlertKeys : \A i \in DOMAIN alertRows[k] :
        alertRows[k][i] = IF i % 2 = 1 THEN "OPENED" ELSE "RESOLVED"

\* Decisions come back after a halt only when the process restarts or after
\* probes that began after the last observed failure: one less than
\* recovery_successes_required, because the first success may still come from
\* the round that was under way.
HaltNeedsFreshProbes ==
    [][~DecisionsAllowed /\ DecisionsAllowed' =>
         \/ freshProbes + 1 >= RecoverySuccesses
         \/ CrashOperations]_operationsVars

\* When the monitor runs, the dependencies stay up and no answer about an
\* alert was lost, the halt ends: the monitor's own failures only delay it.
HaltEnds ==
    monitoring /\ <>[](\A d \in Dependencies : up[d]) /\ [](answersLost = 0)
        => <>[]DecisionsAllowed
=============================================================================
