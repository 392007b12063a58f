----------------------------- MODULE MCServices -----------------------------
(***************************************************************************)
(* The background services of one deployment, each checked by itself: a    *)
(* behaviour follows the service chosen at the start, the others stay as   *)
(* they began.  They share no variable, so the product of their states     *)
(* would show nothing more.                                                *)
(***************************************************************************)
EXTENDS EventLog, AgentRuntime, Backfill, Replay, Operations

CONSTANTS
    database, audit, broker,    \* dependencies, in the order of the probe
    successRate, latency        \* objectives, in the order they are evaluated

VARIABLE service

\* Every missing close time of a range is in exactly one detected gap, and no
\* stored one is in any.
ASSUME DetectGapsIsExact ==
    \A length \in 1..5 : \A present \in SUBSET (1..length) : \A t \in 1..length :
        Cardinality({g \in DetectGaps(present, length) : t \in g[1]..g[2]})
            = IF t \in present THEN 0 ELSE 1

MCProbeOrder == <<database, audit, broker>>
MCSloOrder == <<successRate, latency>>

\* For one failure allowed in ten, and for a latency of at most one: no data, no
\* use of the budget, all of it, more than it.
MCWindows == {<<0, 0>>, <<10, 0>>, <<10, 1>>, <<10, 2>>}

serviceVars == <<service, eventLogVars, agentVars, backfillVars, replayVars, operationsVars>>

ServicesInit ==
    /\ service \in {"events", "agents", "backfill", "replay", "operations"}
    /\ EventLogInit /\ AgentInit /\ BackfillInit /\ ReplayInit /\ OperationsInit
    /\ service # "events" => required
    /\ service # "operations" => ~monitoring

ServicesNext ==
    /\ UNCHANGED service
    /\ \/ /\ service = "events" /\ EventLogNext
          /\ UNCHANGED <<agentVars, backfillVars, replayVars, operationsVars>>
       \/ /\ service = "agents" /\ AgentNext
          /\ UNCHANGED <<eventLogVars, backfillVars, replayVars, operationsVars>>
       \/ /\ service = "backfill" /\ BackfillNext
          /\ UNCHANGED <<eventLogVars, agentVars, replayVars, operationsVars>>
       \/ /\ service = "replay" /\ ReplayNext
          /\ UNCHANGED <<eventLogVars, agentVars, backfillVars, operationsVars>>
       \/ /\ service = "operations" /\ OperationsNext
          /\ UNCHANGED <<eventLogVars, agentVars, backfillVars, replayVars>>

\* A service that was not chosen has nothing to do in its initial state, so
\* its fairness asks nothing of it.
ServicesSpec ==
    /\ ServicesInit /\ [][ServicesNext]_serviceVars
    /\ EventLogFairness /\ AgentFairness /\ BackfillFairness /\ OperationsFairness
=============================================================================
