----------------------------- MODULE Consensus ------------------------------
(***************************************************************************)
(* Performance-weighted consensus (orchestrator/portfolio_consensus.py):   *)
(* the event-sourced registry of experiments, which one is active, and     *)
(* the evaluation of a decision under it, with the append-only rows of     *)
(* database/repositories/repository.py.                                    *)
(*                                                                         *)
(* API callers and a decision cycle run as concurrent tasks; a write may   *)
(* fail, or its answer may be lost after the commit, and the process may   *)
(* restart.  Scores and the weight cap are exact rationals.                *)
(***************************************************************************)
EXTENDS Integers, FiniteSets, FiniteSetsExt

CONSTANTS
    Experiments,        \* definitions other than the built-in SHADOW default
    Confirming,         \* those of mode CONFIRMATION
    Callers,            \* concurrent API calls
    ShadowAgents,       \* SHADOW agents with an output
    Scores,             \* raw scores an eligible agent may have
    Votes,              \* an agent's probability of a rise, in half percents
    BuyThreshold, SellThreshold,    \* the experiment's, in half percents
    CapNum, CapDen,     \* maximum_agent_weight
    MinEligible,        \* minimum_eligible_agents
    EventTimes,         \* created_at of life cycle events
    MaxConsensusFaults  \* bound on failed writes and restarts

Default == "default"

\* ConsensusExperiment: the cap leaves room for a total weight of one.
ASSUME ConsensusAssumption ==
    /\ Confirming \subseteq Experiments /\ Default \notin Experiments
    /\ IsFiniteSet(ShadowAgents) /\ Scores \subseteq Nat \ {0}
    /\ CapNum \in Nat \ {0} /\ CapDen \in Nat \ {0}
    /\ MinEligible \in Nat \ {0} /\ MinEligible * CapNum >= CapDen
    /\ Votes \subseteq 0..200
    /\ BuyThreshold \in 101..199 /\ SellThreshold \in 1..99
    /\ EventTimes \subseteq Nat \ {0} /\ MaxConsensusFaults \in Nat

VARIABLES
    definitionRows, lifecycleRows,  \* consensus_experiments and their events
    known, lifecycle,               \* _experiments and _events
    caller,                         \* the event each API call is saving
    evaluating,                     \* the cycle's evaluation: experiment and baseline
    consensus,                      \* the last WeightedConsensus
    consensusFaults, writesLost     \* history: failures, and answers lost, so far

registry == <<definitionRows, lifecycleRows, known, lifecycle>>
consensusVars == <<registry, caller, evaluating, consensus, consensusFaults, writesLost>>

NoCall == [type |-> "none", experiment |-> Default, time |-> 0]
NoEvaluation == [experiment |-> "none", baseline |-> "WAIT"]
NoConsensus == [status |-> "NONE", experiment |-> Default, baseline |-> "WAIT",
                final |-> "WAIT", scores |-> <<>>, capped |-> {}]

LatestTime(events) == Max({0} \cup {e.time : e \in events})

LifecycleEvents == [type : {"none", "CREATED", "ACTIVATED", "RETIRED"},
                    experiment : Experiments \cup {Default}, time : EventTimes \cup {0}]

\* weighted_consensus_snapshots, without the agents' weights.
ConsensusRow == [status : {"NONE", "INSUFFICIENT_DATA", "READY"},
                 experiment : Experiments \cup {Default}, baseline : {"BUY", "WAIT"},
                 final : {"BUY", "WAIT"}]

\* _activated_experiment_id: the last activation, unless it was retired since.
ActivatedExperiment(events) ==
    LET activations == {e \in events : e.type = "ACTIVATED"}
        last == CHOOSE e \in activations : \A f \in activations : f.time <= e.time
        retired == \E e \in events : /\ e.type = "RETIRED" /\ e.time > last.time
                                     /\ e.experiment = last.experiment
    IN  IF activations = {} \/ retired THEN Default ELSE last.experiment

ConsensusInit ==
    /\ definitionRows = {} /\ lifecycleRows = {} /\ known = {} /\ lifecycle = {}
    /\ caller = [c \in Callers |-> NoCall]
    /\ evaluating = NoEvaluation /\ consensus = NoConsensus
    /\ consensusFaults = 0 /\ writesLost = 0

-----------------------------------------------------------------------------
(* ConsensusExperimentService *)

CallIdle(c) == caller[c] = NoCall

\* The client names created_at; no two events share it, and a call may be
\* repeated with the same event.
Begins(c, event) ==
    /\ CallIdle(c)
    /\ \A f \in lifecycleRows \cup {caller[d] : d \in Callers} : f.time = event.time => f = event
    /\ caller' = [caller EXCEPT ![c] = event]
    /\ UNCHANGED <<registry, evaluating, consensus, consensusFaults, writesLost>>

\* register, up to the write: an experiment that is not known.
RegisterExperiment(c, e, t) ==
    /\ e \notin known
    /\ Begins(c, [type |-> "CREATED", experiment |-> e, time |-> t])

\* record_event, up to the write: not before the latest event, not activating
\* what is active, retiring only what is active.
RecordLifecycle(c, type, e, t) ==
    LET active == ActivatedExperiment(lifecycle)
    IN  /\ e \in known
        /\ t > LatestTime(lifecycle)
        /\ type = "ACTIVATED" => active # e
        /\ type = "RETIRED" => active = e
        /\ Begins(c, [type |-> type, experiment |-> e, time |-> t])

\* The transaction adds a definition with its CREATED event, or an event; what
\* is there already is confirmed, a different definition of the same name and
\* version is refused.
Conflicting(event) ==
    event.type = "CREATED" /\ event.experiment \in definitionRows /\ event \notin lifecycleRows

\* Mutant: a retirement is not stored.
SavedRowsButRetired(event) ==
    /\ lifecycleRows' = IF event.type = "RETIRED" THEN lifecycleRows
                                                  ELSE lifecycleRows \cup {event}
    /\ definitionRows' = definitionRows \cup {event.experiment}

\* The triggers on the governance tables refuse every UPDATE and DELETE.
AppendsTo(old, new) == old \subseteq new

SavedRows(event) ==
    /\ lifecycleRows' = lifecycleRows \cup {event}
    /\ definitionRows' = definitionRows \cup {event.experiment}
    /\ AppendsTo(lifecycleRows, lifecycleRows') /\ AppendsTo(definitionRows, definitionRows')

SaveLifecycle(c) ==
    LET event == caller[c]
    IN  /\ ~CallIdle(c)
        /\ IF Conflicting(event) THEN UNCHANGED registry
           ELSE /\ SavedRows(event)
                /\ lifecycle' = lifecycle \cup {event}
                /\ known' = known \cup {event.experiment}
        /\ caller' = [caller EXCEPT ![c] = NoCall]
        /\ UNCHANGED <<evaluating, consensus, consensusFaults, writesLost>>

\* The write raises, before its commit or with its answer lost after it.
SaveLifecycleFails(c) ==
    /\ ~CallIdle(c) /\ consensusFaults < MaxConsensusFaults
    /\ consensusFaults' = consensusFaults + 1
    /\ \/ UNCHANGED <<definitionRows, lifecycleRows, writesLost>>
       \/ ~Conflicting(caller[c]) /\ SavedRows(caller[c]) /\ writesLost' = writesLost + 1
    /\ caller' = [caller EXCEPT ![c] = NoCall]
    /\ UNCHANGED <<known, lifecycle, evaluating, consensus>>

\* The process restarts and initialize reads the rows.
RestartConsensus ==
    /\ consensusFaults < MaxConsensusFaults
    /\ consensusFaults' = consensusFaults + 1
    /\ known' = definitionRows /\ lifecycle' = lifecycleRows
    /\ caller' = [c \in Callers |-> NoCall]
    /\ evaluating' = NoEvaluation /\ consensus' = NoConsensus
    /\ UNCHANGED <<definitionRows, lifecycleRows, writesLost>>

-----------------------------------------------------------------------------
(* WeightedConsensusService.evaluate *)

\* The active experiment is read once, before the scorecards and the drift
\* observations are awaited.  A behaviour follows one evaluation per process.
BeginEvaluation(baseline) ==
    /\ evaluating = NoEvaluation /\ consensus = NoConsensus
    /\ evaluating' = [experiment |-> ActivatedExperiment(lifecycle), baseline |-> baseline]
    /\ UNCHANGED <<registry, caller, consensus, consensusFaults, writesLost>>

\* One round of _capped_weights: whoever would exceed the cap of what is left
\* is capped.  Weights are multiples of 1 / CapDen.
MoreCapped(scores, capped) ==
    LET free == DOMAIN scores \ capped
        total == MapThenSumSet(LAMBDA a : scores[a], free)
        mass == CapDen - CapNum * Cardinality(capped)
    IN  capped \cup {a \in free : mass * scores[a] > CapNum * total}

\* Mutant: what capping frees is handed out without looking at the cap again.
CappedOnce(scores) == MoreCapped(scores, {})

CappedAgents(scores) ==
    LET round[r \in Nat] == IF r = 0 THEN {} ELSE MoreCapped(scores, round[r - 1])
    IN  round[Cardinality(DOMAIN scores)]

\* The signal of the agents' weighted probability: capped agents weigh the
\* cap, the others share the rest by score.
WeightedSignal(scores, votes) ==
    LET capped == CappedAgents(scores)
        free == DOMAIN scores \ capped
        total == IF free = {} THEN 1 ELSE MapThenSumSet(LAMBDA a : scores[a], free)
        mass == CapDen - CapNum * Cardinality(capped)
        probability == CapNum * total * MapThenSumSet(LAMBDA a : votes[a], capped)
                       + mass * MapThenSumSet(LAMBDA a : scores[a] * votes[a], free)
    IN  IF probability >= BuyThreshold * CapDen * total THEN "BUY"
        ELSE IF probability <= SellThreshold * CapDen * total THEN "SELL" ELSE "HOLD"

\* Mutant: the mode of the experiment is not looked at.
FinalActionAnyMode(experiment, baseline, signal) ==
    IF experiment # "none" /\ baseline \in {"BUY", "SELL"} /\ signal # baseline
    THEN "WAIT" ELSE baseline

\* CONFIRMATION keeps a direction the agents share and tightens any other to
\* WAIT; SHADOW never changes the decision.
FinalAction(experiment, baseline, signal) ==
    IF experiment \in Confirming /\ baseline \in {"BUY", "SELL"} /\ signal # baseline
    THEN "WAIT" ELSE baseline

\* Agents without enough, good enough and stable evidence are excluded; too
\* few eligible ones leave the decision as it is.
FinishEvaluation ==
    /\ evaluating # NoEvaluation
    /\ \E eligible \in SUBSET ShadowAgents :
         IF Cardinality(eligible) < MinEligible
         THEN consensus' = [NoConsensus EXCEPT !.status = "INSUFFICIENT_DATA",
                              !.experiment = evaluating.experiment,
                              !.baseline = evaluating.baseline, !.final = evaluating.baseline]
         ELSE \E scores \in [eligible -> Scores], votes \in [eligible -> Votes] :
                consensus' = [status |-> "READY", experiment |-> evaluating.experiment,
                              baseline |-> evaluating.baseline,
                              final |-> FinalAction(evaluating.experiment, evaluating.baseline,
                                                    WeightedSignal(scores, votes)),
                              scores |-> scores, capped |-> CappedAgents(scores)]
    /\ evaluating' = NoEvaluation
    /\ UNCHANGED <<registry, caller, consensusFaults, writesLost>>

ConsensusNext ==
    \/ \E c \in Callers, e \in Experiments, t \in EventTimes :
          \/ RegisterExperiment(c, e, t)
          \/ \E type \in {"ACTIVATED", "RETIRED"} : RecordLifecycle(c, type, e, t)
    \/ \E c \in Callers : SaveLifecycle(c) \/ SaveLifecycleFails(c)
    \/ RestartConsensus
    \/ \E baseline \in {"BUY", "WAIT"} : BeginEvaluation(baseline)
    \/ FinishEvaluation

ConsensusSpec == ConsensusInit /\ [][ConsensusNext]_consensusVars

-----------------------------------------------------------------------------
(* Properties *)

ConsensusTypeOK ==
    /\ definitionRows \subseteq Experiments /\ known \subseteq Experiments
    /\ lifecycleRows \subseteq LifecycleEvents /\ lifecycle \subseteq LifecycleEvents
    /\ caller \in [Callers -> LifecycleEvents]
    /\ [f \in DOMAIN consensus \ {"scores", "capped"} |-> consensus[f]] \in ConsensusRow
    /\ consensusFaults \in 0..MaxConsensusFaults /\ writesLost \in 0..MaxConsensusFaults

\* A restart keeps the active experiment: unless an answer was lost, the
\* registry in memory is what the rows say, whatever calls were under way.
RestartKeepsExperiment ==
    [][RestartConsensus /\ writesLost = 0 =>
         ActivatedExperiment(lifecycle') = ActivatedExperiment(lifecycle)]_consensusVars

\* A direction is vetoed only under an experiment in CONFIRMATION mode that
\* was durably activated, even when it is retired during the evaluation, and
\* a veto is never anything but WAIT.
VetoNeedsActivation ==
    consensus.final # consensus.baseline =>
        /\ consensus.final = "WAIT"
        /\ consensus.experiment \in Confirming
        /\ \E e \in lifecycleRows : e.type = "ACTIVATED" /\ e.experiment = consensus.experiment

\* No agent's weight exceeds the cap, and the weights sum to one: the mass
\* left after capping is positive while an uncapped agent is left, and zero
\* otherwise.
WeightsCapped ==
    LET capped == consensus.capped
        free == DOMAIN consensus.scores \ capped
        mass == CapDen - CapNum * Cardinality(capped)
        total == MapThenSumSet(LAMBDA a : consensus.scores[a], free)
    IN  consensus.status = "READY" =>
          /\ mass >= 0 /\ (free = {} => mass = 0)
          /\ \A a \in free : mass * consensus.scores[a] <= CapNum * total
=============================================================================
