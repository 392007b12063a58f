----------------------------- MODULE Evaluation -----------------------------
(***************************************************************************)
(* Settlement of the agents' one-candle forecasts (agents/evaluation.py)   *)
(* over append-only forecast and outcome rows.  Candles of one symbol and  *)
(* timeframe come from several venues; each venue's candles are observed   *)
(* in order, those of different venues concurrently.  A write may fail, or *)
(* its answer may be lost after the commit, and the process may restart.   *)
(* A forecast is named by the candle <<venue, time>> that produced it, an  *)
(* outcome by the candle that settles it.                                  *)
(***************************************************************************)
EXTENDS Naturals, Sequences, SequencesExt

CONSTANTS
    Venues,                 \* exchanges of the same symbol
    LastPeriod,             \* number of candle periods
    RestoreLimit,           \* rows of each table that initialize reads (100,000)
    MaxEvaluationFaults     \* bound on failed writes and restarts

ASSUME EvaluationAssumption ==
    /\ IsFiniteSet(Venues) /\ LastPeriod \in Nat /\ MaxEvaluationFaults \in Nat
    /\ RestoreLimit \in Nat \ {0}

VARIABLES
    forecastRows,       \* agent_forecasts
    outcomeRows,        \* agent_forecast_outcomes: forecast :> settling candle
    forecasts, outcomes,    \* the same in memory
    settled,            \* _settled_by_agent: forecasts in the order they settled
    watcher,            \* what each venue's task is doing
    evaluationFaults    \* history: failures so far

evaluationRows == <<forecastRows, outcomeRows>>
evaluationMemory == <<forecasts, outcomes, settled>>
evaluationVars == <<evaluationRows, evaluationMemory, watcher, evaluationFaults>>

Periods == 1..LastPeriod
Forecasts == Venues \X Periods
OutcomeRow == Forecasts \cup {<<>>}

EvaluationInit ==
    /\ forecastRows = {} /\ forecasts = {} /\ settled = <<>>
    /\ outcomeRows = [f \in Forecasts |-> <<>>]
    /\ outcomes = [f \in Forecasts |-> <<>>]
    /\ watcher = [v \in Venues |-> [step |-> "idle", period |-> 0, cohort |-> {}]]
    /\ evaluationFaults = 0

Candle(v) == <<v, watcher[v].period>>

\* settle: the known forecasts whose target is this candle's close and that
\* have no outcome yet.  The venue is not part of a forecast.
Cohort(period) == {f \in forecasts : outcomes[f] = <<>> /\ f[2] + 1 = period}

\* observe of the venue's next candle (some candles may be missing).
ObserveCandle(v, period) ==
    /\ watcher[v].step = "idle" /\ period > watcher[v].period
    /\ watcher' = [watcher EXCEPT ![v] = [step |-> IF Cohort(period) = {} THEN "forecast"
                                                                         ELSE "settle",
                                          period |-> period, cohort |-> Cohort(period)]]
    /\ UNCHANGED <<evaluationRows, evaluationMemory, evaluationFaults>>

\* Mutant: a second outcome replaces the stored one.
ContradictedNever(v) == FALSE

\* save_agent_forecast_outcomes refuses an outcome other than the stored one.
Contradicted(v) == \E f \in watcher[v].cohort : outcomeRows[f] \notin {<<>>, Candle(v)}

Settle(v, table) == [f \in Forecasts |-> IF f \in watcher[v].cohort THEN Candle(v) ELSE table[f]]

\* The outcomes are stored, then known; each forecast joins the history once,
\* those of one candle in any order.
SaveOutcomes(v) ==
    LET fresh == {f \in watcher[v].cohort : f \notin ToSet(settled)}
    IN  /\ watcher[v].step = "settle" /\ ~Contradicted(v)
        /\ outcomeRows' = Settle(v, outcomeRows)
        /\ outcomes' = Settle(v, outcomes)
        /\ \E new \in SetToSeqs(fresh) : settled' = settled \o new
        /\ watcher' = [watcher EXCEPT ![v].step = "forecast", ![v].cohort = {}]
        /\ UNCHANGED <<forecastRows, forecasts, evaluationFaults>>

EndObservation(v) == watcher' = [watcher EXCEPT ![v].step = "idle", ![v].cohort = {}]

\* The observation fails: this candle's forecasts are not recorded.
OutcomesRefused(v) ==
    /\ watcher[v].step = "settle" /\ Contradicted(v)
    /\ EndObservation(v)
    /\ UNCHANGED <<evaluationRows, evaluationMemory, evaluationFaults>>

\* save_agent_forecasts of this candle's outputs.
SaveForecasts(v) ==
    /\ watcher[v].step = "forecast"
    /\ forecastRows' = forecastRows \cup {Candle(v)}
    /\ forecasts' = forecasts \cup {Candle(v)}
    /\ EndObservation(v)
    /\ UNCHANGED <<outcomeRows, outcomes, settled, evaluationFaults>>

\* A write raises, before its commit or with its answer lost after it.
EvaluationWriteFails(v) ==
    /\ watcher[v].step # "idle" /\ evaluationFaults < MaxEvaluationFaults
    /\ evaluationFaults' = evaluationFaults + 1
    /\ \/ UNCHANGED evaluationRows
       \/ /\ watcher[v].step = "settle" /\ ~Contradicted(v)
          /\ outcomeRows' = Settle(v, outcomeRows) /\ UNCHANGED forecastRows
       \/ /\ watcher[v].step = "forecast"
          /\ forecastRows' = forecastRows \cup {Candle(v)} /\ UNCHANGED outcomeRows
    /\ EndObservation(v)
    /\ UNCHANGED evaluationMemory

\* The newest RestoreLimit rows; ties go by an identifier, so any way.
Newest(rows, time) ==
    {kept \in SUBSET rows :
        /\ Cardinality(kept) <= RestoreLimit
        /\ kept = rows \/ Cardinality(kept) = RestoreLimit
        /\ \A f \in kept, g \in rows \ kept : time[g] <= time[f]}

\* list_agent_forecasts and list_agent_forecast_outcomes: each table is cut by
\* itself, by forecast_at and by realized_at.
Settled == {f \in Forecasts : outcomeRows[f] # <<>>}
RestoredForecasts == Newest(forecastRows, [f \in Forecasts |-> f[2]])
RestoredOutcomes ==
    {[f \in Forecasts |-> IF f \in kept THEN outcomeRows[f] ELSE <<>>] :
        kept \in Newest(Settled, [f \in Settled |-> outcomeRows[f][2]])}

\* Mutant: an outcome counts whether its forecast was restored or not.
RebuiltFromOutcomes(known, answers) ==
    {s \in SetToSeqs({f \in Forecasts : answers[f] # <<>>}) :
        \A i, j \in DOMAIN s : i < j => answers[s[i]][2] <= answers[s[j]][2]}

\* _rebuild_settled_index: every known outcome whose forecast is known, in the
\* order of realized_at (ties by outcome_id, so in any order).
RebuiltHistories(known, answers) ==
    {s \in SetToSeqs({f \in known : answers[f] # <<>>}) :
        \A i, j \in DOMAIN s : i < j => answers[s[i]][2] <= answers[s[j]][2]}

\* initialize: the rows are read and the history is rebuilt.
RestartEvaluation ==
    /\ evaluationFaults < MaxEvaluationFaults
    /\ evaluationFaults' = evaluationFaults + 1
    /\ forecasts' \in RestoredForecasts /\ outcomes' \in RestoredOutcomes
    /\ settled' \in RebuiltHistories(forecasts', outcomes')
    /\ watcher' = [v \in Venues |-> [watcher[v] EXCEPT !.step = "idle", !.cohort = {}]]
    /\ UNCHANGED evaluationRows

EvaluationNext ==
    \/ \E v \in Venues :
          \/ \E period \in Periods : ObserveCandle(v, period)
          \/ SaveOutcomes(v) \/ OutcomesRefused(v) \/ SaveForecasts(v)
          \/ EvaluationWriteFails(v)
    \/ RestartEvaluation

EvaluationSpec == EvaluationInit /\ [][EvaluationNext]_evaluationVars

-----------------------------------------------------------------------------
(* Properties *)

EvaluationTypeOK ==
    /\ forecastRows \subseteq Forecasts /\ forecasts \subseteq Forecasts
    /\ outcomeRows \in [Forecasts -> OutcomeRow] /\ outcomes \in [Forecasts -> OutcomeRow]
    /\ settled \in Seq(Forecasts)
    /\ watcher \in [Venues -> [step : {"idle", "settle", "forecast"}, period : 0..LastPeriod,
                               cohort : SUBSET Forecasts]]
    /\ evaluationFaults \in 0..MaxEvaluationFaults

\* What the scorecards and the drift monitor read is durable evidence and the
\* same evidence: an outcome in memory is the stored one and belongs to a
\* stored forecast, and the settled history holds every known outcome of a
\* known forecast exactly once, whichever venue settled it, after any lost
\* answer, and after a restart that restores only a part of each table.
SettledHistoryIsDurable ==
    /\ \A f \in Forecasts :
          outcomes[f] # <<>> => f \in forecastRows /\ outcomes[f] = outcomeRows[f]
    /\ IsInjective(settled)
    /\ ToSet(settled) = {f \in forecasts : outcomes[f] # <<>>}

\* A stored outcome never changes, although two venues' candles of the same
\* close settle the same forecasts with different prices.
OutcomesAreFinal ==
    [][\A f \in Forecasts :
          outcomeRows[f] # <<>> => outcomeRows'[f] = outcomeRows[f]]_evaluationVars
=============================================================================
