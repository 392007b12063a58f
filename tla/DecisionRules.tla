---------------------------- MODULE DecisionRules ---------------------------
(***************************************************************************)
(* The rules a decision passes, as functions of their inputs: the weighted *)
(* consolidation of the critical agents (orchestrator/decision_engine.py), *)
(* the strategy's regime rules (strategy/engine.py), the exclusion of      *)
(* agents from the consensus and the drift that causes it                  *)
(* (orchestrator/portfolio_consensus.py), the exposure limits and value at *)
(* risk (risk/portfolio.py), and the search for a size that fits           *)
(* (risk/manager.py).                                                      *)
(*                                                                         *)
(* Probabilities and scores are percentages, weights hundredths, notionals *)
(* units of equity; arithmetic is exact where the code uses floats.        *)
(***************************************************************************)
EXTENDS Integers, Sequences, FiniteSets, FiniteSetsExt

-----------------------------------------------------------------------------
(* DecisionEngine.consolidate *)

CriticalAgents == {"MarketDataAgent", "QuantAgent", "TrendAgent"}

Sign(signal) == IF signal = "BUY" THEN 1 ELSE IF signal = "SELL" THEN -1 ELSE 0
Magnitude(x) == IF x < 0 THEN -x ELSE x
Within(x, low, high) == IF x < low THEN low ELSE IF x > high THEN high ELSE x

\* round: the nearest integer, the even one of two.
Rounded(num, den) ==
    LET floor == num \div den
        rest == 2 * (num % den)
    IN  IF rest > den \/ (rest = den /\ floor % 2 = 1) THEN floor + 1 ELSE floor

\* Critical agents without a completed output, or that block.
Refusing(outputs) ==
    {n \in CriticalAgents : \/ n \notin DOMAIN outputs
                            \/ outputs[n].status # "COMPLETED"
                            \/ outputs[n].signal = "BLOCK"}

StrongConflict(quant, trend) ==
    /\ Sign(quant.signal) * Sign(trend.signal) = -1
    /\ quant.confidence >= 70 /\ trend.confidence >= 70

\* Ten thousandths: 40% QuantAgent, 30% TrendAgent.
WeightedDirection(quant, trend) ==
    40 * Sign(quant.signal) * quant.confidence + 30 * Sign(trend.signal) * trend.confidence

\* Directional strength scaled by 70% plus 20% of the data quality plus 10% of
\* the operational context, which _evaluate leaves at 100; five points less for
\* every distinct warning of the critical agents and for a mediocre quality.
DecisionConfidence(outputs, quality) ==
    LET warnings == UNION {outputs[n].warnings : n \in DOMAIN outputs \cap CriticalAgents}
                    \cup (IF quality < 80 THEN {"DATA_QUALITY_ISSUE"} ELSE {})
        strength == Magnitude(WeightedDirection(outputs["QuantAgent"], outputs["TrendAgent"]))
        scaled == Rounded(strength * (800 + 2 * quality), 70000)
    IN  Within(scaled - 5 * Cardinality(warnings), 0, 100)

\* The candidate action and its confidence.
Consolidate(outputs, quality, minimum) ==
    LET quant == outputs["QuantAgent"]
        trend == outputs["TrendAgent"]
        weight == WeightedDirection(quant, trend)
        confidence == DecisionConfidence(outputs, quality)
    IN  IF Refusing(outputs) # {} \/ quality < 60 THEN [action |-> "BLOCK", confidence |-> 0]
        ELSE IF StrongConflict(quant, trend) THEN [action |-> "WAIT", confidence |-> 0]
        ELSE IF Magnitude(weight) <= 1500
             THEN [action |-> "HOLD", confidence |-> Within(confidence, 0, 50)]
        ELSE IF confidence < minimum THEN [action |-> "WAIT", confidence |-> confidence]
        ELSE [action |-> IF weight > 0 THEN "BUY" ELSE "SELL", confidence |-> confidence]

-----------------------------------------------------------------------------
(* StrategyEngine *)

\* select: the first enabled strategy for the series, or 0.
SelectStrategy(strategies) ==
    LET fitting == {i \in DOMAIN strategies : strategies[i].enabled /\ strategies[i].matches}
    IN  IF fitting = {} THEN 0 ELSE Min(fitting)

\* evaluate
StrategyEvaluation(strategies, regime) ==
    LET chosen == SelectStrategy(strategies)
        strategy == strategies[chosen]
    IN  IF chosen = 0 THEN [allowed |-> FALSE, minimum |-> 100]
        ELSE [allowed |-> regime \notin strategy.blocked,
              minimum |-> IF regime \in strategy.reduced \ strategy.blocked
                          THEN Min({100, strategy.minimum + strategy.penalty})
                          ELSE strategy.minimum]

-----------------------------------------------------------------------------
(* Agents of the weighted consensus *)

\* AgentEvaluationService.probability, in half percents.
ProbabilityUp(signal, confidence) == 100 + Sign(signal) * confidence

\* settle: a cohort of probabilities, and what happened (200, 100 or 0).  Brier
\* losses are squared half percents; `correct' is empty without a direction.
Brier(probability, realized) == (probability - realized) * (probability - realized)

ForecastOutcome(probabilities, i, realized) ==
    LET n == Len(probabilities)
        total == MapThenSumSet(LAMBDA j : probabilities[j], 1..n)
        others == IF n = 1 THEN 100 ELSE total - probabilities[i]
        rest == Max({1, n - 1})
        p == probabilities[i]
    IN  [correct |-> IF p = 100 \/ realized = 100 THEN {} ELSE {(p > 100) = (realized = 200)},
         brier |-> Brier(p, realized),
         \* the loss without the forecast less the loss with it, times (rest * n)^2
         marginal |-> n * n * Brier(others, realized * rest)
                      - rest * rest * Brier(total, realized * n)]

\* scorecards: sums over the settled outcomes of an agent.
Scorecard(settled) ==
    LET directional == {i \in DOMAIN settled : settled[i].correct # {}}
    IN  [samples |-> Len(settled), directional |-> Cardinality(directional),
         hits |-> Cardinality({i \in directional : settled[i].correct = {TRUE}}),
         brier |-> MapThenSumSet(LAMBDA i : settled[i].brier, DOMAIN settled),
         marginal |-> MapThenSumSet(LAMBDA i : settled[i].marginal, DOMAIN settled)]

\* DriftMonitor.observe on the changes from the reference to the current window;
\* `accuracy' is absent when a window has no directional forecast.
DriftSeverity(delta, limits) ==
    LET reaches(part) == \/ delta.accuracy # {} /\ part * Min(delta.accuracy) <= -limits.accuracy
                         \/ part * delta.brier >= limits.brier
                         \/ part * delta.marginal <= -limits.marginal
    IN  IF reaches(1) THEN "CRITICAL" ELSE IF reaches(2) THEN "WARNING" ELSE "NONE"

\* What evaluate asks of an agent before it may weigh in.
EligibleAgent(card, experiment, severity) ==
    /\ card.completed
    /\ card.samples >= experiment.samples /\ card.directional >= experiment.directional
    /\ card.accuracy >= experiment.accuracy
    /\ card.brier <= experiment.brier
    /\ card.marginal > experiment.marginal
    /\ severity # "CRITICAL"

\* In millionths, before the floor of 1e-9.
RawScore(card) == card.accuracy * (100 - card.brier) * (100 + card.marginal)

-----------------------------------------------------------------------------
(* Portfolio limits: a position is [id, symbol, strategy, side, notional] *)

Exposure(positions, Counts(_)) ==
    MapThenSumSet(LAMBDA p : p.notional, {p \in positions : Counts(p)})

GrossExposure(positions) == Exposure(positions, LAMBDA p : TRUE)
NetExposure(positions) == MapThenSumSet(LAMBDA p : Sign(p.side) * p.notional, positions)

\* exposure_snapshot: what the portfolio is with the proposed position.
ExposureSnapshot(positions, proposed) ==
    LET symbol == Exposure(positions, LAMBDA p : p.symbol = proposed.symbol)
    IN  [gross |-> GrossExposure(positions) + proposed.notional,
         net |-> NetExposure(positions) + Sign(proposed.side) * proposed.notional,
         symbol |-> symbol + proposed.notional,
         strategy |-> Exposure(positions, LAMBDA p : p.strategy = proposed.strategy)
                      + proposed.notional]

\* remaining_notional_capacity: what every absolute limit leaves.
RemainingCapacity(positions, proposed, limits) ==
    LET now == ExposureSnapshot(positions, [proposed EXCEPT !.notional = 0])
    IN  Max({0, Min({proposed.notional,
                     limits.gross - now.gross,
                     limits.net - Sign(proposed.side) * now.net,
                     limits.symbol - now.symbol,
                     limits.strategy - now.strategy,
                     limits.single})})

\* PortfolioConstructionService.propose: the target weight scaled by the
\* confidence of a direction, under the same limits.
ProposedNotional(positions, candidate, confidence, target, limits) ==
    LET requested == IF Sign(candidate.side) = 0 THEN 0 ELSE (target * confidence) \div 100
    IN  RemainingCapacity(positions, [candidate EXCEPT !.notional = requested], limits)

\* portfolio_var over as many losses as there are observations: the loss at the
\* rank ceil(confidence * n), counted from the smallest.
ValueAtRisk(losses, num, den) ==
    LET n == Len(losses)
        rank == Within((num * n + den - 1) \div den, 1, n)
        atMost(v) == Cardinality({i \in 1..n : losses[i] <= v})
    IN  Min({losses[i] : i \in {j \in 1..n : atMost(losses[j]) >= rank}})

\* The search in check for a size whose value at risk fits (is in `fitting'):
\* `rounds' halvings between zero and the proposed size.
SizeSearch(proposed, rounds, fitting) ==
    LET bounds[r \in 0..rounds] ==
            IF r = 0 THEN <<0, proposed>>
            ELSE LET middle == (bounds[r - 1][1] + bounds[r - 1][2]) \div 2
                 IN  IF middle \in fitting THEN <<middle, bounds[r - 1][2]>>
                                           ELSE <<bounds[r - 1][1], middle>>
    IN  bounds[rounds][1]
=============================================================================
