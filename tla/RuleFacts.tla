------------------------------ MODULE RuleFacts -----------------------------
(***************************************************************************)
(* Facts about the rules of DecisionRules and MarketRules, which TLC       *)
(* evaluates over sampled inputs whenever it checks a module that extends  *)
(* this one.  The boundaries of every rule are among the samples.          *)
(***************************************************************************)
EXTENDS MarketRules

Output(signal, confidence) ==
    [status |-> "COMPLETED", signal |-> signal, confidence |-> confidence, warnings |-> {}]
Outputs(quant, trend) ==
    [n \in CriticalAgents |-> CASE n = "QuantAgent" -> quant [] n = "TrendAgent" -> trend
                                [] OTHER -> Output("HOLD", 100)]
SampledOutputs ==
    {Output(s, c) : s \in {"BUY", "SELL", "HOLD"}, c \in {0, 30, 57, 58, 69, 70, 88, 100}}
Mirror(o) == [o EXCEPT !.signal = IF @ = "BUY" THEN "SELL"
                                  ELSE IF @ = "SELL" THEN "BUY" ELSE @]

\* With the minimum confidence of any strategy (58 or more would do) a direction
\* needs both directional agents on its side, and buying and selling are treated
\* alike.
ASSUME DirectionNeedsAgreement ==
    \A quant, trend \in SampledOutputs, quality \in {60, 79, 80, 100}, minimum \in {58, 70} :
        LET decision == Consolidate(Outputs(quant, trend), quality, minimum)
            mirrored == Consolidate(Outputs(Mirror(quant), Mirror(trend)), quality, minimum)
        IN  /\ decision.action \in {"BUY", "SELL"} =>
                    quant.signal = decision.action /\ trend.signal = decision.action
            /\ mirrored.confidence = decision.confidence
            /\ Sign(mirrored.action) = -Sign(decision.action)

\* A critical agent that is missing, failed or blocks, or data of quality below
\* 60, blocks the decision however sure the others are.
ASSUME UnsoundInputBlocks ==
    LET sure == Outputs(Output("BUY", 100), Output("BUY", 100))
    IN  /\ \A n \in CriticalAgents : \A bad \in {[sure[n] EXCEPT !.status = "TIMEOUT"],
                                              [sure[n] EXCEPT !.signal = "BLOCK"]} :
              Consolidate([sure EXCEPT ![n] = bad], 100, 58).action = "BLOCK"
        /\ Consolidate(sure, 59, 58).action = "BLOCK"
        /\ Consolidate(sure, 60, 58).action = "BUY"

\* A regime a strategy treats with caution never asks for less confidence.
ASSUME CautionRaisesTheBar ==
    \A minimum, penalty \in {0, 10, 70, 95} :
        LET strategy == [enabled |-> TRUE, matches |-> TRUE, blocked |-> {"HIGH_VOLATILITY"},
                         reduced |-> {"RANGE"}, minimum |-> minimum, penalty |-> penalty]
            disabled == [strategy EXCEPT !.enabled = FALSE]
            in(regime) == StrategyEvaluation(<<disabled, strategy>>, regime)
        IN  /\ in("RANGE").allowed /\ in("RANGE").minimum >= in("BULL").minimum
            /\ ~in("HIGH_VOLATILITY").allowed
            /\ ~StrategyEvaluation(<<disabled>>, "BULL").allowed

\* An eligible agent has a positive score, so the floor of 1e-9 never decides a
\* weight, and drift that got worse is never rated milder.
ASSUME EligibleAgentsScore ==
    LET limits == [accuracy |-> 15, brier |-> 8, marginal |-> 3]
        rank == [NONE |-> 0, WARNING |-> 1, CRITICAL |-> 2]
        severity(a, b, m) ==
            DriftSeverity([accuracy |-> {a}, brier |-> b, marginal |-> m], limits)
    IN  /\ \A accuracy, brier, marginal \in {0, 1, 24, 25, 50, 100} :
              LET card == [completed |-> TRUE, samples |-> 100, directional |-> 50,
                           accuracy |-> accuracy, brier |-> brier, marginal |-> marginal]
              IN  EligibleAgent(card, [samples |-> 100, directional |-> 50, accuracy |-> 52,
                                       brier |-> 24, marginal |-> 0], "NONE")
                    => RawScore(card) > 0
        /\ \A a, b, m \in -16..9 :
              /\ rank[severity(a - 1, b, m)] >= rank[severity(a, b, m)]
              /\ rank[severity(a, b + 1, m)] >= rank[severity(a, b, m)]
              /\ rank[severity(a, b, m - 1)] >= rank[severity(a, b, m)]

\* Settlement is fair: agents that agree contribute nothing to each other, one
\* that is surer of what happened than the others together helped, one that is
\* less sure harmed, and nobody is right or wrong about a price that stood still.
ASSUME MarginalRewardsInsight ==
    \A cohort \in [1..3 -> {0, 50, 100, 150, 200}], realized \in {0, 100, 200} :
        LET outcome(i) == ForecastOutcome(cohort, i, realized)
            doubt(i) == Magnitude(2 * cohort[i] - 2 * realized)
            mates == Magnitude(cohort[2] + cohort[3] - 2 * realized)
        IN  /\ cohort[1] = cohort[2] /\ cohort[2] = cohort[3] => outcome(1).marginal = 0
            /\ realized # 100 => (outcome(1).marginal > 0) = (doubt(1) < mates)
            /\ realized # 100 => (outcome(1).marginal < 0) = (doubt(1) > mates)
            /\ realized = 100 => outcome(1).correct = {}
            /\ LET card == Scorecard([i \in 1..3 |-> outcome(i)])
               IN  card.hits <= card.directional /\ card.directional <= card.samples

\* Whatever is held, the capacity keeps every absolute limit that held before,
\* and a proposal never asks the risk manager for more than it.
ASSUME CapacityKeepsLimits ==
    LET Position(i, symbol, side, n) ==
            [id |-> i, symbol |-> symbol, strategy |-> symbol, side |-> side, notional |-> n]
        limits == [gross |-> 6, net |-> 4, symbol |-> 3, strategy |-> 3, single |-> 2]
    IN  \A s1, s2 \in {"x", "y"}, d1, d2, d \in {"BUY", "SELL"}, n1, n2, n \in 0..3 :
          LET held == {Position(1, s1, d1, n1), Position(2, s2, d2, n2)}
              wanted == Position(3, "x", d, n)
              size == RemainingCapacity(held, wanted, limits)
              after == ExposureSnapshot(held, [wanted EXCEPT !.notional = size])
          IN  /\ size > 0 => /\ after.gross <= limits.gross /\ after.symbol <= limits.symbol
                             /\ after.strategy <= limits.strategy /\ size <= limits.single
                             /\ Sign(d) * after.net <= limits.net
              /\ ProposedNotional(held, wanted, 100, n, limits) = size

\* At least the confidence's share of the losses is within the value at risk,
\* and it is the smallest loss of which that is true.
ASSUME ValueAtRiskIsQuantile ==
    \A losses \in [1..4 -> 0..3], num \in {1, 90, 99, 100} :
        LET share(v) == Cardinality({i \in 1..4 : losses[i] <= v})
        IN  \A v \in 0..3 : (100 * share(v) >= 4 * num /\ share(v) > 0)
                               = (v >= ValueAtRisk(losses, num, 100))

\* The search never returns a size whose value at risk was not checked to fit,
\* also when a larger size fits and a smaller one does not (a hedge).
ASSUME SearchedSizeFits ==
    \A fitting \in SUBSET (0..8), proposed \in 1..8 :
        SizeSearch(proposed, 4, fitting) \in fitting \cup {0}

\* The measured offset of a clock is off by at most half the round trip, so a
\* SYNCED source is within the warning limit plus that of the local clock.
ASSUME SyncedClockIsClose ==
    LET limits == [warningOffset |-> 1, unsafeOffset |-> 3, warningTrip |-> 2, unsafeTrip |-> 4]
    IN  \A trip \in 0..5 : \A read \in 0..trip, skew \in -5..5 :
          ClockStatus(0, read + skew, trip, limits) = "SYNCED" =>
              2 * Magnitude(skew) <= 2 * limits.warningOffset + trip

\* A series that is scored 60 or more has neither an ordering error nor more than
\* two other faults; an empty or disordered one is INVALID.
ASSUME GoodScoreMeansSound ==
    \A closed \in [1..3 -> 0..4], now \in {4, 9} :
        LET candles == [i \in 1..3 |-> [closed |-> closed[i], range |-> 1]]
            report == QualityReport(candles, 1, 1, now)
        IN  /\ report.score >= 60 => ~OutOfOrder(candles)
            /\ OutOfOrder(candles) => report.status = "INVALID"
            /\ report.status = "VALID" =>
                  \A i \in 2..3 : candles[i].closed - candles[i - 1].closed = 1

\* Normalising never raises a quantity, and by less than a step it lowers it, so
\* the venue's order stays within the approved notional.
ASSUME NormalizedWithinApproval ==
    \A step \in 1..4, minimum \in 0..3, maximum \in {0, 5}, quantity \in 0..9, price \in 1..2 :
        LET rules == [step |-> step, minimum |-> minimum, maximum |-> maximum,
                      minimumNotional |-> 4]
            sent == NormalizedQuantity(quantity, price, rules)
        IN  UsableRules(rules) /\ sent # 0 =>
              /\ sent <= quantity /\ quantity - sent < step /\ sent % step = 0
              /\ sent * price >= 4 /\ (maximum # 0 => sent <= maximum)

\* A round trip at one reference price never earns money, and the liquidation
\* price is on the losing side as long as the maintenance margin is covered.
ASSUME SimulationIsConservative ==
    \A side \in {"BUY", "SELL"}, reference \in {1, 50}, adverse \in {0, 10, 500} :
        /\ NetPnl(side, OpenPrice(side, reference, adverse),
                  ClosePrice(side, reference, adverse), 0, 0) <= 0
        /\ \A leverage \in {1, 5, 20}, maintenance \in {0, 50} :
              SideOf(side) * (LiquidationPrice(side, 1000, leverage, maintenance) - 1000) < 0

\* A candle that reaches both the stop and the target is booked as the loss, and
\* a liquidated order exits no better than at its liquidation price.
ASSUME WorstExitFirst ==
    \A side \in {"BUY", "SELL"}, low \in 0..6, high \in 0..6, open \in 0..6 :
        LET order == [side |-> side, liquidation |-> IF side = "BUY" THEN 1 ELSE 5,
                      stop |-> IF side = "BUY" THEN 2 ELSE 4,
                      target |-> IF side = "BUY" THEN 4 ELSE 2]
            exit == ExitOf(order, [low |-> low, high |-> high, open |-> open])
        IN  low <= open /\ open <= high =>
              /\ low <= 2 /\ high >= 4 => exit.reason # "TAKE_PROFIT"
              /\ exit.reason = "LIQUIDATION" =>
                    SideOf(side) * (exit.price - order.liquidation) <= 0
              /\ (exit.reason = "none") = (low > 2 /\ high < 4)

\* More candidates, or fewer profitable folds, never help through the gate.
ASSUME GateIsMonotone ==
    LET criteria == [folds |-> 3, trades |-> 30, ratio |-> 6000, median |-> 0,
                     expectancy |-> 0, drawdown |-> 10, noLiquidation |-> TRUE]
        passes(profitable, folds, candidates) ==
            GatePasses([folds |-> folds, trades |-> 30, profitable |-> profitable, median |-> 0,
                        expectancy |-> 0, drawdown |-> 10, liquidations |-> 0],
                       criteria, candidates, 5)
    IN  \A folds \in 1..8 : \A profitable \in 1..folds, candidates \in 1..3 :
          /\ passes(profitable, folds, candidates + 1) => passes(profitable, folds, candidates)
          /\ passes(profitable - 1, folds, candidates) => passes(profitable, folds, candidates)
          /\ passes(profitable, folds, candidates) => folds >= 5
=============================================================================
