----------------------------- MODULE MarketRules ----------------------------
(***************************************************************************)
(* The rules for market data and simulated execution, as functions of      *)
(* their inputs: clock evidence (market_data/clock.py), the quality score  *)
(* of a candle series (market_data/data_quality.py), the venue's quantity  *)
(* rules (execution/precision.py), fills, liquidation and exits of paper   *)
(* orders (paper_trading/execution.py, paper_trading/engine.py), and the   *)
(* windows and gates of walk-forward research (backtesting).               *)
(*                                                                         *)
(* Times are milliseconds or periods, prices and quantities multiples of a *)
(* smallest unit, rates basis points.                                      *)
(***************************************************************************)
EXTENDS DecisionRules, Combinatorics

-----------------------------------------------------------------------------
(* Clock evidence *)

\* evaluate_clock_probe: twice the offset of the source from the midpoint of
\* request and response (an odd round trip has no integer midpoint).
TwiceOffset(started, source, received) == 2 * source - (started + received)

ClockStatus(started, source, received, limits) ==
    LET offset == Magnitude(TwiceOffset(started, source, received))
        trip == received - started
    IN  IF offset > 2 * limits.unsafeOffset \/ trip > limits.unsafeTrip THEN "UNSAFE"
        ELSE IF offset > 2 * limits.warningOffset \/ trip > limits.warningTrip THEN "WARNING"
        ELSE "SYNCED"

\* ExchangeClockRegistry.verdict: recent evidence that is not UNSAFE.
ClockTrusted(observation, now, maxAge) ==
    /\ observation # <<>>
    /\ now - observation.received \in 0..maxAge
    /\ observation.status \in {"SYNCED", "WARNING"}

-----------------------------------------------------------------------------
(* evaluate_candles: `candles' is a sequence of [closed, range] *)

OutOfOrder(candles) == \E i \in 2..Len(candles) : candles[i].closed < candles[i - 1].closed
Repeated(candles) == Cardinality({candles[i].closed : i \in DOMAIN candles}) < Len(candles)
Gapped(candles, step) ==
    \E i \in 2..Len(candles) : 2 * (candles[i].closed - candles[i - 1].closed) > 3 * step
Stale(candles, step, delay, now) == now - candles[Len(candles)].closed > step + delay

\* The last range beyond five times the average of the nine before it.
Anomalous(candles) ==
    LET n == Len(candles)
        before == MapThenSumSet(LAMBDA i : candles[i].range, (n - 9)..(n - 1))
    IN  n >= 10 /\ before > 0 /\ 9 * candles[n].range > 5 * before

\* The score, and the status: INVALID on an error, SUSPECT below 60.
QualityReport(candles, step, delay, now) ==
    LET faults == {f \in {"order", "duplicate", "gap", "stale", "anomaly"} :
                     CASE f = "order" -> OutOfOrder(candles)
                       [] f = "duplicate" -> Repeated(candles)
                       [] f = "gap" -> Gapped(candles, step)
                       [] f = "stale" -> Stale(candles, step, delay, now)
                       [] f = "anomaly" -> Anomalous(candles)}
        penalty == [order |-> 50, duplicate |-> 10, gap |-> 15, stale |-> 20, anomaly |-> 10]
        score == Max({0, 100 - MapThenSumSet(LAMBDA f : penalty[f], faults)})
    IN  IF candles = <<>> THEN [score |-> 0, status |-> "INVALID"]
        ELSE [score |-> score,
              status |-> IF "order" \in faults THEN "INVALID"
                         ELSE IF score < 60 THEN "SUSPECT"
                         ELSE IF faults # {} THEN "WARNING" ELSE "VALID"]

-----------------------------------------------------------------------------
(* QuantityRules.normalize *)

\* from_strings refuses rules without a positive step; zero is no maximum.
UsableRules(rules) == rules.step > 0 /\ rules.minimum >= 0

\* The quantity sent to the venue, or 0 when the order is rejected.
NormalizedQuantity(quantity, price, rules) ==
    LET normalized == (quantity \div rules.step) * rules.step
        refused == \/ normalized <= 0 \/ normalized < rules.minimum
                   \/ rules.maximum # 0 /\ normalized > rules.maximum
                   \/ normalized * price < rules.minimumNotional
    IN  IF refused THEN 0 ELSE normalized

-----------------------------------------------------------------------------
(* Paper execution: prices are multiples of 1/10000 of the reference unit *)

SideOf(side) == IF side = "BUY" THEN 1 ELSE -1
Opposite(side) == IF side = "BUY" THEN "SELL" ELSE "BUY"

\* _fill: the price moves against the order by spread, slippage and impact.
FillPrice(action, reference, adverse) == reference * (10000 + SideOf(action) * adverse)

\* open_fill and close_fill of the same position.
OpenPrice(side, reference, adverse) == FillPrice(side, reference, adverse)
ClosePrice(side, reference, adverse) == FillPrice(Opposite(side), reference, adverse)

\* liquidation_price, with the maintenance margin in basis points.
LiquidationPrice(side, entry, leverage, maintenance) ==
    LET distance == 10000 - leverage * maintenance
        whole == 10000 * leverage
    IN  IF side = "BUY" THEN Max({0, (entry * (whole - distance)) \div whole})
                        ELSE (entry * (whole + distance)) \div whole

\* liquidation_reference: the worse of the liquidation price and the open.
LiquidationReference(order, candle) ==
    IF order.liquidation <= 0 THEN {}
    ELSE IF order.side = "BUY" /\ candle.low <= order.liquidation
         THEN {Min({order.liquidation, candle.open})}
    ELSE IF order.side = "SELL" /\ candle.high >= order.liquidation
         THEN {Max({order.liquidation, candle.open})}
    ELSE {}

Reaches(side, candle, price, adverse) ==
    IF (side = "BUY") = adverse THEN candle.low <= price ELSE candle.high >= price

\* on_candle: liquidation before stop before target, each at its own price.
ExitOf(order, candle) ==
    IF LiquidationReference(order, candle) # {}
    THEN [reason |-> "LIQUIDATION", price |-> Min(LiquidationReference(order, candle))]
    ELSE IF Reaches(order.side, candle, order.stop, TRUE)
         THEN [reason |-> "STOP_LOSS", price |-> order.stop]
    ELSE IF Reaches(order.side, candle, order.target, FALSE)
         THEN [reason |-> "TAKE_PROFIT", price |-> order.target]
    ELSE [reason |-> "none", price |-> 0]

\* close_order: what a closed order adds to the balance, per unit of quantity.
NetPnl(side, entry, exit, fees, funding) == SideOf(side) * (exit - entry) - fees - funding

-----------------------------------------------------------------------------
(* Walk-forward research *)

\* WalkForwardProtocol: the step is at least the test window.
UsableProtocol(p) ==
    /\ p.train \in Nat \ {0} /\ p.validation \in Nat \ {0} /\ p.test \in Nat \ {0}
    /\ p.embargo \in Nat /\ p.step \in Nat /\ p.step >= p.test /\ p.anchored \in BOOLEAN

\* plan_walk_forward_windows: the windows of a fold, as [first, end) indices.
TrainStart(p, fold) == IF p.anchored THEN 0 ELSE fold * p.step
TrainEnd(p, fold) == p.train + fold * p.step
ValidationStart(p, fold) == TrainEnd(p, fold) + p.embargo
ValidationEnd(p, fold) == ValidationStart(p, fold) + p.validation
TestStart(p, fold) == ValidationEnd(p, fold) + p.embargo
TestEnd(p, fold) == TestStart(p, fold) + p.test

\* The folds that fit into the candles, up to max_folds.
FittingFolds(p, candles, most) == {f \in 0..(most - 1) : TestEnd(p, f) <= candles}

\* _one_sided_sign_test_p_value, as a numerator over 2^folds.
SignTest(profitable, folds) ==
    MapThenSumSet(LAMBDA k : choose(folds, k), profitable..folds)

\* evaluate_walk_forward_gate: every criterion; the ratio of profitable folds is
\* rounded to four digits, alpha (percent) corrected for the candidates tried.
GatePasses(a, criteria, candidates, alpha) ==
    /\ a.folds >= criteria.folds /\ a.trades >= criteria.trades
    /\ Rounded(10000 * a.profitable, a.folds) >= criteria.ratio
    /\ a.median >= criteria.median /\ a.expectancy >= criteria.expectancy
    /\ a.drawdown <= criteria.drawdown
    /\ criteria.noLiquidation => a.liquidations = 0
    /\ 100 * Min({2 ^ a.folds, candidates * SignTest(a.profitable, a.folds)})
         <= alpha * 2 ^ a.folds
=============================================================================
