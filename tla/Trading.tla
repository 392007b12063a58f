------------------------------ MODULE Trading -------------------------------
(***************************************************************************)
(* The decision cycle of a PAPER process: orchestrator/service.py          *)
(* on_candle_closed and _evaluate, risk/manager.py check and               *)
(* consume_approval, paper_trading/engine.py create_order and close_order, *)
(* over the candle, approval and paper_orders rows.                        *)
(*                                                                         *)
(* Cycles of different candles run as concurrent tasks; a step is the code *)
(* between two awaits.  Any database or audit call may fail, or its answer *)
(* may be lost after its commit, and the process may crash: each costs one *)
(* of MaxTradingFaults.  A decision, its approval and its order are named  *)
(* by the candle they come from.  Notionals are units of equity; the       *)
(* limits are those of the configured balance.                             *)
(***************************************************************************)
EXTENDS Naturals, FiniteSets, FiniteSetsExt

CONSTANTS
    Candles,            \* closed candles of one symbol, by candle_id
    Cycles,             \* concurrent on_candle_closed tasks
    RequestedNotional,  \* size the per-trade risk budget asks for
    MaxGross,           \* gross exposure limit
    MaxPositions,       \* max_open_positions
    MaxTradingFaults    \* bound on the failures of a behaviour

ASSUME TradingAssumption ==
    /\ IsFiniteSet(Candles) /\ "none" \notin Candles
    /\ RequestedNotional \in Nat \ {0}
    /\ MaxGross \in Nat /\ MaxPositions \in Nat
    /\ MaxTradingFaults \in Nat

VARIABLES
    stored,         \* candle_observations
    approvals,      \* order_approvals: status, position snapshot, max_notional
    paperOrders,    \* paper_orders: status and notional
    issued,         \* RiskManager._approvals that are ACTIVE
    positions,      \* RiskManager._positions, as <<order, notional>>
    openOrders,     \* PaperTradingEngine.open_orders
    halted,         \* the operations gate denies decisions
    cycle,          \* what each task is doing
    realised,       \* history: how often an order's PnL entered the balance
    decided,        \* history: actionable decisions per candle
    tradingFaults   \* history: failures so far

tradingRows == <<stored, approvals, paperOrders>>
tradingMemory == <<issued, positions, openOrders, halted>>
tradingHistory == <<realised, decided>>
tradingVars == <<tradingRows, tradingMemory, cycle, tradingHistory, tradingFaults>>

NoCandle == "none"
CycleSteps == {"idle", "store", "stored", "monitor", "close", "closed", "agents", "decide",
          "check", "approve", "submit", "consume", "accept"}
IdleCycle == [step |-> "idle", candle |-> NoCandle, exits |-> {}, order |-> NoCandle,
              snapshot |-> {}, notional |-> 0]
NoApproval == [status |-> "NONE", snapshot |-> {}, notional |-> 0]
NoRow == [status |-> "NONE", notional |-> 0]

ExposureSet == SUBSET (Candles \X (0..RequestedNotional))
ApprovalRow == [status : {"NONE", "ACTIVE", "CONSUMED"}, snapshot : ExposureSet,
                notional : 0..RequestedNotional]
PaperOrderRow == [status : {"NONE", "FILLED", "CLOSED"}, notional : 0..RequestedNotional]

Directions == {"BUY", "SELL"}
CandidateActions == Directions \cup {"HOLD", "WAIT", "BLOCK"}

\* The gross exposure of a portfolio.
Gross(exposures) == MapThenSumSet(LAMBDA p : p[2], exposures)

\* _durable_position_exposures of a PAPER database.
FilledOrders == {c \in Candles : paperOrders[c].status = "FILLED"}
DurableExposures == {<<c, paperOrders[c].notional>> : c \in FilledOrders}

TradingInit ==
    /\ stored = {} /\ issued = {} /\ positions = {} /\ openOrders = {}
    /\ approvals = [c \in Candles |-> NoApproval]
    /\ paperOrders = [c \in Candles |-> NoRow]
    /\ halted = FALSE
    /\ cycle = [t \in Cycles |-> IdleCycle]
    /\ realised = [c \in Candles |-> 0] /\ decided = [c \in Candles |-> 0]
    /\ tradingFaults = 0

CycleAt(t, step) == cycle[t].step = step
CycleGoto(t, step) == cycle' = [cycle EXCEPT ![t].step = step]
EndCycle(t) == cycle' = [cycle EXCEPT ![t] = IdleCycle]
TradingFault == tradingFaults < MaxTradingFaults /\ tradingFaults' = tradingFaults + 1

-----------------------------------------------------------------------------
(* on_candle_closed: storage and position monitoring *)

\* A candle that passes the clock gate and is evaluated for quality.
CandleArrives(t, c) ==
    /\ CycleAt(t, "idle")
    /\ cycle' = [cycle EXCEPT ![t] = [IdleCycle EXCEPT !.step = "store", !.candle = c]]
    /\ UNCHANGED <<tradingRows, tradingMemory, tradingHistory, tradingFaults>>

\* Mutant: a candle that is stored already goes on.
StoreCandleAgain(t) ==
    /\ CycleAt(t, "store")
    /\ stored' = stored \cup {cycle[t].candle}
    /\ CycleGoto(t, "stored")
    /\ UNCHANGED <<approvals, paperOrders, tradingMemory, tradingHistory, tradingFaults>>

\* save_candle: a candle that is stored already ends the cycle.
StoreCandle(t) ==
    /\ CycleAt(t, "store")
    /\ stored' = stored \cup {cycle[t].candle}
    /\ IF cycle[t].candle \in stored THEN EndCycle(t) ELSE CycleGoto(t, "stored")
    /\ UNCHANGED <<approvals, paperOrders, tradingMemory, tradingHistory, tradingFaults>>

\* Quality errors or an out-of-order candle end the cycle; otherwise on_candle
\* goes through the orders open now, of which some hit their stop or target.
BeginMonitoring(t) ==
    /\ CycleAt(t, "stored")
    /\ \/ EndCycle(t)
       \/ \E exits \in SUBSET openOrders :
            cycle' = [cycle EXCEPT ![t].step = "monitor", ![t].exits = exits]
    /\ UNCHANGED <<tradingRows, tradingMemory, tradingHistory, tradingFaults>>

\* close_order: an order that is no longer open raises and ends the cycle.
BeginClose(t) ==
    /\ CycleAt(t, "monitor")
    /\ \E o \in cycle[t].exits :
         IF o \in openOrders
         THEN cycle' = [cycle EXCEPT ![t].step = "close", ![t].order = o,
                                     ![t].exits = @ \ {o}]
         ELSE EndCycle(t)
    /\ UNCHANGED <<tradingRows, tradingMemory, tradingHistory, tradingFaults>>

\* The audit record, then save_paper_order.
SaveClose(t) ==
    /\ CycleAt(t, "close")
    /\ paperOrders' = [paperOrders EXCEPT ![cycle[t].order].status = "CLOSED"]
    /\ CycleGoto(t, "closed")
    /\ UNCHANGED <<stored, approvals, tradingMemory, tradingHistory, tradingFaults>>

\* Mutant: whoever comes second books the profit again.
BookCloseTwice(t) ==
    LET o == cycle[t].order
    IN  /\ CycleAt(t, "closed")
        /\ openOrders' = openOrders \ {o}
        /\ realised' = [realised EXCEPT ![o] = @ + 1]
        /\ positions' = {p \in positions : p[1] # o}
        /\ CycleGoto(t, "monitor")
        /\ UNCHANGED <<tradingRows, issued, halted, decided, tradingFaults>>

\* Mutant: the risk manager keeps the position of a closed order.
BookCloseKeepsPosition(t) ==
    LET o == cycle[t].order
    IN  /\ CycleAt(t, "closed")
        /\ IF o \in openOrders
           THEN /\ openOrders' = openOrders \ {o}
                /\ realised' = [realised EXCEPT ![o] = @ + 1]
                /\ CycleGoto(t, "monitor")
           ELSE EndCycle(t) /\ UNCHANGED <<openOrders, realised>>
        /\ UNCHANGED <<tradingRows, issued, positions, halted, decided, tradingFaults>>

\* The order leaves open_orders (a KeyError ends the cycle of whoever comes
\* second), its PnL enters the balance and its position the risk manager's.
BookClose(t) ==
    LET o == cycle[t].order
    IN  /\ CycleAt(t, "closed")
        /\ IF o \in openOrders
           THEN /\ openOrders' = openOrders \ {o}
                /\ realised' = [realised EXCEPT ![o] = @ + 1]
                /\ positions' = {p \in positions : p[1] # o}
                /\ CycleGoto(t, "monitor")
           ELSE /\ EndCycle(t)
                /\ UNCHANGED <<openOrders, realised, positions>>
        /\ UNCHANGED <<tradingRows, issued, halted, decided, tradingFaults>>

-----------------------------------------------------------------------------
(* _evaluate: decision, risk check and order *)

\* can_operate and decisions_allowed, read once for the whole cycle.
PassGate(t) ==
    /\ CycleAt(t, "monitor") /\ cycle[t].exits = {}
    /\ IF halted THEN EndCycle(t) ELSE CycleGoto(t, "agents")
    /\ UNCHANGED <<tradingRows, tradingMemory, tradingHistory, tradingFaults>>

\* The agents' outputs; telemetry and evaluation evidence that fail are logged.
RunAgents(t) ==
    /\ CycleAt(t, "agents")
    /\ CycleGoto(t, "decide")
    /\ UNCHANGED <<tradingRows, tradingMemory, tradingHistory, tradingFaults>>

\* A direction that the strategy does not allow in this regime is blocked.
StrategyRule(action, allowed) ==
    IF action \in Directions /\ ~allowed THEN "BLOCK" ELSE action

\* The weighted consensus keeps a direction or tightens it to WAIT; without it
\* the decision stays as it is.
ConsensusRule(action, vetoed) ==
    IF action \in Directions /\ vetoed THEN "WAIT" ELSE action

\* The decision is audited and saved; one that is not BUY or SELL stops here.
Decide(t) ==
    /\ CycleAt(t, "decide")
    /\ \E action \in CandidateActions, allowed, vetoed \in BOOLEAN :
         IF ConsensusRule(StrategyRule(action, allowed), vetoed) \in Directions
         THEN /\ decided' = [decided EXCEPT ![cycle[t].candle] = @ + 1]
              /\ CycleGoto(t, "check")
         ELSE EndCycle(t) /\ UNCHANGED decided
    /\ UNCHANGED <<tradingRows, tradingMemory, realised, tradingFaults>>

\* The position limit, one of the gates of check.
PositionSlotFree(exposures) == Cardinality(exposures) < MaxPositions

\* What the risk budget asks for: half of it next to the position limit.
Requested(count) ==
    IF count + 1 = MaxPositions THEN RequestedNotional \div 2 ELSE RequestedNotional

\* remaining_notional_capacity
Capacity(exposures) ==
    Min({Requested(Cardinality(exposures)), MaxGross - Min({MaxGross, Gross(exposures)})})

\* What concentration, value at risk and risk/reward may leave of it.
ApprovedSizes(exposures) == 1..Capacity(exposures)

\* check: blocked by a gate or a limit, or a size that fits, with the portfolio
\* it was computed for.  There is no await between the gates and the size.
CheckRisk(t) ==
    /\ CycleAt(t, "check")
    /\ \/ EndCycle(t)
       \/ /\ PositionSlotFree(positions)
          /\ \E n \in ApprovedSizes(positions) :
               cycle' = [cycle EXCEPT ![t].step = "approve", ![t].snapshot = positions,
                                      ![t].notional = n]
    /\ UNCHANGED <<tradingRows, tradingMemory, tradingHistory, tradingFaults>>

\* _finalize: the evaluation and its approval are saved, then issued.
IssueApproval(t) ==
    LET c == cycle[t].candle
    IN  /\ CycleAt(t, "approve")
        /\ approvals' = [approvals EXCEPT ![c] = [status |-> "ACTIVE",
                            snapshot |-> cycle[t].snapshot, notional |-> cycle[t].notional]]
        /\ issued' = issued \cup {c}
        /\ CycleGoto(t, "submit")
        /\ UNCHANGED <<stored, paperOrders, positions, openOrders, halted, tradingHistory,
                       tradingFaults>>

\* consume_approval of the risk manager, up to the transaction.
ApprovalFits(t) == cycle[t].candle \in issued /\ cycle[t].snapshot = positions

\* create_order up to the transaction: an approval whose portfolio changed is
\* a RiskError, which halts decisions.
SubmitOrder(t) ==
    /\ CycleAt(t, "submit")
    /\ IF ApprovalFits(t)
       THEN CycleGoto(t, "consume") /\ UNCHANGED halted
       ELSE EndCycle(t) /\ halted' = TRUE
    /\ UNCHANGED <<tradingRows, issued, positions, openOrders, tradingHistory, tradingFaults>>

\* Mutant: the transaction does not compare the portfolio again.
MayConsumeStale(c) == approvals[c].status = "ACTIVE" /\ paperOrders[c].status = "NONE"

MayConsumeApproval(c) ==
    /\ approvals[c].status = "ACTIVE"
    /\ approvals[c].snapshot = DurableExposures
    /\ paperOrders[c].status = "NONE"

\* The trigger on order_approvals: a row keeps what was approved, and only an
\* ACTIVE one changes its status.
ApprovalTransition(old, new) ==
    /\ old.snapshot = new.snapshot /\ old.notional = new.notional
    /\ old.status # new.status => old.status = "ACTIVE"

ConsumedRows(c) ==
    /\ approvals' = [approvals EXCEPT ![c].status = "CONSUMED"]
    /\ paperOrders' = [paperOrders EXCEPT ![c] = [status |-> "FILLED",
                                                  notional |-> approvals[c].notional]]
    /\ ApprovalTransition(approvals[c], approvals'[c])

\* consume_order_approval: one transaction, or a database error that halts.
ConsumeApproval(t) ==
    LET c == cycle[t].candle
    IN  /\ CycleAt(t, "consume")
        /\ IF MayConsumeApproval(c)
           THEN ConsumedRows(c) /\ CycleGoto(t, "accept") /\ UNCHANGED halted
           ELSE EndCycle(t) /\ halted' = TRUE /\ UNCHANGED <<approvals, paperOrders>>
        /\ UNCHANGED <<stored, issued, positions, openOrders, tradingHistory, tradingFaults>>

\* The order enters the book and its position the risk manager.
AcceptOrder(t) ==
    LET c == cycle[t].candle
    IN  /\ CycleAt(t, "accept")
        /\ issued' = issued \ {c}
        /\ openOrders' = openOrders \cup {c}
        /\ positions' = {p \in positions : p[1] # c} \cup {<<c, cycle[t].notional>>}
        /\ EndCycle(t)
        /\ UNCHANGED <<tradingRows, halted, tradingHistory, tradingFaults>>

-----------------------------------------------------------------------------
(* Failures *)

\* What a call in flight may have committed before its answer was lost.
CommittedAnyway(t) ==
    LET c == cycle[t].candle
    IN  \/ /\ CycleAt(t, "store") /\ stored' = stored \cup {c}
           /\ UNCHANGED <<approvals, paperOrders>>
        \/ /\ CycleAt(t, "close")
           /\ paperOrders' = [paperOrders EXCEPT ![cycle[t].order].status = "CLOSED"]
           /\ UNCHANGED <<stored, approvals>>
        \/ /\ CycleAt(t, "approve")
           /\ approvals' = [approvals EXCEPT ![c] = [status |-> "ACTIVE",
                               snapshot |-> cycle[t].snapshot, notional |-> cycle[t].notional]]
           /\ UNCHANGED <<stored, paperOrders>>
        \/ CycleAt(t, "consume") /\ MayConsumeApproval(c) /\ ConsumedRows(c) /\ UNCHANGED stored

\* An audit or database call raises, before its effect or after it.  A risk
\* check whose evidence is not saved is BLOCKED; any other failure marks the
\* dependency unhealthy.  The cycle ends.
CallFails(t) ==
    /\ cycle[t].step \in {"store", "close", "agents", "decide", "check", "approve", "submit",
                          "consume"}
    /\ TradingFault
    /\ CommittedAnyway(t) \/ UNCHANGED tradingRows
    /\ halted' = (halted \/ ~CycleAt(t, "approve"))
    /\ EndCycle(t)
    /\ UNCHANGED <<issued, positions, openOrders, tradingHistory>>

\* The process dies and starts again: the risk manager restores its positions
\* from the rows, the engine starts with an empty book.
CrashTrading ==
    /\ TradingFault
    /\ issued' = {} /\ openOrders' = {} /\ halted' = FALSE
    /\ positions' = DurableExposures
    /\ cycle' = [t \in Cycles |-> IdleCycle]
    /\ UNCHANGED <<tradingRows, tradingHistory>>

\* The operations monitor confirms the dependencies again.
GateRecovers ==
    /\ halted /\ halted' = FALSE
    /\ UNCHANGED <<tradingRows, issued, positions, openOrders, cycle, tradingHistory,
                   tradingFaults>>

CycleStep(t) ==
    \/ StoreCandle(t) \/ BeginMonitoring(t) \/ BeginClose(t) \/ SaveClose(t)
    \/ BookClose(t) \/ PassGate(t) \/ RunAgents(t) \/ Decide(t) \/ CheckRisk(t)
    \/ IssueApproval(t) \/ SubmitOrder(t) \/ ConsumeApproval(t) \/ AcceptOrder(t)

TradingNext ==
    \/ \E t \in Cycles : \/ \E c \in Candles : CandleArrives(t, c)
                         \/ CycleStep(t) \/ CallFails(t)
    \/ CrashTrading \/ GateRecovers

TradingSpec == TradingInit /\ [][TradingNext]_tradingVars

-----------------------------------------------------------------------------
(* Properties *)

TradingTypeOK ==
    /\ stored \subseteq Candles /\ issued \subseteq Candles /\ openOrders \subseteq Candles
    /\ positions \in ExposureSet
    /\ approvals \in [Candles -> ApprovalRow] /\ paperOrders \in [Candles -> PaperOrderRow]
    /\ halted \in BOOLEAN
    /\ cycle \in [Cycles -> [step : CycleSteps, candle : Candles \cup {NoCandle},
                             exits : SUBSET Candles, order : Candles \cup {NoCandle},
                             snapshot : ExposureSet, notional : 0..RequestedNotional]]
    /\ realised \in [Candles -> Nat] /\ decided \in [Candles -> Nat]
    /\ tradingFaults \in 0..MaxTradingFaults

\* The orders the database counts as open never exceed the gross exposure or
\* the number of positions the risk manager allows, although checks of several
\* cycles run on the same portfolio before any of them is consumed and a
\* failed answer or a restart may separate memory from the rows.
ExposureWithinLimits ==
    /\ Gross(DurableExposures) <= MaxGross
    /\ Cardinality(DurableExposures) <= MaxPositions

\* The profit of an order enters the balance at most once, also when two
\* cycles close the same order (close_order reads open_orders, awaits twice
\* and only then removes it).
ProfitCountedOnce == \A c \in Candles : realised[c] <= 1

\* A candle leads to at most one actionable decision, however often it is
\* delivered, to however many tasks, before and after a restart.
OneDecisionPerCandle == \A c \in Candles : decided[c] <= 1

BooksSettled == \A t \in Cycles : ~CycleAt(t, "closed") /\ ~CycleAt(t, "accept")

\* Without a failure, and with no transaction waiting to be booked, the risk
\* manager's positions and the engine's book are exactly the FILLED rows.
BooksAgree ==
    tradingFaults = 0 /\ BooksSettled =>
        positions = DurableExposures /\ openOrders = FilledOrders
=============================================================================
