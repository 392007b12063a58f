--------------------------- MODULE TestnetExposure --------------------------
(***************************************************************************)
(* What the risk manager counts as exposure of TESTNET orders on Binance:  *)
(* _durable_position_exposures over the oms_orders rows and the balances   *)
(* of the latest reconciliation run (database/repositories/repository.py), *)
(* refreshed after a dispatch (oms/service.py) and after a run             *)
(* (oms/reconciliation.py), against the exposure the orders really have.   *)
(* Binance answers a submission with its result (execution/adapters/       *)
(* binance_testnet.py), so a dispatch may record a fill no run has seen.   *)
(***************************************************************************)
EXTENDS Naturals, FiniteSets, FiniteSetsExt

CONSTANTS
    TestnetOrders,      \* OMS buy orders of one Binance symbol, at one price
    OrderNotional,      \* size the per-trade risk budget asks for
    ExposureLimit       \* gross exposure limit

VARIABLES
    omsOrders,      \* oms_orders: status and notional
    omsApprovals,   \* order_approvals: status, snapshot and max_notional
    venueFilled,    \* the orders the venue has filled
    venueRun,       \* the latest run: whether there is one, the balance it read
    exposure        \* RiskManager._positions

testnetVars == <<omsOrders, omsApprovals, venueFilled, venueRun, exposure>>

NoRun == [done |-> FALSE, notional |-> 0]
NoOrder == [status |-> "NONE", notional |-> 0]

Total(exposures) == MapThenSumSet(LAMBDA p : p[3], exposures)
Notional(orders) == MapThenSumSet(LAMBDA o : omsOrders[o].notional, orders)
WithStatus(rows, statuses) == {o \in TestnetOrders : rows[o].status \in statuses}

Reserving == {"PENDING_SUBMISSION", "SUBMITTED"}

\* Orders not yet settled reserve their notional.  Filled ones count through
\* the balance of the latest run, or one by one while there has been no run:
\* with one, the symbol of every Binance order is a reconciled symbol.
DurableTestnetExposures(rows, run) ==
    LET reserved == {<<"reservation", o, rows[o].notional>> :
                        o \in WithStatus(rows, Reserving)}
        venue == IF run.notional = 0 THEN {} ELSE {<<"venue", "BINANCE", run.notional>>}
        unreconciled == {<<"oms", o, rows[o].notional>> : o \in WithStatus(rows, {"FILLED"})}
    IN  reserved \cup venue \cup (IF run.done THEN {} ELSE unreconciled)

TestnetInit ==
    /\ omsOrders = [o \in TestnetOrders |-> NoOrder]
    /\ omsApprovals = [o \in TestnetOrders |->
                         [status |-> "NONE", snapshot |-> {}, notional |-> 0]]
    /\ venueFilled = {}
    /\ venueRun = NoRun
    /\ exposure = {}

\* RiskManager.check: a size within the remaining capacity, approved for the
\* portfolio it was computed for.
ApproveTestnetOrder(o) ==
    /\ omsApprovals[o].status = "NONE"
    /\ Total(exposure) < ExposureLimit
    /\ omsApprovals' = [omsApprovals EXCEPT ![o] =
            [status |-> "ACTIVE", snapshot |-> exposure,
             notional |-> Min({OrderNotional, ExposureLimit - Total(exposure)})]]
    /\ UNCHANGED <<omsOrders, venueFilled, venueRun, exposure>>

\* consume_oms_approval and create_oms_order: the snapshot must be both the
\* manager's portfolio and the durable one; the order becomes a reservation.
ConsumeTestnetApproval(o) ==
    /\ omsApprovals[o].status = "ACTIVE"
    /\ omsApprovals[o].snapshot = exposure
    /\ omsApprovals[o].snapshot = DurableTestnetExposures(omsOrders, venueRun)
    /\ omsApprovals' = [omsApprovals EXCEPT ![o].status = "CONSUMED"]
    /\ omsOrders' = [omsOrders EXCEPT ![o] = [status |-> "PENDING_SUBMISSION",
                                              notional |-> omsApprovals[o].notional]]
    /\ exposure' = exposure \cup {<<"reservation", o, omsApprovals[o].notional>>}
    /\ UNCHANGED <<venueFilled, venueRun>>

\* dispatch_once: the venue's answer is the order as it now stands (the FULL
\* response of a Binance order); the row records it and the positions are
\* refreshed.
DispatchTestnetOrder(o) ==
    /\ omsOrders[o].status = "PENDING_SUBMISSION"
    /\ \E answer \in {"SUBMITTED", "FILLED", "REJECTED"} :
         /\ omsOrders' = [omsOrders EXCEPT ![o].status = answer]
         /\ venueFilled' = venueFilled \cup {x \in {o} : answer = "FILLED"}
    /\ exposure' = DurableTestnetExposures(omsOrders', venueRun)
    /\ UNCHANGED <<omsApprovals, venueRun>>

\* The venue fills an order resting on its book.
VenueFillsOrder(o) ==
    /\ omsOrders[o].status = "SUBMITTED" /\ o \notin venueFilled
    /\ venueFilled' = venueFilled \cup {o}
    /\ UNCHANGED <<omsOrders, omsApprovals, venueRun, exposure>>

\* reconcile_once: the rows take the venue's status, the balance of the base
\* asset is what has been filled, and the positions are refreshed.
ReconcileTestnet ==
    /\ omsOrders' = [o \in TestnetOrders |->
                        IF o \in venueFilled THEN [omsOrders[o] EXCEPT !.status = "FILLED"]
                        ELSE omsOrders[o]]
    /\ venueRun' = [done |-> TRUE, notional |-> Notional(venueFilled)]
    /\ exposure' = DurableTestnetExposures(omsOrders', venueRun')
    /\ UNCHANGED <<omsApprovals, venueFilled>>

TestnetNext ==
    \/ \E o \in TestnetOrders : \/ ApproveTestnetOrder(o) \/ ConsumeTestnetApproval(o)
                                \/ DispatchTestnetOrder(o) \/ VenueFillsOrder(o)
    \/ ReconcileTestnet

TestnetSpec == TestnetInit /\ [][TestnetNext]_testnetVars

\* The notional of pending, submitted and filled TESTNET orders stays within
\* the gross exposure limit that remaining_notional_capacity promises to
\* respect.
TestnetExposureWithinLimit ==
    Notional(WithStatus(omsOrders, Reserving \cup {"FILLED"})) <= ExposureLimit
=============================================================================
