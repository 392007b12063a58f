-------------------------- MODULE ShadowValidation --------------------------
(***************************************************************************)
(* A shadow campaign (shadow_validation/service.py): agents run at the     *)
(* checkpoints of a replay while outages are injected, and the report      *)
(* passes when nothing the campaign must not touch has changed.  Orders,   *)
(* trades, positions and the kill switch belong to the running system,     *)
(* which goes on between the awaits of the campaign.                       *)
(***************************************************************************)
EXTENDS Naturals, FiniteSets

CONSTANTS
    CampaignLengths,    \* how many checkpoints a campaign may have
    OrderListLimit,     \* list_orders(limit=...)
    OrdersBefore,       \* orders there are when it starts
    MaxDisturbances     \* bound on what the running system does

ASSUME ShadowAssumption ==
    /\ CampaignLengths \subseteq Nat /\ \A n \in CampaignLengths : n >= 3
    /\ OrderListLimit \in Nat /\ OrdersBefore \in Nat /\ MaxDisturbances \in Nat

VARIABLES
    orders, trades, risk,   \* OMS orders, paper trades, risk state (versions)
    killed,                 \* RiskManager.kill_switch_active
    disturbances,           \* history: what the running system did so far
    campaign,               \* the campaign under way
    checkpointRows,         \* shadow_campaign_checkpoints
    report                  \* the report, with what really changed (history)

system == <<orders, trades, risk, killed, disturbances>>
shadowVars == <<system, campaign, checkpointRows, report>>

CheckpointStatuses ==
    {"EXECUTED", "SUSPENDED_SAFE_DEGRADATION", "BLOCKED_RECONCILIATION", "BLOCKED_RISK"}
CheckpointRow == [sequence : Nat, status : CheckpointStatuses]
ReportStatuses == {"PASSED", "FAILED"}

Listed(n) == IF n <= OrderListLimit THEN n ELSE OrderListLimit

NoCampaign == [step |-> "none", length |-> 0, sequence |-> 0, status |-> "none",
               outage |-> FALSE, drift |-> FALSE, accepted |-> TRUE, executed |-> FALSE,
               scenarios |-> {},
               riskBefore |-> 0, ordersListed |-> 0, tradesBefore |-> 0, ordersReal |-> 0,
               riskAfter |-> 0]
NoReport == [status |-> "none", length |-> 0, listed |-> 0, newOrders |-> 0, newTrades |-> 0,
             newRisk |-> 0, scenarios |-> {}, saved |-> TRUE]

ShadowInit ==
    /\ orders = OrdersBefore /\ trades = 0 /\ risk = 0
    /\ killed = FALSE /\ disturbances = 0
    /\ campaign = NoCampaign /\ checkpointRows = {} /\ report = NoReport

\* fault_schedule: the sequence numbers of the injected outages.
Scenario(n, sequence) ==
    CASE sequence = n \div 3 + 1 -> "BROKER"
      [] sequence = (2 * n) \div 3 + 1 -> "DATABASE"
      [] OTHER -> "none"

Step(from, to, changes) ==
    campaign.step = from /\ campaign' = [changes EXCEPT !.step = to]

-----------------------------------------------------------------------------
(* run *)

\* Input validated; the risk state is read, then list_orders is awaited.
StartCampaign(n) ==
    /\ report = NoReport
    /\ Step("none", "baseline", [NoCampaign EXCEPT !.length = n, !.riskBefore = risk])
    /\ UNCHANGED <<system, checkpointRows, report>>

ReadBaseline ==
    /\ Step("baseline", "reconcile",
            [campaign EXCEPT !.ordersListed = Listed(orders), !.tradesBefore = trades,
                             !.ordersReal = orders, !.sequence = 1])
    /\ UNCHANGED <<system, checkpointRows, report>>

\* The scheduled outage begins; reconcile_once, with or without critical drift.
ReconcileCheckpoint ==
    /\ \E drift \in BOOLEAN :
         Step("reconcile", "execute",
              [campaign EXCEPT !.drift = drift,
                  !.outage = @ \/ Scenario(campaign.length, campaign.sequence) # "none"])
    /\ (campaign'.drift => disturbances < MaxDisturbances)
    /\ disturbances' = disturbances + (IF campaign'.drift THEN 1 ELSE 0)
    /\ UNCHANGED <<orders, trades, risk, killed, checkpointRows, report>>

\* The cohort runs unless drift, the kill switch or an injected outage
\* suspends it.
ExecuteCohort ==
    /\ Step("execute", "inspect", [campaign EXCEPT !.status =
            IF campaign.drift THEN "BLOCKED_RECONCILIATION"
            ELSE IF killed THEN "BLOCKED_RISK"
            ELSE IF campaign.outage THEN "SUSPENDED_SAFE_DEGRADATION" ELSE "EXECUTED"])
    /\ UNCHANGED <<system, checkpointRows, report>>

Untouched(c) == risk = c.riskBefore /\ Listed(orders) = c.ordersListed /\ trades = c.tradesBefore

\* The checkpoint's invariants, after list_orders; agents that run may fail
\* or be slow beyond the limits.
InspectCheckpoint ==
    LET scenario == Scenario(campaign.length, campaign.sequence)
    IN  /\ \E agentsFine \in BOOLEAN :
             /\ (~agentsFine => campaign.status = "EXECUTED" /\ disturbances < MaxDisturbances)
             /\ disturbances' = disturbances + (IF agentsFine THEN 0 ELSE 1)
             /\ Step("inspect", "persist",
                  [campaign EXCEPT
                     !.accepted = @ /\ agentsFine /\ Untouched(campaign)
                                    /\ campaign.status \notin {"BLOCKED_RECONCILIATION",
                                                               "BLOCKED_RISK"},
                     !.executed = @ \/ campaign.status = "EXECUTED",
                     !.scenarios = IF scenario # "none" /\ campaign.status # "EXECUTED"
                                   THEN @ \cup {scenario} ELSE @])
        /\ UNCHANGED <<orders, trades, risk, killed, checkpointRows, report>>

\* One row per sequence number of the campaign.
InsertCheckpoint ==
    checkpointRows' = checkpointRows \cup {[sequence |-> campaign.sequence,
                                            status |-> campaign.status]}

\* Mutant: an injected outage is never recovered.
PersistWithoutRecovery ==
    LET last == campaign.sequence = campaign.length
    IN  /\ Step("persist", IF last THEN "finish" ELSE "reconcile",
                [campaign EXCEPT !.sequence = IF last THEN @ ELSE @ + 1])
        /\ InsertCheckpoint
        /\ UNCHANGED <<system, report>>

\* The checkpoint is saved, and the injected outage recovered.
PersistCheckpoint ==
    LET last == campaign.sequence = campaign.length
    IN  /\ Step("persist", IF last THEN "finish" ELSE "reconcile",
                [campaign EXCEPT !.sequence = IF last THEN @ ELSE @ + 1, !.outage = FALSE])
        /\ InsertCheckpoint
        /\ UNCHANGED <<system, report>>

\* _report: the final risk state, then list_orders is awaited.
FinishCampaign ==
    /\ Step("finish", "report", [campaign EXCEPT !.riskAfter = risk])
    /\ UNCHANGED <<system, checkpointRows, report>>

\* Mutant: the orders are not counted again for the report.
PassesOnCheckpoints(c) ==
    /\ c.accepted
    /\ c.riskAfter = c.riskBefore /\ trades = c.tradesBefore
    /\ c.scenarios = {"BROKER", "DATABASE"}
    /\ c.status = "EXECUTED"

CampaignPasses(c) ==
    /\ c.accepted
    /\ c.riskAfter = c.riskBefore
    /\ Listed(orders) = c.ordersListed /\ trades = c.tradesBefore
    /\ c.scenarios = {"BROKER", "DATABASE"}
    /\ c.status = "EXECUTED"

\* The report is listed from memory before it is written: a write that raises
\* leaves it there, without a row (saved = FALSE).
SaveReport ==
    /\ campaign.step = "report"
    /\ \E saved \in BOOLEAN :
         /\ (~saved => disturbances < MaxDisturbances)
         /\ disturbances' = disturbances + (IF saved THEN 0 ELSE 1)
         /\ report' =
                 [status |-> IF CampaignPasses(campaign) THEN "PASSED" ELSE "FAILED",
                  length |-> campaign.length, listed |-> campaign.ordersListed,
                  newOrders |-> orders - campaign.ordersReal,
                  newTrades |-> trades - campaign.tradesBefore,
                  newRisk |-> campaign.riskAfter - campaign.riskBefore,
                  scenarios |-> campaign.scenarios, saved |-> saved]
    /\ campaign' = NoCampaign
    /\ UNCHANGED <<orders, trades, risk, killed, checkpointRows>>

\* A write or another await raises, or the process dies: the campaign is over
\* without a report; a new one is another campaign.
CampaignAborts ==
    /\ campaign.step # "none" /\ disturbances < MaxDisturbances
    /\ disturbances' = disturbances + 1
    /\ campaign' = NoCampaign /\ checkpointRows' = {}
    /\ UNCHANGED <<orders, trades, risk, killed, report>>

\* Meanwhile: an order is placed, a trade opens, the risk state changes, the
\* kill switch flips.
SystemGoesOn ==
    /\ campaign.step # "none" /\ disturbances < MaxDisturbances
    /\ disturbances' = disturbances + 1
    /\ \/ orders' = orders + 1 /\ UNCHANGED <<trades, risk, killed>>
       \/ trades' = trades + 1 /\ risk' = risk + 1 /\ UNCHANGED <<orders, killed>>
       \/ killed' = ~killed /\ risk' = risk + 1 /\ UNCHANGED <<orders, trades>>
    /\ UNCHANGED <<campaign, checkpointRows, report>>

ShadowNext ==
    \/ \E n \in CampaignLengths : StartCampaign(n)
    \/ ReadBaseline \/ ReconcileCheckpoint \/ ExecuteCohort \/ InspectCheckpoint
    \/ PersistCheckpoint \/ FinishCampaign \/ SaveReport
    \/ CampaignAborts \/ SystemGoesOn

ShadowSpec == ShadowInit /\ [][ShadowNext]_shadowVars

-----------------------------------------------------------------------------
(* Properties *)

ShadowTypeOK ==
    /\ orders \in Nat /\ trades \in Nat /\ risk \in Nat /\ killed \in BOOLEAN
    /\ disturbances \in 0..MaxDisturbances
    /\ campaign.status \in CheckpointStatuses \cup {"none"}
    /\ checkpointRows \subseteq CheckpointRow
    /\ report.status \in ReportStatuses \cup {"none"}

\* A report that passed means that no order and no trade appeared between its
\* baseline and its last count, and that there is one row per checkpoint: both
\* outages suspended the cohort, at every other checkpoint it ran, as long as
\* list_orders was not full at the baseline.
PassedMeansUntouched ==
    report.status = "PASSED" /\ report.listed < OrderListLimit =>
        /\ report.newOrders = 0 /\ report.newTrades = 0 /\ report.newRisk = 0
        /\ report.scenarios = {"BROKER", "DATABASE"}
        /\ checkpointRows =
              {[sequence |-> i, status |-> IF Scenario(report.length, i) = "none"
                                           THEN "EXECUTED" ELSE "SUSPENDED_SAFE_DEGRADATION"] :
                  i \in 1..report.length}

\* A campaign of four or more checkpoints that nothing disturbs passes: every
\* injected outage is recovered before the next checkpoint and the last one
\* executes.  (With three, the DATABASE outage is at the last checkpoint, and
\* the campaign cannot pass.)
QuietCampaignPasses ==
    report.status = "FAILED" /\ disturbances = 0 => report.length = 3
=============================================================================
