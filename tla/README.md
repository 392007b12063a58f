# Capital Cipher Platform: TLA+ specifications

Models, model-checking configurations and machine-checked proofs for the
Capital Cipher backend (`src/backend/app`, abbreviated `app/` below). The
modules follow the code; where they and a document disagree, the code decides
and the disagreement is recorded (see *Findings*).

## The system

Market data feeds agents, agents feed an orchestrator, its decisions pass a
central risk engine, and what risk approves becomes an order, on paper or on a
TESTNET venue. Everything durable is in one PostgreSQL database that several
backend processes share; each process runs an HTTP API and background workers as
coroutines of one event loop.

| Component | State | Operations | What makes it correct | Module |
|---|---|---|---|---|
| State machine (`core/state_machine.py`) | state, kill flag | transition, halt, reset | only table transitions; halted while the switch is on | `KillSwitch` |
| Kill switch (`risk/manager.py`, `set_risk_control`) | durable row with revision; a copy and flags per process | trigger, reset, restore at boot | copies agree with the row; a trigger always halts | `KillSwitch` |
| Approvals (`risk/manager.py`, repository) | `order_approvals` rows; per-process caches | evaluate, recall, consume, revoke | single use; durable before spendable; final | `Approvals`, `Trading` |
| OMS (`oms/service.py`, repository, SQL guards) | `oms_orders` with versions, `execution_commands` with leases | create, claim and sweep, dispatch, finish, cancel | one submission per approval; rows tell the truth about the venue; commands settle | `OMS` |
| Reconciliation (`oms/reconciliation.py`) | copies read at the start of a run | read, fetch, compare, persist, alarm | repairs what was lost; overwrites nothing newer | `OMS`, `TestnetExposure` |
| Exchange adapters (`execution/adapters`) | none | submit, cancel, fetch_state | ambiguous writes are reported as ambiguous | `OMS` |
| Exposure (`risk/portfolio.py`, `_durable_position_exposures`) | reservations, positions | refresh, size, snapshot | nothing that may trade is uncounted | `Trading`, `TestnetExposure`, `DecisionRules` |
| Orchestrator (`orchestrator/service.py`) | candles, decisions | a cycle per closed candle | one decision per candle; gates respected | `Trading`, `DecisionRules` |
| Paper engine (`paper_trading`) | paper orders, book, balance | open, monitor, close | a profit is booked once; the book is the rows | `Trading`, `MarketRules` |
| Event bus, outbox, Redis transport (`core`) | `event_journal`, `event_outbox`, stream | publish, drain, deliver | at least once, journal first | `EventLog` |
| Agent runtime (`agents/runtime.py`) | jobs with leases, attempts, memory, outputs | submit, claim, run, finish | one result per attempt; stale workers are refused | `AgentRuntime` |
| Agent evaluation (`agents/evaluation.py`) | forecasts, outcomes, settled history | observe, settle, restore | outcomes are durable, final and counted once | `Evaluation`, `DecisionRules` |
| Portfolio consensus (`orchestrator/portfolio_consensus.py`) | experiments and their events | register, activate, retire, evaluate | only an activated experiment vetoes; weights capped | `Consensus`, `DecisionRules` |
| Backfill (`market_data/backfill*.py`, `gaps.py`) | job, queue item, pages, candles, gaps | submit, claim, import, scan, finish | completed means complete; it ends | `Backfill` |
| Replay (`market_data/adapters/replay.py`) | checkpoint row | begin, emit, save | nothing skipped on resume | `Replay` |
| Operations (`operations`) | recovery gate, alerts, SLO windows | probe, report, open, resolve, evaluate | halts on failure; ends only on fresh proof; alerts pair up | `Operations` |
| Shadow validation | checkpoints, report | run a campaign | passed means nothing was touched | `ShadowValidation` |
| Release readiness | four append-only tables and their deques | record, attest, rehearse, decide | an authorization is backed by stored evidence | `Release` |
| Market data quality, clock, precision, backtest gates, strategy | – | pure rules | see *Facts* | `MarketRules`, `DecisionRules` |
| Specialists, API, audit log, frontend | – | – | – | not modelled |

What is hard: processes share rows but not memory; a coroutine can be overtaken
at every `await`; venue and broker answers are lost, late or ambiguous; leases
expire under workers that are only slow; a transaction can commit while its caller
sees a failure; services write the row first and their memory after the await.
`PROJECT.json` lists these places, line by line, under *hazards*.

## Granularity

A database transaction is one step, and so is the code between two awaits. A call
that awaits a transaction is therefore two steps with a program counter between
them (a `pc` or `step` field of `call`, `worker`, `recon`, `task`, `importer`,
`cycle`, `caller` ...), and the record also keeps what the coroutine remembers
across the await: the row it claimed, the version it read, the portfolio it
checked. A call can fail before its effect, or after it with the answer lost;
both, and crashes, are counted and bounded by the `Max...Faults`,
`MaxTroubles`, `MaxStops`, `MaxCrashes` constants. Row locks inside a transaction
are not modelled: a transaction the database aborts is one that fails.

## Orders: KillSwitch, Approvals, OMS, TestnetExposure

`KillSwitch`: `control` is the `risk_control_state` row, `memControl[p]` is
`RiskManager.control_state`, `smKill[p]` the state machine's flag. `Restore` is
`initialize()`, `Boot` the boot transitions, which look at the copy.
`TriggerCommit` is `set_risk_control(active=True)`: it flips the row, raises when
it is already active, or fails with or without having committed. `TriggerApply`
is the rest of `trigger_kill_switch` with its `finally` block; `ResetCommit` and
`ResetApply` are the halves of `reset_kill_switch`. `OperatorTargets` names the
states somebody calls `transition()` to after boot. In the repository it is the
empty set; the `approvals` run puts MAINTENANCE into it, so that the reset
protocol is exercised all the same.

`Approvals`: one approval is one idempotency key. `Evaluate`/`SaveEvaluation` are
the halves of an evaluation that ends APPROVED or REDUCED, `Recall` is a repeated
request answered from the database, `BeginConsume` and the `Consume...` actions are
`consume_oms_approval` and the approval half of `create_oms_order`.

`OMS`: `orders` and `cmds` are the two tables. `Claim` is the whole of
`claim_execution_command`, the sweep of expired commands included; `ClaimFails` is a
claim that raises, with or without having committed. `Dispatch`,
`Answer`/`Timeout`, `Finish`/`FinishFails` and `AfterFinish` are the segments of
`dispatch_once` between its awaits. `GuardAllows` is the database trigger
`guard_oms_order_transition`. A reconciliation run is `ReconRead` (local orders),
`ReconFetch` (venue orders), `ReconDetails` (fills and, on Bybit, positions, some
requests later), `ReconPersist` or `ReconFails`, `AfterRecon`. The venue is
external, modelled from how the adapters use it: Binance answers a submission
with its result, Bybit with a bare acknowledgement and acknowledges a cancel
before it is effective; requests can be lost, executed after the client gave up,
or answered too late. Abstracted: prices, quantities (to lots), symbols, signing,
paging, balances, stored fills and run records, wall-clock time (to "has
expired"), and two corners of the adapters' status tables: a venue status they do
not know (mapped to UNKNOWN, which leaves the row unresolved) and the pending
cancel. The venue of the model has neither status.

`TestnetExposure` is what the risk manager counts of Binance orders:
`_durable_position_exposures` over the rows and the balances of the latest
reconciliation run. Binance answers a market order with its fill, so a dispatch may
record one that no run has seen.

## Decisions: Trading, Consensus, Evaluation, ShadowValidation, Release

`Trading` is the decision cycle of a PAPER process, `on_candle_closed` to
`create_order`, with several cycles as concurrent tasks. `stored`, `approvals` and
`paperOrders` are rows; `issued`, `positions`, `openOrders` and `halted` the memory of
risk manager, paper engine and operations gate. `StoreCandle`; `BeginMonitoring`,
`BeginClose`, `SaveClose`, `BookClose` are `on_candle` and `close_order`; `PassGate`,
`RunAgents`, `Decide`; `CheckRisk` and `IssueApproval` are `check` and `_finalize`;
`SubmitOrder`, `ConsumeApproval`, `AcceptOrder` are `create_order` around
`consume_order_approval`. What the agents say, and which limit cuts a size, is
chosen freely; the arithmetic of it is in `DecisionRules`.

`Consensus`: rows and memory of the experiment registry; `SaveLifecycle` writes the
row first and memory after; an evaluation remembers the experiment it began under.
Weights are capped as in `_capped_weights`, in exact rationals: the rounding, the
residual it gives to the last agent and the tolerance of 1e-9 in the schema's check
of the cap are left out. `Evaluation`: a
task per venue observes candles and settles forecasts of the previous period, also
those of the other venue; a restart reads the newest rows of each table up to a
limit (100,000 in the code, `RestoreLimit` here). `ShadowValidation`: a campaign goes
through its checkpoints while the running system may place orders, book trades,
change the risk state or trip the switch; its report is in memory before it is
written, and stays there if the write fails (the same holds of a checkpoint, which
the model adds to memory and rows at once). `Release`: evidence, attestation, canary drill and decision
are artifacts, stored first and then recorded in memory, where the gate looks.

`DecisionRules` and `MarketRules` hold the rules that are functions of their
inputs: consolidation, strategy selection, eligibility, drift, scorecards, exposure,
capacity, value at risk and the size search; clock evidence, quality score,
quantity rules, simulated fills, liquidation and exits, walk-forward windows and
acceptance. Percentages, hundredths and basis points replace floats.

## Services: EventLog, AgentRuntime, Backfill, Replay, Operations

`EventLog`: publishers and the outbox dispatcher under `publication_lock`, with the
transport required or optional. It is shown to implement `DurableLog`, which says
what consumers may rely on: accepted once, only accepted events are sent or
handled, only sent ones confirmed (`ImplementsDurableLog`; `accepted` is the set of
journaled events, `sent` those in the stream, `confirmed` the rows with
`published_at`, `handled` those whose handlers ran).

`AgentRuntime`: the queue worker claims any job that is due, an inline caller
(`execute()`) only its own; both claim under a lease, wait for the semaphore and the
agent's lock, run, and finish in one transaction. A caller then reads the trace of its
job in three queries; an exception ends it. A worker may outlive its lease, die, lose
a database call, or end for good on a broker error. It implements `AttemptLedger`: the attempts of a job are recorded in order
and never rewritten, and nothing is recorded once it is closed
(`ImplementsAttemptLedger`; `log` is the attempts table, a result counting as good
or bad, `closed` the terminal jobs).

`Backfill`: one import with its job row, its leased queue item, pages, candles and
gaps; `ClaimBackfill`, then one action per database call up to `FinishRun` and
`AckBackfill`. A failed read of the job row is outside every handler and ends the
worker's `run()` (`LoadFails`); a failed import or scan is a failed attempt. `Replay`:
runners of one `replay_id`, a dataset that may have changed; a checkpoint whose write
fails is written again as FAILED, with the offset already advanced (`SaveFails`).
`Operations`: the probe loop and failing decision cycles open and resolve alerts
under `_alert_lock`; the recovery gate counts consecutive healthy probes of
everything critical.

`MCServices` and `MCDecisions` put the services, and the decision parts, side by
side: a behaviour picks one of them at the start and follows it. They share no
variable, so checking them one at a time leaves no interleaving out; how they do
meet (a failed call of a cycle reported to the operations gate, an experiment that
vetoes, a candle that settles forecasts) is an input of each.

## Runs

| Run | Instance | Distinct states | Shows |
|---|---|---|---|
| `approvals` | 2 processes, 1 approval, 3 revisions, 1 crash, failing transactions | 64 613 | copies agree by revision, belief halts, held is durable, approvals are final, a trigger halts |
| `oms_takeover` | 2 workers, 1 order, 1 crash, canceller, Binance, adapter may change at restart | 157 112 | one submission, commands settle |
| `oms_recon` | worker and canceller in one process, reconciler in another, Bybit | 1 449 492 | reserved while live, terminal rows agree and are final, no false alarm |
| `oms_outcome` | 1 process, order of 2 lots, Bybit, 1 crash, failing transactions and claims | 101 983 | venue outcome reaches the row |
| `services` | see below | 350 395 | the two refinements; duplicates need a fault; fenced results; traces well formed and returned whole; completed means complete; nothing skipped; alerts pair up; halts end, on fresh probes only; events, executions and imports end |
| `decisions` | see below | 365 332 | exposure within limits; one decision, one profit; books agree; restart keeps the experiment; vetoes and weights; passed means untouched, quiet passes; outcomes final and durable; authorizations backed |
| `approvals_revocation`, `oms_cancel_race`, `oms_false_orphan`, `oms_unknown`, `oms_switch`, `testnet_exposure` | small | – | the findings below |

**Bounds of the order runs.** `MaxRevision` 3 gives trigger, reset and second
trigger; 1 in the OMS runs, where nothing resets. One crash loses any one coroutine
at any point, and the restarted process meets everything it left. One order: orders
interact only through the switch, through a reconciliation transaction that aborts
as a whole, and through the worker taking one at a time; the proofs cover any
number. Two lots give a partial fill. `oms_takeover` leaves reconciliation out and
`oms_recon` crashes: each run keeps the actors its question is about.
`oms_outcome` has no canceller: with one on Binance, whose answer to a cancel may name
another client order id, `VenueOutcomeReachesRow` holds over 169 713 states without
faults, and a run with both takes too long to keep.

**Bounds of `services`.** Two events, one of them too large for the transport, two
publishers and a memory of one id, so that an id is forgotten and a pending message
that can never be sent stands before one that can; one fault. One job, one queue
worker, one inline caller, two attempts, two troubles: a take-over in either direction
and a failure of whoever took over. A range of one candle, two importers, two queue
attempts, two submissions, one stop (a death, a lost lease, a failed read; two stops
pass as well, over 680 000 states). Two datasets of two candles and two runners, which die at will. A probed
and an unprobed critical dependency and one that is not, two objectives (a rate and
a latency), one reporting cycle, two probes to recover, two outages, one alert fault.

**Bounds of `decisions`.** Three candles and two concurrent cycles, a request of 2
under a gross limit of 3 and two positions, so that the second order must be cut
and the third refused; one fault. One experiment in CONFIRMATION mode, two callers,
three event times, three agents (the smallest cohort a cap of 2/5 allows) with
scores that make one capping round push another agent over the cap. Campaigns of
three, four and five checkpoints with up to three disturbances; three is the smallest
the service accepts; a list of orders that is full at two, so that a count over a
full list happens. Two venues and three periods, and a
restart that reads three rows of each table, fewer than there can be. One evidence bundle and one
attestation with either content, two callers, an attestation that expires within
the run, one decision. Cycles, callers and release calls are symmetric.

**Deadlock** is checked in the order runs except `oms_takeover`, where the system
really stops; `services` and `decisions` stop when the work they were given is done
and the bounds on new work are reached.

**Fairness.** `WorkerFairness`: dead processes are restarted by the supervisor, a
coroutine whose await returned runs on, the database answers or fails, an HTTP
write is answered or times out (the client has a timeout), leases run out.
`CommandsSettle` needs no more. `ReconFairness`: the loop goes on, and its reads
and transactions do not fail for ever (strong fairness). `VenueFairness`: a
request arrives or is lost, a live order ends. `VenueOutcomeReachesRow` needs all
three. `TriggerHalts` needs only the trigger's own steps.
`EventLogFairness`: coroutines run on; the dispatcher, which polls for ever and
waits for an `asyncio.Lock` that is granted in order, gets it again and again
although publishers take it in between (strong fairness of `DrainStart`).
`AgentFairness`: a queue worker that has not ended polls, whoever holds a job runs on
(an agent run has a timeout), leases run out; nothing is asked of the loop of an inline
caller, which may stop at any time. `BackfillFairness`: as long as a worker has not
ended, one polls and sweeps; the ones at work run on. So `EveryExecutionEnds` and
`EveryBackfillEnds` promise an end only while a worker is left that has not ended.
`OperationsFairness`: the monitor loop runs on, and so does whoever holds the alert
lock. That the bounded faults stop is the only further premise of these liveness
properties.

**Mutants.** For every property of a passing run a small change of the code
(`... Mutant:` in the modules) breaks it: a lease that requeues its command, a
timeout taken for a rejection, a dispatcher without the lock, a finish fenced by the
attempt number only, a portfolio not compared again in the transaction.

## Facts

`RuleFacts`, `DetectGapsIsExact` (`MCServices`) and `UnanimityDecides`
(`MCDecisions`) state what the pure rules guarantee, as assumptions over bounded
inputs that TLC evaluates before it starts: a direction needs both directional
agents; unsound input blocks; a cautious regime never lowers the bar; worse drift is
never rated milder; the marginal score rewards insight; the capacity keeps every
absolute limit; value at risk is the quantile, and the size search returns only a
size that was checked; a SYNCED clock is close; a good quality score means a sound
series; normalising never exceeds what was approved; a simulated round trip never
earns by itself and the worst exit is taken first; the acceptance gate is monotone;
every missing candle is in exactly one gap.

## Findings

1. **An approval can be minted under the switch** (`SwitchRevokesApprovals`).
   `save_central_risk_evaluation` does not read the control row.
2. **A cancel can race an uncommitted submission** (`NoCancelDuringSubmission`),
   after reconciliation or a swept lease moved the row. Versions keep the rows
   right all the same: `TerminalRowsAgree` holds.
3. **An order submitted during a reconciliation run is reported as an orphan**
   (`OrphansAreUnmanaged`) and halts the system.
4. **A submission the venue never saw stays UNKNOWN** (`UnknownResolves`).
5. **A TESTNET order that fills is not counted until the next reconciliation run**
   (`TestnetExposureWithinLimit`), once there has been one. A Binance order that fills
   in its dispatch is no reservation any more and not yet in a balance, and another
   order is approved into the room it occupies.
6. **With two processes the switch stops only one** (`NoSubmitUnderSwitch`). The worker
   of a process that did not trigger keeps submitting queued orders, because
   `dispatch_once` asks its own process. The month-7 document says that queued
   submissions are quarantined.

Disagreements with a document that the model shows in its actions, without a run of
their own:

- *The reset cannot be reached* (`risk/manager.py:957`): it requires MAINTENANCE, as
  `docs/month-6-central-risk-engine.md:117-118` says, and nothing calls
  `transition(MAINTENANCE)`. `ResetCommit` is enabled only when `OperatorTargets`
  contains that state.
- *A trace can be refused although its job completed* (`repository.py:2015`): it is read
  in three queries, and an attempt finished between the first two makes it inconsistent,
  so the waiting `execute()` raises (`LoadMemory`);
  `docs/month-5-agent-runtime.md:142-146` promises the current job and every completed
  attempt. What is returned is whole (`ReturnedTraceIsWhole`).
- *A restart forgets evidence beyond its limits* (`agents/evaluation.py:123`): the newest
  100,000 forecasts and outcomes are read independently (`RestartEvaluation`), so an
  outcome can be known whose forecast was not read, and is then in no history;
  `docs/month-8-specialist-cohort-evaluation.md:133-134` says that persisted evidence,
  forecasts and outcomes are restored.
- *An order during a shadow campaign goes unnoticed once there are 1,000 of them*
  (`shadow_validation/service.py:389`): the count saturates at `list_orders(limit=1_000)`;
  `docs/month-11-shadow-validation.md:87-88` says that acceptance requires unchanged
  order counts. `PassedMeansUntouched` excludes the case.

Also seen while modelling, without a document to contradict:

- a fill between Bybit's order and position queries is a critical position drift;
  `create_oms_order` and `set_risk_control` lock their rows in different orders;
- with a required transport a broker error ends the agent worker's `run()`, and a failed
  read of the job row ends the backfill worker's; queued jobs then wait for another
  worker or a restart, or for an inline caller of that very job;
- the backfill job row is not fenced like its queue item, and two gap scans can leave
  a gap OPEN whose candle is stored (`CompletedMeansComplete` holds all the same);
- an alert write whose answer is lost leaves the sequence number behind the rows;
  every later alert then conflicts and the halt lasts until a restart
  (`HaltEnds` excludes this case); with the monitor disabled a halt always does;
- a restart forgets the paper engine's book: open orders are restored for the risk
  manager and no longer monitored; a candle stored just before a crash is never
  decided on;
- a campaign of three checkpoints, which the schema admits, cannot pass
  (`QuietCampaignPasses`);
- settlement ignores the exchange: the candle of one venue settles the forecasts made
  on another's, with the first forecast's reference price;
- the append-only triggers of the release tables exist in the Supabase migration and
  not in `session.py`.

## Proofs

All theorems hold for every value of the constants that satisfies the modules'
named assumptions (bounds are naturals, roles are subsets of the processes, the
placeholder names are no real ones): any number of processes, approvals, orders,
runners, candles, cycles, events, crashes.

*Kill switch* (`KillSwitchProofs`). `SwitchInv` is the type invariant, agreement
of the copies, `BeliefHalts`, and what makes them inductive: what the calls in
progress remember. A `TriggerApply` still to come carries a revision at which
the row was set, a `ResetApply` one at which it was cleared, neither is ahead of
the row, and if it is still the current revision the row has that flag. One lemma
per action; the composing modules reuse them.

*Approvals* (`ApprovalsProofs`). `TypeCorrect`, `CopiesAgreeAlways`,
`BeliefAlwaysHalts`, `HeldAlwaysDurable`, `ApprovalsAreFinal`. Invariant:
`SwitchInv`, types and `HeldIsDurable`; finality follows from how a step may move a
status.

*OMS* (`OMSProofs`). `SubmissionsAreUnique` needs `SubmitOnce`: the attempt of a
SUBMIT command is spent exactly when it has left PENDING; nothing was sent while
it is unspent; a worker between claim and dispatch holds a spent attempt, has
sent nothing, and is the only one. An expired lease changes none of that, which
is why sweeping to DEAD_LETTER is right and requeueing would not be.
`TerminalRowsAreFinal` needs `Versions`: `queue_cancel_command` does not look at
the status it overwrites, so a row at the version a pending cancel has read must
still be one that can be canceled; this rests on every write advancing the
version of a row that is not terminal (`RowsAdvance`). `TypeCorrect` includes that
no order is filled beyond its quantity.

`LiveIsReserved`, `TerminalRowsAreTrue` and `AlarmsAreJustified` rest on `Truth`, which
relates every copy of an order's state to the venue. An order is `Over` when its one
submission is used up, nothing of it travels, no worker is about to send it and the
venue does not hold it live; nothing undoes that (`Forward`), because a submission is
never retried. `Backs` says when the venue bears out a status and a fill: a terminal
one only of an order that is over, with the venue's own end and fill. `Truth` is that
the venue backs every row, every answer on the wire, every outcome a worker is about
to write and every snapshot a reconciliation holds. What was backed stays backed
(`BacksForward`), so it does not matter how old the copy is from which a row is
written.

*Market data* (`MarketDataProofs`). `ReplayTypeCorrect` and `ReplaySkipsNothing`. A
runner writes its own offset over whatever the row says, so `NoCandleSkipped` is
inductive only together with `RunnersAreBacked`: every candle before a runner's
position was handed over, to a consumer of the same dataset. `CompletedIsComplete`
is about the backfill, whose job row is not fenced by the lease: an importer that
lost its lease may still write COMPLETED. `BackfillInv` says why that does no harm
(`Backed`): whoever is about to report completion stored and archived what it says,
and nothing is ever deleted. The scan itself is the lemma `NoGapNothingMissing`: if a
candle of the range is missing, the least missing one starts a gap (`LeastNumber`,
from the well-foundedness of the naturals), so a scan that finds none saw the range.

*Decisions* (`DecisionProofs`). `DecidedOnce`, `BookedOnce` and `BooksAlwaysAgree`, with
any number of concurrent cycles. `TradingInv` says who may still do what. `Ownership`:
a candle belongs to the one cycle whose insert stored it, and stays undecided until
that cycle decides. `Booking`: only an open order can still be booked, so a second
cycle that closes it finds nothing to book. `Closing`: nobody closes an order that is
not accepted yet, and a close is saved before it is booked. `Pending`, only without
faults: memory differs from the rows by exactly what a cycle has committed and books
with its next step.

`LimitsHold` adds `RowsFit` and `CyclesFit`: a size the risk check has just approved,
and an approval that can still be consumed, fits the portfolio it was made for. Memory
need not agree with the rows: the transaction that consumes an approval compares its
snapshot with the rows, so the position it adds fits what is there, whatever other
cycles were allowed meanwhile. The limit is a sum over the positions
(`MapThenSumSet`, which takes the elements in the order CHOOSE gives them). The
library's induction theorems take an operator as a parameter, which no prover here
can instantiate; `MinimalSet` (a set of subsets of a finite set has a minimal member)
replaces them: existence, uniqueness and independence of the order (`SumExists`,
`SumUnique`, `SumSplit`) are shown by a minimal counterexample.

`VetoesNeedActivation` and `RestartsKeepExperiment`: an activation that is the latest
exists and is an event (`Dated`), memory holds only stored events, and all of them
unless an answer was lost; an evaluation remembers only an experiment with a stored
activation. `WeightsStayCapped` is about the rounds of
`_capped_weights`: whoever is capped in a round has more than the cap of what is
distributed, and together no more than all of it, so a round leaves a positive weight
(`RoundLeavesWeight`). Until a round caps nobody each caps one agent more, and they
cannot all be capped, as the cap leaves room for the minimum cohort; so after as many
rounds as agents nobody exceeds the cap (`CappingEnds`). It also follows that, in exact
arithmetic, some agent is never capped: the loop ends by its `break`, never because
nobody remains.

*Event log* (`EventLogProofs`). `BusImplementsLog`: `EventLog` implements `DurableLog`.
The invariant is what a task is entitled to (`Entitled`): whoever is about to send or
handle an event has it from the journal, whoever is about to mark a row published has
sent its event. The publication lock is not needed for that, but it is for
`DuplicatesAreFaults`: `LockInv` says that one task at a time is between lock and
unlock and that it looked at the row after it had the lock. An event the broker has
is then confirmed, about to be confirmed, or `Loose`, to be sent again; `Count` charges
each loose event, and each copy it leads to, to the fault that let it loose.

*Services* (`ServicesProofs`). `ResultsAreFenced`, `TracesAreWellFormed`,
`ReturnedTracesAreWhole`, `RuntimeImplementsLedger`. A trace is returned only if its
first query read a job that had ended, and nothing is written for such a job
(`TerminalStays`), so what the later queries read belongs to it (`Loaded`).
`AgentInv` holds what a claim is worth (`Claims`): a
take-over may keep the attempt number, so fencing rests on the lease owner and the
tenure together; and, per job, how far its attempts, memory and outputs have come.
The refinement maps each finish to one appended entry and everything else to a
stutter. `AlertsAlternate`: memory may have counted fewer
events of a key than the rows hold, never more (`KeySound`); an alert is active
exactly when memory has counted an odd number (`ActiveSound`); the task that saves
holds `_alert_lock` and its event is the next of its key (`ObserverSound`).
`HaltsNeedFreshProbes`: a halt is latched, and some critical dependency, the last
seen to fail, has no more successes than the probes begun since account for, plus
one if the answer of the round that was under way has been used (`Accounted`).

*Governance* (`GovernanceProofs`). `AuthorizationsAreBacked`: what memory holds is
stored, one artifact per id, and a decision under way is founded on what memory
held when the gate looked. `SettledHistory` and `StoredOutcomesAreFinal`: memory
follows the rows, and what is about to be appended to the history is fresh. This is
for any restore limit, so it speaks of the outcomes whose forecasts are known: each of
those is in the history exactly once, and no forecast is made twice.
`PassedCampaigns` and `QuietCampaigns`
hold for campaigns of any length: the invariant says which checkpoint rows exist and
where the two outages are. The first attempt at `PassedCampaigns` failed: once
`list_orders` is full at the baseline, the count of new orders stays zero whatever
happens, which a run with a large limit did not reach. `PassedMeansUntouched` now
excludes that case and the run includes it.

*Only model-checked*: liveness (`TriggerHalts`, `CommandsSettle`,
`VenueOutcomeReachesRow`, `EveryEventConfirmed`, `EveryExecutionEnds`,
`EveryBackfillEnds`, `HaltEnds`), which is beyond the prover; and the facts about
rules, which are evaluated over samples (the folds and quantiles in them would need an
induction of their own each). Every invariant and every action property of a passing
run is a theorem.

## Not modelled

- Specialists, indicators, quant scoring and ranking: stateless floating-point
  arithmetic; their output is an input of the models.
- The backtest simulation, parameter fitting and performance statistics: sequential
  floating-point computations; only windows and gates are rules here.
- Funding accrual and margin of paper positions, cost budgets, metric snapshots,
  resilience run logs, drift and proposal rows, specialist evidence: append-only
  records nothing else decides on.
- File formats of catalog and data lake, live market adapters, HTTP routes,
  WebSockets, authentication, settings, the audit log itself (its failures are
  inputs), load and staging drivers, the evidence collection of
  `release_readiness/audit.py` (external tools), the frontend.
- Row locks and isolation anomalies inside one transaction.
- A second evaluator of the objectives (`POST /operations/slos/evaluate` beside the
  monitor loop), a second process on the same alert rows, and the limit of 5,000 alert
  events a restart reads: `Operations` is one process with its loop, its reporting
  cycles and fewer events than that. `HaltEnds` is a property of that process.
- A message too large for the transport at the head of a full batch: `EventLog` assumes
  that a batch has more room than there are such messages, as they are never removed
  and would otherwise block the outbox for ever.

## Plan

1. Proofs: type correctness of every component as a theorem of its own; the
   compositions of two parts where they share state.
2. No leakage between walk-forward windows as a lemma about the operator.
3. An abstract order life cycle, refined by `OMS`; row locks of approval and control.
