# A TLA+ verification of the Autonomous Trading Platform

Paths below are relative to `src/src/autonomous_trading_platform/` unless they
start with `docs/`.

## 1. The system

A trading *cycle* checks the runtime controls, reads market data and account
state, evaluates strategies into order intents, checks them against limits,
sends them to the broker (Alpaca) and reconciles the orders it has open. Each
booked fill extends the account's ledgers and the sleeve of the strategy that
ordered it. In the evening a chain of steps closes the day. State lives in a
PostgreSQL database, at the broker, and, for the length of a cycle, in the
process. Cycles are started by Airflow or by a soak loop; operators run single
jobs and give control commands from the CLI and over REST. Nothing but an
in-process lock (`scheduler/registry/no_overlap_lock.py`) keeps two processes
out of one job.

### Inventory

| Component | State | Operations | Hard behaviour | What makes it correct |
|---|---|---|---|---|
| Order state machine and mapper (`execution/services/order_state_machine_service.py`, `execution/mappers/broker_order_mapper.py`) | none | `apply_event`, `_map_order_status`, `to_order_event`, `extract_incremental_fill` | broker statuses in any order, stale quantities | transitions legal; each share in one increment |
| Order reconciliation (`scheduler/jobs/run_order_reconciliation_job.py`, `execution/services/order_reconciliation_service.py`, `order_runtime_state_service.py`) | `tracked_orders`, `fills`, `broker_orders` | list, read broker, compute, book, post, attribute to sleeve | several processes, crash between transactions, stale answers, 404, a job that fails on one order | no share booked or posted twice; none lost; every order closed in the end |
| Order submission (`execution/services/order_execution_service.py`, `scheduler/jobs/run_order_submission_job.py`, broker client) | throttle reservations, tracked rows | submit, retry, look up by `client_order_id`, record | lost answers, late requests, server errors, crash after acceptance | one order per intent; books agree with the broker; retries end |
| Pre-trade risk (`safety/services/pre_trade_risk_service.py`, `safety/readers/risk_state_reader.py`) | reader's base and per-tick corrections | refresh, check, note an accepted order | decisions on a snapshot that is already old; orders that outlive the tick | caps hold |
| Portfolio evaluation (`scheduler/jobs/portfolio_evaluation.py`) | - | fetch positions, adopt, hold back, cap, cross, clamp, order | reads at different moments, partial fills over several ticks | no short; symbol cap |
| Sleeves and crossing (`execution/services/strategy_sleeve_ledger_service.py`, `sleeve_crossing_service.py`) | sleeve positions and entries | apply fill, cross, adopt, resync | drift from the account, fills under way | long-only; sleeves sum to the account |
| Post-fill accounting (`execution/services/post_fill_accounting_service.py`, ledger services) | position and cash snapshots | apply a fill | read-modify-write of the newest row, several rows of one timestamp | ledgers equal the account, less the fills under way |
| Broker runtime sync (`execution/services/broker_runtime_sync_service.py`) | the same snapshots | resync cash and positions, validate | account and orders read at different moments | the resync lands on the account; the verdict is true |
| Trading cycle (`scheduler/cycles/run_trading_cycle.py`) | job row, orders sent | steps, re-checks, failure paths | a control that changes between two steps; failure after sending | a completed run polled what it sent |
| Runtime controls (`application/services/runtime_control_service.py`, `safety/services/kill_switch_service.py`, guards and gates) | `runtime_control_state`, `kill_switch_state` | halt, resume, pause, enable, disable, mode | two rows for one switch, concurrent commands | nothing leaves after a halt but what is past its checks; a halt quiets the system |
| End-of-day chain, soak loop, orphan rescue (`scheduler/orchestration/eod_chain_runner.py`, `cli/commands/runtime_soak_loop.py`, `runtime/services/orphan_job_recovery_service.py`) | parent and child job rows, the context in memory | run, retry, skip, resume, rescue | shutdown or crash at any step, rescue of a row in use | no blocked step runs; recorded steps run once; the outcome is true and final; the day closes |
| Drawdown governance, strategy governance, event stream, simulated broker, corporate actions, ingestion, features, universe, research, REST, CLI, frontend, storage, observability, risk analytics | - | - | - | section 6 and PROJECT.json say why each is left out |

`PROJECT.json` lists every component with its status, and every hazard at the
line where it bites, with the property that covers it or the reason none does.

### How the parts interact

The cycle builds its dependencies (the risk reader is based on live positions),
reconciles, evaluates, re-checks the controls, submits intent by intent, and
reconciles again. Submission and reconciliation share only the `tracked_orders`
row: submission creates it, reconciliation moves it on. Evaluation reads the
same rows to hold back symbols with open orders. Reconciliation hands each fill
to the account's ledgers and then to a sleeve, each in a transaction of its
own. Every `with SorUnitOfWork` is one database transaction
(`storage/sor/services/unit_of_work.py:141-156`); everything between two of
them can be interleaved with other processes or cut off by a crash, and that is
the grain of the actions below. A call of the broker is a step of its own too:
an order lives from its acceptance on
(`scheduler/jobs/run_order_submission_job.py:385`), its row commits later
(479-529), and a failure in between leaves a REJECTED row (612-622) or none.
Every module that has orders has this window: they call such an order a *stray*
once it can get no row any more, and count the strays in `mislaid`.

## 2. Modules

| Module | Models |
|---|---|
| `OrderLifecycle` | pure operators: the transition table, the mapping of broker statuses, the next status, the incremental fill |
| `OrderReconciliation` | tracked orders, fills and ledgers; the tail of submission; the reconciliation job for any set of processes; the broker it polls |
| `OrderPromise` | the abstract specification: shares executed, booked, posted; orders closed |
| `OrderSubmission` | one run of the submission job: throttle, cap, send, retry, lookup, record, crash |
| `SubmissionFeeds` | the refinement mapping from submission to the head of `OrderReconciliation` |
| `TickRisk` | exposure across ticks: resting orders, the evaluation's and the risk checks' views |
| `TradingCycle` | overlapping cycles and the operators' commands on the control rows |
| `AccountLedger` | cash and position snapshots under fills, crashes, the operator's resync and the validator |
| `SleeveLedger` | the sleeves beside the account: fills, adoption, crossing, clamp, resync |
| `EodChain` | the soak loop around the end-of-day chain, its rows, retries, resume and rescue |
| `Sums` | the sum of a function over a set, used by `TickRisk`, `AccountLedger` and `SleeveLedger` |
| `MC*` | model values, symmetry sets and the tables of the TLC instances |
| `*Proofs` | the theorems of section 5 |

No module uses RECURSIVE. `OrderReconciliation` INSTANCEs `OrderPromise`, and
`SubmissionFeeds` INSTANCEs `OrderReconciliation`; the other modules meet at
their boundaries: `TradingCycle` treats submission and reconciliation as steps,
`AccountLedger` and `SleeveLedger` take up the fill where
`OrderReconciliation`'s `AccountFill` and `ApplyToSleeve` only count shares,
and the assumption that one process at a time reconciles, which the last two
make, is `OneReconciler` of the first.

### OrderReconciliation

| Variable | Code |
|---|---|
| `broker`, `seen` | Alpaca's order now, and every state it was ever in (what a stale read can return); external |
| `sub` | whether the order is to be sent, accepted, or its outcome recorded |
| `tracked` | the `tracked_orders` row: `current_status`, `previous_filled_qty`, `is_open` |
| `fills`, `ledger`, `sleeve` | shares in the `fills` table, in the position and cash ledgers, in the strategy's sleeve |
| `pc`, `todo`, `input`, `cur`, `answer`, `result`, `loaded` | the job's position and locals, per process |

One order goes through `Pick` (the job's loop, line 90),
`ReadOrder`/`ReadGone`/ `ReadRaises` (`reconcile_order`), `LoadRow` and
`CommitResult` (the booking transaction, 123-138, split in two because
PostgreSQL's default isolation lets another commit fall between its SELECT and
its UPDATE), `AccountFill` (140-152) and `ApplyToSleeve` (153-164). `Written`
stands for what the ORM emits: only columns that differ from the loaded row.
The fill and the next status are computed from the row as *listed*, as the code
does.

`RecordSubmitted` is the recording transaction of the submission job: the row
takes the answer's quantity; a fill is booked only if the answer is FILLED.

`Misbehaviour` switches the environment: stale answers, an acknowledgement from
the lookup of an order already filling, lost acknowledgements, a broker that
forgets, suspended, stopped and unknown statuses, a snapshot without a price.

### OrderSubmission and SubmissionFeeds

`pc` follows `OrderExecutionService.submit`; `request` records, per intent and
attempt, what became of the POST - state the program cannot see. A *lost*
request stands for every failure that created no order. Intents carry a slot
(strategy, symbol, side) for the repeat check; notional is one unit each. The
duplicate-window service (`safety/services/order_idempotency_service.py`) is
not modelled: its production reader is a stub that finds nothing.

`FeedsReconciliation` maps this module onto `OrderReconciliation`: submission
implements the exchange *accepted, then recorded* that the other module begins
with, so the two may be studied apart.

### TickRisk

One unit of a symbol is one unit of notional. `held`, `resting`, `inHand` and
`stray` are the broker's truth: the holdings, the orders with a row, the order
accepted whose row is not yet committed, and the orders that will have none;
`booked` is the position ledger's snapshot; `base`, `pending`, `gross` the
`PositionAwareRiskStateReader`; `account`, `openRows`, `plan` what the
evaluation sees and decides; `overlap` whether another process may reconcile
during a tick. `BuildTick` bases the reader on live positions, or on the
ledger's snapshot when the broker cannot be read. `Evaluate` chooses any plan
that hold-back, buy cap and sell clamp allow (what the strategies want is
arbitrary). `Submit` checks and sends one intent, which is accepted (`Accept`:
noted by the reader, in hand), refused, or goes astray because its answer is
lost or taken for a refusal (`Mislay`); `Record` commits its row. A tick may
fail at any step (`EndTick`), and an order in hand is then a stray.
`ShortOnlyByStrays` and `GrowsPastCapByStraysOnly` speak of the case where
nobody else reconciles: the account is short, and a symbol past its cap, by no
more than what was left without a row.

### TradingCycle

| Variable | Code |
|---|---|
| `control`, `killRow` | the `runtime_control_state` row and `kill_switch_state.is_enabled` |
| `strategyOn` | the strategy's control state |
| `session` | per operator, the command in hand and the control row as it was loaded |
| `pc`, `plan`, `hand`, `job` | per cycle, the step, the orders evaluated and not yet sent, the order accepted whose row is not committed, the job row |
| `broker`, `row` | an order's state at the broker (external) and in `broker_orders` |
| `unpolled`, `sent`, `pardoned` | histories: orders not polled since accepted, sent by the run, past every check when the switch went on |

A command is two actions: `Load` reads the row, `Commit` writes the columns
that differ from what was loaded (the ORM's UPDATE), the kill switch's own row,
and, for a halt, marks the open orders CANCELED - in the database only. The
steps of a cycle are the actions `Start` ... `Complete`, in the order of
`run_trading_cycle`; each reads the controls when the code does: `Start`
(`get_cycle_block_reason`), `GuardStops`, `Recheck`, `BeginSubmission`. Sending
is `Accept` and `Record`, order by order; where a step raises or the process
dies between them, the order's row says "rejected" or is missing, and no poll
finds the order again. `CompletedIsReconciled` says that such a run is not
recorded as completed, and `OrdersSettle` speaks of every other order.
`GovernancePauses`, `IngestionNotReady`, `EvaluationFails`, `ReconcileFails`,
`StepRaises` and `Crash` are the ways a run ends early, with the job row each
leaves. `GuardRaises` asks the kill switch only in the live environment, as the
live gate does. `TradingFreezeService` stores nothing and its checks always
pass, so it has no action.

### AccountLedger

One symbol, money in fractions that make every average price an integer.
`executed` and `account` are the broker's; `booked` is `previous_filled_qty`;
`toPost` the fill between its booking and its accounting. `cashRows` and
`positionRows` are the rows of each book's newest timestamp, with the
`recorded_at` order that decides which is newest: a fill writes the row of its
order's run and the tick's time, so a second fill of the run overwrites that
row (`WriteCash`, `WritePositions`). A tick is two passes of `Book` and `Post`.
`snapshot` is the stored account's cash. Buying power and equity have no values
here: `fresh` says which of the account in the resync's hand, the stored
account and the newest cash row still show the broker's present ones, which an
execution or a price (`FiguresMove`) ends, and for the row also a posted fill,
whose row carries the ledger's own figures. The resync is `SyncAccount`,
`WriteSyncedCash`, `SyncPending`, `WriteSyncedPositions`, `Validate`, each read
and each write apart, and the operator may stop in the middle (`Abandon`) or
give no run id, which stores the account alone (`WriteSnapshotOnly`).
`Validate` answers ok if the ledger's cash, net of the pending fills, and the
stored account's cash are the account's and the figures agree; where something
moved since they were stored, the figures may agree or not. There is one
account and both rows exist, so its comparisons of account ids and its findings
of missing rows cannot occur. `missed` is a history: what was booked and never
posted since the book was last resynced.

### SleeveLedger

One symbol; strategies are numbers because adoption, crossing and the clamp go
in name order, and 0 is the orphan sleeve. `order[s]` is the owner's tracked
order: its side, what is left at the broker, and what is filled and not yet
reconciled; `fresh` holds its owner while its row is not committed. `stray` are
the orders that have no row and will get none, whose fills nobody asks for
(`StrayFills`). A tick is `StartTick`, `Visit` and `ApplyToSleeve` per open
order, `FetchPositions`, `Adopt`, `Evaluate` (hold-back, cross, clamp), `Send`
and `Record` per intent, any of them refused or gone astray, and
`ReconcileAgain`. The resync is `FetchForResync` and `Resync`. The broker fills
(`Fill`) and ends (`OrderEnds`) orders between any two of these. `lost` is a
history: shares the account gained or lost that no sleeve was told of, by a
crash between booking and sleeve, by an order without a row, or by a trade
outside the platform.

### EodChain

A step is its position in `eod_chain_steps`. `parents` are the chain's parent
rows of the date, `old` those before the rescue's cutoff, `done` the steps with
a completed child row - the only things that survive a crash; `ctx` is the
chain in hand, with its resumed, failed and skipped steps and whether the
dataset step left its `values`; `proc` is where the process is. The orphan
rescue is two steps, because its SELECT of running rows and its UPDATE by key
(`runtime/services/orphan_job_recovery_service.py:40-61`) let a commit of the
chain fall between: `Boot` and `BootRescues` at a start of the process,
`RescueReads` and `RescueWrites` in the processes `Elsewhere` (the command, the
research loop), at any moment of the chain. It holds in `read` the parent rows
and the child row of the step at work, and overwrites both, whatever they say
by then. The chain's own saves need no such split:
`RuntimeJobRunRepository.save` overwrites every column with the runner's own
object. `StartChain` is the soak loop's branch with `is_done_for`, `StepRuns`
the step's own commits, `RecordCompleted` its row's, `StepRaises` and
`StepMissesValues` its failures. `RequestShutdown`, `Crash` and `ChainBreaks`
(the database is unreachable) may come at any point. One scheduler process runs
the chain. `runs`, `ownFault`, `undone` and `robbed` (what a rescue overwrote)
are histories.

## 3. Runs

Passing runs:

| Run | Bounds | Shows |
|---|---|---|
| `recon_safety` | 2 orders of 2 shares, 1 process, no fault, stale reads | fills equal the tracked quantity at all times; closed means booked; ledgers follow and complete |
| `recon_hostile` | 1 order of 3 shares, all misbehaviours, 1 fault | no double booking, legal transitions, books only grow, `BookingInv` |
| `recon_liveness` | 1 order of 3 shares, stale reads, 2 faults, fair | a finished order is closed and booked; implements `OrderPromise` |
| `submit_safety` | 4 intents (two in one slot), 2 attempts, no deduplication, 1 fault, fair | one order per intent, books match, one intent in doubt, limits; the job ends; refines the head of `OrderReconciliation` |
| `risk_safety` | 2 symbols, 2 ticks, 1 unit that may go astray, stale base allowed, with and without an overlapping reconciler | short, or past the symbol cap, by strays only; caps hold within a tick, reader consistent |
| `eod_chain` | 4 steps: dataset (blocking, 1 attempt), one that needs its values (blocking), independent, one that does not apply; 1 other process that rescues, 2 stops, 2 raising steps, fair | blocked steps do not run, outcomes are true and only a rescue that had read the row takes one away, recorded steps run once, the day closes |
| `cycle_controls` | 2 overlapping cycles, live, 1 operator with 3 commands of 6 kinds, 1 order, 1 fault, fair | both kill-switch tables agree; only pardoned orders leave; a completed run polled what it sent; a lasting halt quiets; orders settle unless a fault left them without a row |
| `ledger` | 3 orders of one run (buy 2, buy 1, sell 1), 1 crash, 1 resync with the market closed, fair | both books balance at every moment; the validator overlooks no lost cash, and says ok after a resync if nothing moved; the resync lands |
| `sleeve` | 2 strategies and the orphan sleeve, 2 trading ticks, 2 crashes, lost answers or outside trades, fair | sleeves balance, nothing orphaned, nobody sells another's shares, sales uncovered by strays only, sleeves converge |

Runs that TLC refutes, each against a sentence the repository states (quoted in
PROJECT.json "findings"):

| Run | What happens |
|---|---|
| `eod_resume` | a chain resumed after its dataset step finds the step's values gone; the next blocking step fails at every attempt and the date is recorded failed |
| `ledger_runs` | fills of two runs applied alternately in one tick: a row written again keeps its old place, the next fill extends the other row, and a fill drops out of the ledger |
| `ledger_price` | increments posted at the cumulative average add up to other cash than was paid |

### Bounds

An order of two shares already has a partial fill and a remainder, three add a
second partial fill, which is what a stale read in the middle needs. Two orders
are enough for one to stand in the way of another. `recon_safety` keeps two
orders apart without failures (`LedgersComplete` speaks of that case only);
failures are in `recon_hostile`, one at each possible place, and in
`recon_liveness`, which takes two. Two attempts give a first, which may be
retried, and a last, which may not. Four intents with two in one slot let the
throttle, the slot check and the cap each be the one that refuses. Two ticks
let an order of the first, with a row or astray, meet the second; an opening
holding of three exceeds the symbol cap of two, and two symbols are the fewest
in which gross and symbol exposure differ. Two stops and two raising steps let
the chain be interrupted, resumed and fail on the resumed run, and its four
steps hold each kind that the real chain has; one other rescuing process
overlaps the chain and a start's own rescue. Two cycles are the fewest that
overlap; three commands allow a halt, its release and another halt or a change
that hides one; the single order is enough because `plan` and `sent` are per
cycle, and the proofs of section 5 hold for any number. Three orders of a run
fill in both passes of a tick and from both sides of the book. Two trading
ticks let an order of the first be open at the second. Every counter
(`MaxFaults`, `MaxAttempts`, `MaxTicks`, `MaxPlan`, `MaxMislaid`, `MaxStops`,
`MaxCommands`, `MaxSyncs`, `MaxTrades`, `MaxBuy`, `MaxHeld`) is bounded in a
guard. Symmetry is used in runs without liveness, over orders or symbols, which
no definition tells apart. Deadlock checking is off: the systems really rest
when all orders are closed, the job has ended, the ticks are used up or the day
is done.

### Fairness

* `recon_liveness`: a process in the job goes on and the job is run again (weak
  fairness of `JobStep`: the cycle is scheduled, and its steps return or
  raise), and a poll that is possible again and again is at some time answered
  with the broker's current state (strong fairness of `ReadFresh`). Nothing is
  assumed of the broker's fills, or of crashes.
* `submit_safety`: the job's steps, and a request in flight is answered or
  given up (HTTP clients time out).
* `eod_chain`: the process is restarted (`restart: unless-stopped` in
  `docker-compose.yml`), the rescue of its start ends, the loop comes round
  while the evening lasts, and the runner does not stop by itself.
* `cycle_controls`: each cycle is scheduled again and its steps return or
  raise. Operators, the broker and faults owe nothing.
* `ledger`: ticks follow one another and go on, and a resync begun is finished
  or abandoned. Executions, crashes and operators owe nothing.
* `sleeve`: the worker goes on; ticks and the evening's resync both come again
  and again (strong fairness, because either may find the worker busy with the
  other); a day order fills or ends.

## 4. Where the code and its documents part

Three disagreements have a run (section 3). The models show others. Each of
those below is what a property says under an assumption, and what happens
without it.

* **Two reconciliation jobs at once.** The rows are listed before the loop
  (`scheduler/jobs/run_order_reconciliation_job.py:82-90`) and the increment is
  the answer minus the *listed* quantity
  (`execution/mappers/broker_order_mapper.py:215`), so two overlapping jobs
  book and post one fill twice, and a closed order can reopen.
  `docs/backend/broker/broker_event_stream_and_order_lifecycle.md:16` says "the
  second delivery has delta_qty = 0 and is silently discarded". `execution
  reconcile-open-orders` (`cli/commands/execution.py:687`) runs outside the
  scheduler's process. `OneReconciler` excludes it.
* **A late acknowledgement.** The tracked row takes the answer's quantity
  (`execution/services/order_runtime_state_service.py:42`), and only an answer
  that is FILLED books a fill
  (`scheduler/jobs/run_order_submission_job.py:495`): shares filled before the
  lookup answered are never booked.
* **A crash between booking and posting.** The fill is behind
  `previous_filled_qty` and no later visit sees it; the ledgers stay short
  until a resync. `docs/backend/orchestration/trading-cycle.md:86` says
  "Post-fill accounting updates positions and cash snapshots". `AccountLedger`
  shows the resync that brings it back.
* **Starvation.** An order that raises ends the job (line 186) at every run,
  and those behind it are not polled. A partly filled order that the broker
  suspends, or a status the mapper does not know, does it. The lifecycle
  document (line 115) says "Any fills missed during the reconnect window are
  picked up by the next polling cycle."
* **Between acceptance and row.** A submission that dies between the broker's
  answer (`scheduler/jobs/run_order_submission_job.py:385`) and the row's
  commit (479-529), or whose recording fails (612-622), leaves a live order
  that is not held back, not polled and not in any sleeve; the next tick may
  sell or buy the same again, although
  `scheduler/jobs/portfolio_evaluation.py:382` says "Sells may never exceed
  what the account holds". The properties on short, cap and coverage bound the
  excess by exactly these orders; `DoubtIsInHand` says that a run leaves at
  most one.
* **The rescue writes what it read earlier.** It selects the running rows
  (`runtime/services/orphan_job_recovery_service.py:40-48`) and later updates
  them by key (54-61). From another process it can read the chain's row as
  running, let the chain record its outcome, and overwrite it as failed and
  rescued, which `is_resumable_parent` does not count as done: the process that
  ran the chain does not start it again, and one that restarts runs it a second
  time, although `scheduler/orchestration/eod_chain_runner.py:13-14` says "a
  chain already completed or failed for the date is not re-run".
  `OutcomeStands` says that nothing else takes an outcome away, and `DayCloses`
  leaves out a day whose outcome was taken.
* **A late arrival.** A request that reaches the broker after its lookup missed
  it, or an order accepted behind a 5xx, turns the retry's refusal into a row
  REJECTED for a live order.
  `scheduler/jobs/run_order_submission_job.py:556-557` says "It is dead; the
  other intents still go out."
* **The gross check across ticks.** The reader has positions and the orders of
  this tick (`safety/readers/risk_state_reader.py:107-109`), not those resting
  from earlier ones; `docs/architecture/safety-doctrine.md:35-36` says "Enforce
  hard caps before any broker call". `CapsHoldInTick` says what does hold.
* **Positions, then rows.** The evaluation fetches positions
  (`scheduler/jobs/portfolio_evaluation.py:113`) before it lists the open
  orders (117-125). If another process reconciles between the two, a sale that
  filled is in neither and its shares are sold again, although line 382 says
  "Sells may never exceed what the account holds".
* **The kill switch cancels nothing.** It marks rows CANCELED
  (`storage/sor/repositories/core/broker_order_repository.py:51-65`) and tells
  the broker nothing; `docs/roadmaps/frontend_audit_and_roadmap.md:267` says
  "Kill Switch halts + cancels open orders". `OrdersSettle` shows that the next
  polls repair the rows.
* **Two commands at once.** Each loads the control row before either commits,
  and the kill switch's own row is read later: an activation overlapping a
  release leaves the two tables unequal, although
  `safety/services/kill_switch_service.py:21-25` says the one "stays in sync"
  with the other. `ControlsSound` and the live half of `OnlyPardonedLeave` are
  for one operator at a time.
* **A release forgets.** Releasing the kill switch enables trading and clears
  the pause, whatever stop or pause was set before the halt.
* **The freeze is a stub** (`docs/backend/runtime/failure-modes.md:107-112`
  says so too), and a cycle that governance pauses is saved as completed with
  the output "skipped".
* **The resync reads at several moments.** The account is fetched
  (`execution/services/broker_runtime_sync_service.py:237`) before the pending
  fills (244): an execution between is counted wrongly. The runbook
  (`docs/operations/runbooks/ledger-resync.md:22-23`) asks for no tick in
  flight, "outside market hours, or with the kill switch on"; the second does
  not keep resting orders from filling. `ledger` has `MarketOpen = FALSE`; with
  `TRUE` the cash book stops balancing. The validator compares cash, buying
  power and equity and no positions
  (`execution/services/broker_runtime_sync_service.py:294-351`), so a resync
  abandoned after its first half may be called consistent. It compares with the
  account as last stored, so after an execution or a price change it may answer
  drift with no cash lost.

## 5. Proofs

`tlapm` proves the following for every value of the constants that the named
assumptions of each module allow.

| Module | Theorems | Beyond the module's assumptions | Inductive invariant |
|---|---|---|---|
| `OrderReconciliationProofs` | `TypeCorrect` | - | `TypeOK` |
| `OrderReconciliationProofs` | `BookingIsInvariant`, `NoOverBooking`, `LedgersTrailFills`, `TransitionsAreLegal` | `OneReconciler` | `BookingInv` |
| `OrderReconciliationProofs` | `BooksGrow`, `LedgersCatchUp` | `OneReconciler` | `BookingInv`; `NothingOwed` |
| `OrderReconciliationProofs` | `NothingMissed`, `PromiseIsKept` | `OneReconciler`, `Calm`: crashes, failing accounting and stale answers only | `PromiseInv` |
| `OrderSubmissionProofs` | `NoSecondOrder`, `BooksAreTrue`, `DoubtIsInHand`, `LimitsAreKept` | `Prompt`: no request overtakes its lookup, no accepted order is answered 5xx | `SubmitInv` |
| `OrderSubmissionProofs` | `SubmissionFeedsIt` | `Prompt` | `SubmitInv` |
| `TickRiskProofs` | `ShortIsOfStrays`, `CapIsPassedByStraysOnly` | - (the properties speak of no overlap) | `RiskInv` |
| `TickRiskProofs` | `ReaderIsSound`, `CapsHold` | - | `ReaderInv` |
| `TradingCycleProofs` | `ControlsAreSound`, `HaltHoldsOnPaper`, `HaltHoldsWithOneOperator`, `CompletedRunsPolled` | one operator; paper; one operator; none | `TablesInv`, `HaltInv`, `PollInv` |
| `EodChainProofs` | `TypesKept`, `BlockingComesFirst`, `OutcomesAreTrue`, `RecordedStepsRunOnce`, `OutcomesStand` | - | `ChainInv` |
| `SleeveLedgerProofs` | `SleevesAlwaysBalance`, `SalesAreOwn`, `UncoveredSalesAreStrays`, `NothingIsOrphaned` | - | `SleeveInv` |
| `AccountLedgerProofs` | `SharesAlwaysBalance` | `~MarketOpen`, `[]OneRunInTick` | `SharesInv` |
| `AccountLedgerProofs` | `BooksAlwaysBalance`, `LedgerHoldsWhatWasPaid` | `~MarketOpen`, `[]OneRunInTick`, `SteadyPrices` | `BooksInv` |
| `AccountLedgerProofs` | `VerdictsAreTrue` | the same | `VerdictInv` |
| `AccountLedgerProofs` | `OneRunIsEnough`: `[]OneRunInTick` | `~MarketOpen`, `SingleRun` | `RunInv` |
| `SumsProofs` | lemmas on `SumOver` | finite sets | - |

Why the strengthenings are needed:

* `NeverOverBooked` is not inductive: a fill is computed at one step and booked
  at a later one. `BookingInv` says that what the job holds in between still
  follows from the books: its list agrees with the database for the orders it
  has not handled (`ListIsCurrent`), the result in hand is the answer's
  quantity minus the listed one (`ResultFollows`), the row it loaded is the row
  that is there (`LoadedIsCurrent`), a fill on its way to a ledger is in the
  fills table and not yet in that ledger (`OnItsWay`); the broker never showed
  more than it has filled (`SnapshotsHonest`) and knows nothing of orders not
  sent (`UnsentIsEmpty`). `OneReconciler` is needed for `ListIsCurrent` and
  `LoadedIsCurrent` only. TLC checks `BookingInv` in `recon_hostile`.
* That nothing is missed needs more: `PromiseInv` says that an order the broker
  is done with has shown its last snapshot (`LastIsLast`), that the result in
  hand takes the row to the answer's quantity and closes it only on that last
  snapshot (`AnswerIsUsed`), so that a stale answer can delay a fill and never
  hide one behind a terminal status (`ClosedIsFinal`). `Calm` is where it ends:
  a late acknowledgement, a forgotten order or a fill without a price breaks
  it. Under `PromiseInv` every step of `OrderReconciliation` is one of
  `OrderPromise` or a stutter. `NothingOwed` accounts for the fill between the
  fills table and a ledger.
* `SubmitInv` adds that an intent still to do has no request (`TodoIsFresh`),
  that at each place of the retry at most one request is alive and earlier ones
  are dead (`OneLive`), that intents dealt with agree with the broker
  (`Settled`), and that every live order is counted against the limits
  (`Counted`, `Limits`). `Prompt` is used in `OneLive`: after the lookup
  missed, nothing of the attempt can come alive. The same invariant shows every
  step of submission to be, through the mapping of `SubmissionFeeds`, the
  broker's acceptance, the recording of an outcome, or unseen.
* `RiskInv` relates the views of a tick to the broker: an order that rests has
  an open row (`RestingIsOpen`), the account a plan is made for is still there,
  but for what strays have done to it since, in the symbols it may trade
  (`AccountIsCurrent`), and planned sales and buys fit beside what lives
  (`SalesAreHeld`, `BuysAreRoomed`). The strays alive never outnumber those
  there were (`StrayIsMislaid`), which is why a fill of one costs nothing that
  the bound has not allowed for.
* `TablesInv` adds that a command that changes the switch loaded the row that
  is there (`LoadedIsPresent`). `HaltInv` says that what is past its checks
  under a halt was past them when it began; on paper the last check reads the
  control row itself, live it reads the other table, which is where one
  operator is needed. `PollInv` adds that an order is planned once and sent
  once, by one run (`SentOnce`), and that a run has sent nothing before its
  submission, that what it sent and nobody polled is tracked or in its hand,
  and that it leaves nothing behind its reconciliation (`RunIsPolled`).
* `ChainInv` says of a running chain that its date has no outcome yet and what
  it resumed was recorded (`RunIsOpen`), that each step behind it completed,
  failed or was skipped for a reason (`BehindIsTrue`, `TraceIsKept`), and that
  the step in hand applies and was not resumed (`InHand`). All of them count a
  step whose completed row a rescue has overwritten (`undone`) as worked.
* `ReaderInv` needs that a noted sale takes off no more exposure than there is
  (`ExposureIsReal`): then the absolute value the reader takes of a symbol's
  figure changes nothing, and its gross figure is a sum (`GrossIsSum`) that
  each noted order changes in one place.
* `SleeveInv` is the balance with what guards it. That no sleeve is ever driven
  below zero rests on `SellsOwnShares`, which holds because a cross hands each
  buyer its part in name order and takes as much from the sellers
  (`CrossesBalance`, from `SharesSum`), because the clamp leaves sales the
  account covers, the strays aside (`ClampCovers`, `Covered`), because an
  intent not yet sent still fits its sleeve (`Owned`), and because the resync
  writes down only what is in excess (`WriteDownLands`). Adoption and resync
  compare the sleeves with positions fetched earlier; `SeenIsCurrent`,
  `ClosedIsEmpty` and `NothingLost` say that at this moment nothing under way
  can be taken for an orphan, and that the account has fallen by no more than
  the strays since, and `OrphansOnlyExit` that the orphan sleeve grows by no
  other road.
* `BooksInv` holds a book to one row in its newest timestamp, so that the row a
  fill extends is the row the last fill wrote; says that a resync and a tick
  take turns (`TakesTurns`) and that what a resync read is still so when it
  writes (`SeenIsCurrent`); and that the executions of an order were at one
  price (`PaidAtOnePrice`), so that the average of the shares booked and of the
  shares to come is the same. `VerdictInv` adds that a stored account still
  fresh has the broker's cash (`FreshIsCurrent`).

The three hypotheses about `AccountLedger` are not about the model but about
what the code leaves to its operation, and the books fail without each:
`ledger_runs` breaks `OneRunInTick` (fills of two runs in a tick),
`ledger_price` breaks `SteadyPrices` (an order that fills at several prices),
and an execution between the two halves of a resync, which `~MarketOpen`
excludes, is counted in the account and again as pending. `OneRunInTick` is
assumed of the behaviour and not of the orders: orders of many runs are covered
as long as no tick posts for two of them. The constants of the `ledger` run
satisfy all three.

Sums over a set are folds, and the library's induction theorems cannot be
instantiated here. `SumsProofs` proves each fact about them from a least
counterexample instead: the subsets of a finite set are well founded under
strict inclusion, so among the subsets on which a fact fails there is one none
of whose proper subsets fails (`SmallestMember`). From `FoldExists` and
`SumRemove` follow what the proofs use: a sum changes by the change of its one
changed term (`SumUpdate`), sums add (`SumPlus`), and terms that are zero may
be left out (`SumWithoutZeros`).

Only model-checked: liveness (`EventuallyClosed`, `EventuallyBooked`,
`JobEnds`, `DayCloses`, `HaltQuiets`, `OrdersSettle`, `LandsOnBroker`,
`SleevesConverge`), because fairness and ENABLED are outside the prover's
reach. Every safety property and every refinement the passing runs check is
also proved, those that need them under the assumptions named above.

## 6. Not modelled

* *Drawdown governance.* Its effect on a cycle is there (pass or skip). The
  strategy ladder only observes: the settings row has no `drawdown_ladder_*`
  column, so its configuration falls back to its defaults; the portfolio's is
  thresholds on equity in one transaction.
* *Strategy governance, membership, promotion.* Single-transaction services on
  numeric evaluations; the cycle's view, the enabled flag, is modelled.
* *Broker event stream.* Not wired into production at this commit. It would be
  one more reconciler. *Simulated broker*: fills synchronously, which
  `OrderReconciliation` covers as an acknowledgement already FILLED.
* *Corporate actions*, and the withholding of adoption for one that is pending:
  arithmetic on positions, applied once per action id.
* *In modelled components:* average cost, realised profit, settled cash, fees;
  daily notional, reserved cash, sector and portfolio-percentage limits;
  signals, budgets and on-deck shadow trading; execution policies, fill-quality
  and audit rows; accounting that fails midway inside the submission
  transaction; `sync-open-orders`, `sync-order-status` and the external
  reconciliation report; the soak loop's intraday tick and the research loop.
* *Ingestion, features, universe, research, backtesting, risk analytics and
  portfolio models, observability, REST, CLI, frontend, storage.* Data
  transformations, numerical code, presentation and rows; they are the bulk of
  the repository and hold no protocol of their own.

## 7. Plan

1. `AccountLedger` with the position and cash row written apart, for accounting
   that fails midway in a submission.
2. `DrawdownLadder` once its configuration is read; membership rotation racing
   an operator.
3. `TradingCycle` composed with `SleeveLedger`, for a cycle that fails between
   crossing and sending.
4. Daily notional and percentage caps in `TickRisk`.
5. Proofs for a resync while the market is open: a bound on how far the books
   may be off, in place of `~MarketOpen`.
