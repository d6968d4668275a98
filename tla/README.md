# WaterfallHunter: TLA+ models, model checking and proofs

WaterfallHunter is a signal-only hunter for short setups: it scans the LBank
catalogue, gathers evidence about each contract, turns it into a canonical entry
decision, stores the decision in SQLite together with the alert it causes, and
shows the result on a dashboard and on Telegram.  It places no orders.  This
directory holds TLA+ models of its control, the TLC runs that check them on
small instances, and proofs of the results that matter most.

Paths below are relative to `src/backend/src/waterfallhunter/` unless they start
with `src/`.

## The system

One process runs an asyncio event loop.  Blocking work (SQLite, HTTP through
synchronous clients) goes to threads with `asyncio.to_thread`, so a step that
looks sequential is a chain of awaits between which every other task may run.
All durable state is in one SQLite database; a write is a `BEGIN IMMEDIATE`
transaction.  Nothing else is shared between processes.

| Component | State | Operations | Interacts with |
|---|---|---|---|
| Catalogue and lifecycle (`core/db.py`, `discovery/lbank_scanner.py`) | `lbank_catalog` rows: status, lifecycle_id, scan_eligible, misses; the scanner's in-memory `active_candidates` | update, miss, remove, re-list, eligibility flip, compare-and-set of the status | the hunter reads the catalogue every minute; the ledger and the decision store check it inside their transactions |
| Hunter loop and evaluation (`main.py`) | in-flight symbols, candidate snapshot, per-candidate runtime state | `hunter_loop`, `evaluate_candidate`, reconcilers | every other part |
| Hunter schedule (`core/hunter_schedule.py`) | due time and interval per symbol | sync, mark_started, due_candidates | hunter loop |
| Stage lifecycle (`core/stage_lifecycle.py`) | hype / damage / setup confirmations with TTLs | advance | evaluation |
| Entry decision engine (`core/entry_decision.py`) | none (pure) | base decision, transition from the previous packet, expiry, invalidation | evaluation, reconcilers |
| Entry decision store (`core/entry_decision_store.py`) | append-only decision events, advisories, outcome captures and resolutions | append_if_changed (+capture), append_advisory, resolve, scan | outbox (same transaction), dashboard |
| Outcome resolution worker (same file) | two cursors | run_once, load lane batch | store, market data |
| Signal ledger (`core/lbank_signal_ledger.py`) | ledger rows, signal metadata, domain outbox | persist_trigger | catalogue (compare-and-set), outbox |
| Notification outbox and worker (`core/notification_delivery.py`) | outbox rows with status, attempts, lease | recover, grace, claim, deliver, complete | store, transport |
| Telegram transports (`core/notifier.py`) | none durable | deliver, probe | outbox worker, Telegram |
| Dashboard stream (`core/dashboard_stream.py`, `main.py`) | event buffer, content hash, client queues | publish, replay, broadcast, stream, poll | browsers |
| Paper trades (`main.py`) | trades in memory, table of closed trades | open, settle | decision store, prices |
| WebSocket evidence (`core/ws_streamer.py`) | connections, circuit breakers, evidence generations | connect, retire, read | evaluation |
| Symbol evaluation and score (`main.py`, `core/multi_exchange.py`, `core/score_v2.py`, `core/position_calculator.py`, `core/risk_manager.py`) | none durable | prefilter, waterfall of venues, points, levels, leverage | streams, exchanges, settings |
| Runtime settings (`core/runtime_settings.py`) | one row with its history, a cache | current, apply, reset | evaluation, operator, dashboard thread |
| Execution research (`core/lbank_execution*.py`) | queue of contracts, history of measurements, counted evaluations | queue, measure, suitability, count, flush | catalogue, evaluation |
| Production evidence and replay (`core/production_evidence.py`, `core/feature_replay.py`) | packets, results, the worker's frontier | record, replay, append | evaluation |
| Lifecycle v2 shadow (`core/lifecycle_v2_shadow*.py`) | append-only log of transitions | next state, append | evaluation |
| Portfolio replay and backtester (`core/execution_planning.py`, `core/portfolio_replay.py`, `core/backtester.py`) | positions and cash of a replay; capital, curve, journal and calibration of the backtester | open, fund, mark, close; trade, restart, reset | a request; nothing that runs |
| Watchdog (`src/watchdog/`) | alert state | probe, webhook, transition | backend health, Telegram |
| Schema migrations (`core/migrations.py`, `core/migration_preflight.py`, `core/schema_contract.py`, `migrate_database.py`) | tables, history, user_version of the file | preflight, apply, postflight | deployment |
| Deployment (`src/scripts/deploy_production.sh` and what it calls) | images, containers, backups, certificate | deploy, roll back, quarantine | health check, migrations, host |
| Mission controller (`src/scripts/wfh_mission.py`) | checkpoints, step journal, mission state | start, finish, checkpoint, resume | sessions, GitHub |

The complete list, with the parts that are not modelled and the reason, is in
`PROJECT.json` ("components").

### What is hard here

* **Stale reads over awaits.**  The delivery worker reads the clock once and
  uses it through four waits.  The hunter keeps a candidate snapshot for up to a
  minute.  The reconcilers read the latest decisions in a thread and append long
  after.
* **Crash points.**  Between the claim of an alert and its completion, between a
  decision and its outcome capture, between a database write and the pop of the
  in-memory trade.
* **Ordering.**  Event identifiers of the dashboard are issued in threads and
  broadcast from the loop.
* **Boundaries.**  Attempts, leases, grace times and TTLs are compared with `<`
  or `<=`, and SQL `CHECK` constraints abort some steps.
* **Cursors and queues.**  Captures, signals, packets, contracts and hunter slots
  are served in bounded batches from some order; a wrong order or cursor starves
  the rest and fails no test.
* **Several transactions for one thing.**  A flush that fails and is merged back, a
  trade that is booked in four tables, a migration of several steps, a release that
  replaces another: a failure or a kill between two steps must leave something the
  next attempt can go on from.

## The modules

    AlertDelivery          what a delivery of one alert promises
    NotificationOutbox     the outbox and its workers; implements AlertDelivery
    EntryDecision          the pure decision engine
    DecisionPipeline       one symbol: catalogue, evaluation, maintenance, tables; EXTENDS EntryDecision
    DashboardStream        event buffer, broadcaster, browsers
    HunterSchedule         hunter_loop over several symbols: due times, slots, sleep

    SymbolEvaluation       one evaluation: prefilter, waterfall of venues, verdict
    StageLifecycle         hype, damage and setup a symbol has shown
    EvidenceScore          the points of the evidence
    TradePlan              the levels of a position and its leverage
    RuntimeSettings        the operator's settings and their cache
    SharedEvidence         generations of a venue's shared streams
    DirectStreams          the direct streams of one venue
    LiquidationClients     the exchanges owned for liquidations
    EvidenceCaches         what is kept of the streams and read of them

    DecisionOutcomes       the resolution of outcome captures
    OutcomeEvaluation      a day of candles becomes an outcome
    SignalOutcomes         the settlement of signals; EXTENDS OutcomeEvaluation
    PaperTrades            the trades of the live backtest
    DecisionLog            the counts of evaluations and their flushes
    FeatureReplay          packets of evidence and their replay
    ExecutionQueue         which contract is measured next
    ExecutionMeasure       what is measured of a book and made of the history
    LifecycleShadow        the second lifecycle and its log
    PortfolioReplay        plans of positions and the replay of a portfolio
    Backtester             the books of the backtester

    Watchdog               probe and webhook that share one state
    SchemaMigration        the migration command on one file
    Deployment             a release, its rollback, the health check
    MissionContinuity      checkpoints and steps of a mission

    Evidence               the four machines of the streams, side by side
    Evaluation             Evidence and the five machines of one evaluation
    Outcomes               the ten machines of what follows a decision
    Operations             the four machines of the operations

    <X>Proofs              theorems about the specification of X and their proofs
    MC<X>                  constants for the runs of X that a .cfg cannot write

The modules meet at the tables.  `DecisionPipeline` ends where an outbox row is
inserted (`alerts`); `NotificationOutbox` starts there (`InsertOutbox`, at any
time).  `HunterSchedule` says which symbol's evaluation starts when,
`DecisionPipeline` what an evaluation of one symbol does to the tables; its `Begin`
may come at any time.  `SymbolEvaluation` says how the evidence of an evaluation is
come by; its verdicts are the *answers* that `EntryDecision` takes as inputs.
`DashboardStream` sees the tables as a payload that changes at any time.

Components that share nothing are composed in one specification (`Evidence`,
`Evaluation`, `Outcomes`, `Operations`): `machine` says which of them a behaviour
belongs to, the others stay where they start, and the numbers of states add up
instead of multiplying.  Where two of them touch, the header of the composing module
says how (`SharedEvidence` hands symbols to `DirectStreams` by its variable
`direct`).  A proof about one machine is a proof about its own `Init` and `Next`; in
each proof module `MachinesStart` and `OneMachineSteps` lift it to the composition,
whose steps are a step of one machine and a stutter of every other.

### NotificationOutbox

The code: `core/notification_delivery.py` and `TelegramSignalTransport.deliver`
in `core/notifier.py`.

* Each column of the outbox table is a variable, a function over the events.
  `advisory` is the set of decisions with a row in `entry_decision_advisories`.
* `phase[w]` is where the `dispatch_once` of worker instance `w` stands:
  `recover`, `grace`, `claim`, `check`, `send`, `await`, `complete`, one action
  per stretch between two awaits.  `timestamp[w]` is the clock it read once, at
  the start.  Several instances may run with the same `worker_id`, which is all
  the row remembers of its owner: a restarted process that overlaps the old one.
* `request` and `verdict` are histories: what became of the HTTP request of each
  attempt outside, and what the worker was told about it.  No guard reads them.
* `CheckDeliverable` may suppress any alert, which ends DELIVERED: an expired plan,
  an unusable packet or identity and a symbol without a decision are not told apart;
  a stale or pre-cutover alert is never sent.
* A fault is a crash or a database error.  The `CHECK (updated_at >= created_at)`
  constraint of the table is part of the claim: a claim with a timestamp older
  than the row fails and ends the pass.
* Left out: message text, the worker's sleep after a rate limit, the health
  report, the payload checks of the second (domain) outbox that runs the same
  worker.

### EntryDecision and DecisionPipeline

The code: `core/entry_decision.py`, `core/entry_decision_store.py`, the
evaluation and maintenance parts of `main.py`, `core/db.py`,
`core/lbank_signal_ledger.py`, `discovery/lbank_scanner.py`.

* `EntryDecision` has no state.  `BuildEntryDecision` is the engine: blockers,
  gates, base decision, the rule that carries a predecessor over, the transition
  from the previous decision.  The arithmetic that scores candles and order books
  appears as the *answers* the engine asks of it (a record in `Evidence`: stale
  inputs, invalidated structure, a veto, the anti-chase verdict, readiness, and so
  on), so that every combination of answers is an input.
* `DecisionPipeline` holds one symbol.  Symbols share only the hunter's slots
  (`HunterSchedule`), so
  one symbol shows every interleaving of its own evaluation, the catalogue
  refresh and the maintenance pass.
* An entry is open from its alert to the next terminal decision *of the symbol*.  A
  maintenance thread that still holds a former lifecycle's packet may append its
  EXPIRED behind the alert of the current one; the next evaluation then finds a
  terminal predecessor and may announce the entry again.  `NoSecondAlertWhileOpen`
  therefore counts any terminal decision as an end.
* The evaluation is split at its awaits: `Begin`, `Validate` (or
  `ReferenceFailure`), `Decide`, `AppendDecision`, `Finish`, and `Discard` where
  the candidate token is found stale.  The maintenance pass is split at its
  thread calls: `ReadExpirations`, `Expire`, `SnapshotCandidates`, `ReadInactive`,
  `Retire`.  Its database calls run in threads, so they may fall between any two
  transactions of the evaluation.  `Refresh` is what follows the only await of
  `update_catalog`; it never falls between the append and the end of an
  evaluation, because there is no await between them (`LoopFree`).
* `token` says whether the record the evaluation started from is still the one in
  `active_candidates`.  The refresh replaces the dictionary, so it clears it.
* `append_if_changed_with_capture` runs up to three transactions: the append, for a
  repeated packet the read of `_repair_capture_target`, and the best-effort capture.
  Each is a step of its own (`Transact`) of the writer whose `write` record says
  which is next, with which packet and for which event (`AppendDecision` for the
  evaluation, `Expire` and `Retire` for the maintenance threads).  The other writer
  may append between any two of them: the repair then sees another latest event and
  captures nothing.  `target` is also kept during the repair read, where the code
  forgets it; only `CaptureRepaired` looks at it there.
* `evaluated_at` is part of a packet, since a capture earlier than its event is
  refused.
* Left out: formatting, `created_at` of a packet, a stored packet that cannot be
  verified, stored metrics, shadow and advisory side effects, the
  settlement of signals and captures, the slots over several symbols.

### DashboardStream

The code: `core/dashboard_stream.py` and the broadcaster, stream and publication
functions of `main.py`.

* `events`, `event_sequence`, `snapshot_sequence`, the content hash (kept as the
  content itself) and the newest snapshot are the fields of
  `DashboardEventBuffer`; its lock makes `Publish` and `Heartbeat` single steps.
* Every connecting browser and the periodic task has an aggregation thread
  (`Builders`): `Aggregate` reads the business state, `Publish` stores it, at any
  later time and in any order among threads.
* The broadcaster's turn is `SnapshotStep` then `HeartbeatStep` without an await
  between them, and other code of the event loop (`LoopFree`) runs only outside
  the turn.
* A browser keeps its last event id and the version it shows over disconnects
  and restarts of the process.  `sent` is a history: the largest id put in its
  queue.
* Left out: the polling endpoint and its cache, the page's accept logic,
  projection and hashing, the time limits of the aggregation (a thread may take
  any time), more than one aggregation thread for each browser.

### HunterSchedule

The code: `core/hunter_schedule.py` and `hunter_loop`, `evaluate_scheduled` and
`shutdown_event` in `main.py`.

* `next_due_at` and `last_started_at` are the dictionaries of
  `HunterDeadlineSchedule`, `in_flight` the dictionary of tasks, `finished` the
  tasks that have ended and that the loop has not looked at yet.
* Only differences of times matter to the code, so each time is kept relative to
  the present: how long until a symbol is due, how long since it was started.
  `Tick` shifts them all.
* The loop is split at its awaits: `Top`, the two halves of maintenance
  (`ReadCandidates` or `MaintenanceFails`, then `Reconcile(fails)`), `Dispatch`,
  `Pause`, `Arm`, `Wake`, and `Drain` in its `finally`.  Evaluations end and a stop
  comes between any two of them.
* A pass of the loop takes no time: time goes by only while the loop sleeps.  So
  `EvaluatedInTime` is about what the schedule and the sleep decide, not about a
  busy event loop or a slow database.
* A new snapshot may hold any symbols with any statuses; a catalogue that cannot
  be read is the empty snapshot, after which every due time is forgotten.
* Symbols of equal priority and due time are ordered in the code by their last
  observation and their name; the model takes any order of them.
* `synced` is a history: the schedule has seen the snapshot.  A maintenance pass
  that fails after its read leaves it FALSE until a dispatch finds a slot free; in
  that time a promoted symbol keeps its long interval, which `EvaluatedInTime`
  excepts.
* Left out: the execution log and its flush, the universe snapshot and heap trim
  after maintenance, the backlog metric (it reads only), statuses outside the
  table, the startup delay.  The cancellation after the shutdown grace is one of
  the ways in which an evaluation ends (`Finish`).

### What an evaluation rests on

* **SymbolEvaluation** (`main.py`, `core/multi_exchange.py`,
  `core/multi_exchange_validator.py`).  One evaluation: the 4h prefilter that may
  keep a WATCH symbol where it is, the waterfall of venues of which the first with a
  complete packet is selected, derivatives and benchmark beside it, the verdict.
  Every answer of a venue is chosen anew in every step, so that venues may change
  their mind between two questions.
* **StageLifecycle** (`core/stage_lifecycle.py`).  An evaluation reads the clock in
  its thread and waits for its turn to write (`waiting`), so observations are stored
  out of order; the symbol may be delisted or relisted meanwhile.  `log` is a
  history of what was shown.
* **EvidenceScore**, **TradePlan** (`core/score_v2.py`, `core/position_calculator.py`,
  `core/risk_manager.py`).  Pure functions over integers with their thresholds; a
  state is one input.  Rounding goes the way of the code: bounds of the leverage are
  rounded down one by one, levels to the tick.
* **RuntimeSettings** (`core/runtime_settings.py`).  The event loop and the dashboard
  thread read through one cache; a failed read is answered with the defaults and
  cached.  `audited` is the table of changes.
* **SharedEvidence**, **DirectStreams**, **LiquidationClients**, **EvidenceCaches**
  (`core/ws_streamer.py`).  Candidates only state what they want; the reconciler
  replaces whole generations, one action from each of its awaits to the next.  A
  direct stream that is given up is retired in the background under the venue's
  lock while it may already be wanted again.  A close may time out: the transport is
  then abandoned (`lingering`).  The caches take rows that are repeated, reordered and
  stamped by a clock that may be ahead.

### What follows a decision and is recorded beside it

* **DecisionOutcomes** (`core/entry_decision_store.py`, `main.py`).  The worker's
  cycle: one bounded batch for each lane from a cursor in memory, then the loaded
  captures one by one.  Rows may be tampered with, a resolver may raise a failure
  that is retried or one that calls itself terminal (none in the source does), a
  write may fail, a restart loses both cursors.  An exact capture is asked of `lbank`,
  which is not in the gateway's `PriorityChain`, so `Fetched` answers nothing whatever
  LBank has: the capture stays pending for 72 hours and is then UNAVAILABLE.  The
  branches of `Resolver` for candles that did arrive are kept as the code has them.
* **OutcomeEvaluation**, **SignalOutcomes** (`core/lbank_signal_outcome.py`).  A
  candle is the set of levels its range touches; the minute of the trigger lies
  partly before the signal.  The exchange may answer nothing or a part of the window.
* **PaperTrades** (`main.py`).  Trades live in memory; the closed ones of a pass are
  written in one transaction and forgotten after it.
* **DecisionLog** (`core/lbank_execution_decision.py`,
  `core/lbank_execution_candidate.py`, `main.py`).  Counts for each bucket and symbol
  in memory, a flush in a thread while new evaluations are counted, a failed flush
  that is merged back, the last flush when the loop ends.
* **FeatureReplay** (`core/production_evidence.py`, `core/feature_replay.py`).  The
  worker asks for the next id before it looks for pending packets, replays a batch
  and moves its frontier; recorders insert at any time; an append may be refused,
  another database error ends the worker.
* **ExecutionQueue**, **ExecutionMeasure** (`core/lbank_execution_store.py`,
  `core/lbank_execution_shadow.py`, `core/lbank_execution.py`,
  `core/lbank_execution_stats.py`, `core/lbank_execution_suitability.py`).  The order
  of the queue, batches, recheck times and failed writes; the walk through a book,
  depth, percentiles and the levels of suitability, with quotients rounded down.  A
  percentile is interpolated between two ranks, and `AtRank` is the k-th value in
  order, by what is below it and what is not above it.
* **LifecycleShadow** (`core/lifecycle_v2_shadow.py`,
  `core/lifecycle_v2_shadow_store.py`, `main.py`).  Evidence in three values, the
  rules of each state, the idempotent append, the state read back from the log.
* **PortfolioReplay** (`core/execution_planning.py`, `core/portfolio_replay.py`).
  The plan and the handlers of the replay, with integer money.  `Replay` submits one
  more event at a time to a request whose events are ordered as the code orders them;
  a state is a request that was replayed up to its last event.
* **Backtester** (`core/backtester.py`).  `Written(signal, history, done)` is
  `run_signal_trade` as far as its first `done` transactions, each of which commits on
  its own.  A crash is a failed transaction followed by `Restart`.  Prices are
  distances from the entry, so long and short are one case.  `forgotten` is a history.

### What keeps the program running and changes it

* **Watchdog** (`src/watchdog/`).  Threads of the webhook and the probe wait for the
  lock (`wants`), move the state and send while they hold it.  A restart of the watchdog
  itself, which forgets the state and begins with "up", is not modelled.
* **SchemaMigration**.  One file, two commands that may overlap, fail or be killed.
  A table with its constraints is absent, sound or drifted; the packaged history is
  the one of the code, with the tables each prefix may lack.
* **Deployment** (`src/scripts/deploy_production.sh`, its helpers and
  `healthcheck_simple.py`).  One action for each step with a lasting effect; failure,
  kill and reboot between any two; the health check and a second deployment beside it.
* **MissionContinuity** (`src/scripts/wfh_mission.py`).  Commands run under the
  mission lock; sessions edit the mission state without it and may die anywhere.

## What the runs check

Deadlock is checked in the outbox and dashboard runs: a tick, an idle worker or a
broadcaster turn is always possible.  The other runs say `CHECK_DEADLOCK FALSE`:
bounds (clock, events, lifecycles, trades), or the hunter's end, do stop the system.
Type invariants are checked by the proofs where a module has them; the others are
stated for the reader.

| Run | Instance | Shows |
|---|---|---|
| `outbox` | one alert, evaluated up to a second before its insert; two workers with one `worker_id`, two attempts, one fault, `retry_after` 429s | one live holder; two acceptances only if the first was misreported; refinement of `AlertDelivery`; the alert is settled in the end, through retries, lost leases and aborted claims |
| `pipeline` | *race*: three events, two lifecycles, one fault; *evidence*: all validations, eight kinds of evidence, two policies, a legacy history | no second alert of an entry that is still open; what is actionable was announced and is not blocked; a signal belongs to the current lifecycle; a write that ends without a fault captured its event, unless another came after it; a lapsed decision does not stay the latest |
| `pipeline_unread` | two events, one failed read | *violated*: see findings |
| `dashboard` | *order*: three heartbeats, window and queue of two; *restart*: one restart, one failed aggregation; two connections each | latest-wins queue; replay without a gap; versions outlive a restart; the newest snapshot ends up current |
| `hunter_schedule` | three symbols, two slots, intervals 1 and 3, maintenance every 2 | no candidate outwaits its status's interval while a slot is free and the loop sleeps; a due WATCH symbol is served; a stop ends the loop |
| `evaluation` | nine machines: the four of the streams, two lifecycles of stages, three venues, all combinations of derivatives values, prices and frictions, two settings | one feed for each stream, and evidence for whoever keeps asking; no row counts twice; a chain that passed was shown; verdicts rest on one venue's evidence; more buying never adds points; a plan limits its loss; decisions use settings no older than the cache |
| `evidence_orphan`, `settings_audit`, `deploy_quarantine`, `captures_exact` | the machines of the passing runs | *violated*: see findings |
| `outcomes` | ten machines: see `Outcomes` | captures and signals settle, and as their prices went; evaluations are counted exactly; every packet is replayed; every contract is measured; costs are honest; an episode is one path; a position loses no more than its margin; the backtester's capital holds every result once |
| `operations` | four machines: see `Operations` | the operator is told; no file is stranded, no drift adopted; a certified release can be restored; no step of a mission is repeated |

Some properties join several statements under one name, with a mutant for each part:
`OneFeedPerStream`, `EvidenceCountsOnce`, `CapturesSettled`, `MigrationsAreSafe`,
`MissionIsSafe`, `TradesSettle`, `CapitalIsAccounted`; the parts are named in the
component's module.

### Bounds

* **Outbox.**  Two instances are the overlap of an old and a new process; every
  conflict the table can see is between a holder and one other.  Two attempts
  have a first, a retry and a last.  All time constants are 1: what matters is
  their order (due before now, lease over before or at now), and the clock may
  pass any of them in any phase.  `Horizon` stops the clock unless a row waits for
  time, so waits always end.  `InsertLag` of 1 lets a row be available before it is
  inserted, which is when a claim can be older than its row.  Two rows at once do
  not fit with retries and faults: that their order starves none is not checked.
* **Pipeline.**  Three events contain an entry, what follows it and what follows
  that; two lifecycles contain a relisting while an evaluation is under way.
  `MaxEvents` stops the *start* of evaluations, never an append.  The evidences of
  *race* are the few that lead to each kind of decision; those of *evidence* vary
  the answers one by one, at one instant, with a plan that has already ended among
  them.
* **Dashboard.**  A window and a queue of two are the smallest that drop one event
  and keep one; three heartbeats overflow both.  `Headroom` is the number of
  versions a process may issue before the clock-based epoch of the next process
  could fall behind it: the code starts a process at its start time in seconds
  times a million, so a restart at least a second later leaves a million versions.
* **Hunter.**  Two slots and three symbols: two ARMED symbols that are always due
  would starve a WATCH symbol but for its reservation, and two WATCH symbols
  compete for it.  ARMED is shorter than the maintenance interval and WATCH longer,
  as in the code, so that promotions happen between two starts.  `MaxStay` bounds an
  evaluation's age.  `Late` is where times are no longer told apart.
* **Streams.**  Three candidates for two places: one always waits and every
  generation may be followed by one with another symbol.  Two faults let a close
  hang and a start fail.  Two symbols of a venue share its exchange and its lock.
  Six instants are three times the retention of a row.
* **Stages, venues, settings.**  Two waiting evaluations can swap; TTLs of 1 and 2
  end before, at and after each other within three instants.  Three venues are a
  first, a fallback and a last.  One cache time of 2 is outlived by one decision.
* **Score, plan.**  The values tried are the edges of every band of the code and one
  value inside; `TradePlan` has a fine and a coarse tick.
* **Outcomes.**  Three captures with a batch of one: a good one behind a tampered one
  and beside a local one.  A horizon of three minutes has a first, a middle and a
  last.  Two buckets are kept and a third expires.  A batch of two packets holds a
  refused and a good one.  Two contracts and a batch of one make one wait.  Portfolio
  requests have up to four of seventeen events: open, fund, mark and close with
  another position beside.  Three trades of the backtester contain a failed write, the
  trade that makes it good and a review (every second trade in the instance, every
  tenth in the code).
* **Operations.**  Three failures make DOWN, three calls of the webhook interleave
  with the probe.  Two overlapping commands over every shape of the file.  Two
  releases and one retained backup: the second failure prunes.  Two sessions and two
  steps: one session dies in a step that the other one finds.

### Fairness

* Outbox: each worker's step and the clock.  The loop runs `dispatch_once` for
  ever, and waits are bounded by timeouts.
* Pipeline: the evaluation and the maintenance pass.  The loop resumes a task
  whose await has ended, each await has a timeout, and maintenance is called
  every minute.  Nothing is assumed of refreshes, the clock or the start of an
  evaluation.
* Hunter: the loop's steps (its awaits end: they are thread calls with a database
  timeout and a wait with a timeout), the clock, and the end of each evaluation,
  whose awaits have timeouts and which a shutdown cancels after its grace.  Nothing
  is assumed of stops or of what maintenance reads.
* Dashboard: the broadcaster's two steps, aggregation and publication (a thread
  ends).  Nothing is assumed of connections, changes or restarts.
* Streams: the reconciler, a grown generation, the end of an abandoned transport, the
  renewed request of a candidate that the hunter evaluates again and again, each
  retirement.  The lock of a venue is an `asyncio.Lock`, which is handed over in the
  order of asking: strong fairness for each waiter.
* Outcomes: the cycle of each background worker, the passing of a day for a paper
  trade and of recheck times for the queue.  Nothing is assumed of exchanges; what is
  said of signals is "if the exchange answers from some time on", of captures "once
  the retries are used up".
* Watchdog: the probe (a timer), the end of a message, and strong fairness for a
  thread that waits for the lock: other threads release it again and again, and
  the number of waiting threads is bounded.

## Findings

* `pipeline_unread`.  `get_all_active_candidates` answers an error of the database
  with an empty universe, and the maintenance pass then invalidates the entry of a
  symbol that never left.
* `evidence_orphan`.  A candidate that is removed while an unsupported venue's first
  exchange is being closed gets direct streams that nobody ends.
* `settings_audit`.  A change that is applied after a failed read is merged with the
  defaults and rewrites other settings without a row of history.
* `captures_exact`.  `_resolve_entry_outcome` resolves only captures of `lbank` and
  asks the gateway for that venue, which its chain does not name: no capture is ever
  OBSERVED, and one whose whole window LBank has ends as UNAVAILABLE.
* `deploy_quarantine`.  The timer of the health check restarts the containers that a
  failed deployment stopped because their compatibility could not be proved.

Seen while modelling, without a run (the models do what the code does):

* *Alerts.*  The transport reports DELIVERED for an alert it suppresses
  (`core/notifier.py:757`), which the runbook calls a "terminal successful delivery"
  (`src/docs/operations/notification-delivery-runbook.md:19`).
* *Decisions.*  A LATE terminal is recomputed from later evidence
  (`core/entry_decision.py:846`; `src/docs/DECISION_ENGINE.md:27` says it stays).  With
  the freshness gate off, an ENTRY_READY may be hard-blocked (`:698`; the comment at
  `:692` says never).  A renewed plan with an equal projection is not recorded
  (`core/entry_decision_store.py:204`).
* *Dashboard.*  A reconnect whose id of an older process equals the current sequence
  gets an empty replay (`core/dashboard_stream.py:386`; `main.py:378` says older
  reconnects fail closed).
* *Evaluation.*  The WATCH prefilter looks at hype now, so a remembered chain with a
  fresh trigger waits for a full validation slot (`main.py:3086`).  Tick rounding can
  put a stop half a tick inside the 1.2 ATR floor (`core/position_calculator.py:8`).
  Several settings (`leverage_minimum`, `leverage_maximum`, `atr_stop_multiple`,
  `max_reference_divergence_pct`, `telegram_delivery_enabled`) are read by nothing.
  The comments on the weights of the watch score name 85 and 100 as its maximum
  (`core/score_v2.py:171`, `:174`); it is 100.
* *Streams.*  An exchange whose close timed out is abandoned, not closed
  (`core/ws_streamer.py:986`).  Pruning drops liquidations stamped slightly ahead.
* *Settlement.*  A steady stream of a full batch of new captures keeps the provider's
  cursor from wrapping; a transient empty page settles a signal as DATA_INCOMPLETE for
  good; a restart loses open paper trades, and one may be opened again after it was
  settled (`main.py:3733`).
* *Recording.*  After a failed flush the older row's status replaces a newer one
  (`core/lbank_execution_decision.py:345`).  An sqlite error other than an integrity
  error ends the replay worker until a restart (`core/feature_replay.py:665`).  The
  90th percentile of costs leaves out books too thin to fill the amount; a contract
  whose observation cannot be written stays at the head of the queue.  In the second
  lifecycle an EXPERIMENTAL evaluation may still take ARMED to TRIGGERED, and several
  of its ends are set by nothing.  A missing liquidation tier or an exhausted margin
  fails the whole replay of a portfolio.
* *Backtester.*  The second target closes a quarter of what is left, so the third
  closes three eighths of the position where the constants say the remaining quarter
  (`core/backtester.py:57`).  A trade stopped at its entry after the first target
  gains, and is counted and learned from as a loss.  An empty history raises and is
  answered with no result.  The report counts wins by money, the memory by outcome.
* *Watchdog, migrations.*  An alert whose message failed is never repeated.  An empty
  history, left by a crash between bootstrap and first migration, is refused for ever
  (`core/migration_preflight.py:338`); overlapping commands can fail spuriously because
  the rows and `user_version` are read in two statements.
* *Deployment.*  The previous backend runs on the newer schema between the migration
  and the removal of its container; what it writes after the backup is lost by a
  rollback; a crash after containers were removed makes the next deployment fail at
  pinning the previous images; the next deployment takes a quarantined release for
  the certified one; a kill while the certificate is written truncates it.
* *Mission.*  A stale session can checkpoint "next is step 1" after step 1 was done;
  only the check for a repeated step id stops the repetition.  A crash between a
  checkpoint and its pointer blocks the resume until a new checkpoint.

## What is proved

All theorems hold for every value of the constants that satisfies the named
assumptions; none of the bounds of the runs is used, except that `Headroom` is the
assumption under which versions survive a restart.  Every inductive invariant was an
invariant of a run before it was proved.  The assumptions are about types and
emptiness (`Retention` and `Steps` are positive, a queue holds at least two events),
about names (`Nobody` is no session; the venues of a chain are distinct, as the
code's tuple of fallbacks is), and that sets which are counted are finite.

* **Outbox** (`NotificationOutboxProofs`).  `Invariance`: `IInv`.  `OneHolder` alone
  is not inductive: a worker that wakes up late must find that the row has left its
  attempt.  So the invariant relates the memory of a holder to the row
  (`HolderMatchesRow`), says that nothing happened beyond the last attempt
  (`NothingBeyondLastAttempt`), that every earlier attempt was reported as a
  retryable failure (`EarlierAttemptsFailed`) and that a 429 was a rejection.  From
  it follow `ResendSafety`, `DuplicateSafety` and, for steps, `TerminalSafety` and
  `OutboxImplementsAlert`: each step of the outbox is a step of `AlertDelivery` or
  a stutter.
* **Engine** (`DecisionPipelineProofs`, first part).  `BuildEntryDecisionFacts`: what the engine
  returns, whatever its inputs: a well-formed packet of the given lifecycle, fail
  closed, that follows the previous decision by the rules.
* **Pipeline** (`DecisionPipelineProofs`).  The promises of the tables are not
  inductive either: between reading the previous decision and appending the next
  one, threads write.  `TaskPacketInv` says that a packet that waits for its append
  still follows the latest event, since maintenance only appends EXPIRED and
  INVALIDATED (`MaintenancePacketInv`).  `NoSecondAlertWhileOpen` needs
  `OpenEntryInv`: an alert with no terminal decision since belongs to the lifecycle
  of the latest event, which is then still actionable, or to an older one; so a
  second alert of the lifecycle would have to follow an actionable decision, which
  the engine excludes.  `WriteInv` follows a write through its transactions: the
  event it targets exists, and before the repair read it is a repetition of the
  packet.  `FenceInv` says that the token fence keeps
  an evaluation in the current lifecycle, which also shows that the check inside
  the append never fires in a single process.  One lemma for each action;
  `TransactPreserves` serves every transaction of both writers.  Theorems:
  `TypeCorrect`, `OneAlertWhileOpen`, `Announced`, `ExplicitTransitions`, `Unblocked`, `Signals`,
  `SignalTransitions`, `CaptureRepairs`.
* **Dashboard** (`DashboardStreamProofs`).  The window holds consecutive ids and
  only its first event can be the newest snapshot (`WindowInv`); an event that a
  thread has issued and the loop has not broadcast yet is accounted for
  (`IssuedInv`, `PhaseInv`); if it was overtaken, the newest one is the last in
  every queue (`OvertakenInv`).  The proof needs a queue of at least two.
  Theorems: `TypeCorrect`, `Latest`, `NoGap`, `Ordered`, `Versions`.
* **Hunter** (`HunterScheduleProofs`).  That the loop is never asleep past a due time
  is a fact about four dictionaries and the sleep: a symbol never started is due; in
  a synced schedule no due time is later than the present status asks
  (`SyncedInv`); a due time is always one status's interval after the last start,
  which promotions preserve (`StartInv`); the sleep outlasts neither maintenance nor
  a due time that a free slot could serve (`WakeInv`).  `SelectionFacts` shows that
  the reserved WATCH symbol replaces another one, so the slots suffice.  Theorems:
  `TypeCorrect`, `NeverMoreThanSlots`, `NeverAsleepPastDue`, `NeverStartedTooSoon`.

* **Signal outcomes** (`OutcomesProofs`).  `EvaluationCountsWhatHappened` is a fact
  about the evaluator for a packet of any length: of the minutes that decide, the
  first is well defined, and what lies before it touches neither level.
  `CountsWhatHappenedHolds` lifts it over partial answers, which only cut the packet
  short, and over the order in which batches are settled (`SignalsInvariance`).
* **Paper trades** (`OutcomesProofs`).  A set of rows would hide a row entered twice;
  that none is rests on a trade in the table never being open, since only what is
  open is closed.  `PaperInv` says that what is open or in the table has a number
  that was given, and that no row has the number of an open
  trade.  `OpensFacts` shows it of the trades a pass has just opened, `PassKeeps` of
  the pass that closes them; a failed write keeps them open and their rows out.
  Theorem: `PaperTradesCountOnce`, the safety half of `TradesSettle`.
* **Captures** (`OutcomesProofs`).  `NoneGivenUpEarly` speaks of single steps, but a
  capture is resolved in another step than the scan that verified its hash, with
  restarts and failed scans between.  `CapturesInv` carries the verification over:
  a batch never holds a capture whose hash does not match.  `NoStepGivesUpEarly` takes
  the resolver's answer and its terminal failure alike.  Theorem:
  `NoCaptureGivenUpEarly`, the safety half of `CapturesSettled`.
* **Decision log** (`OutcomesProofs`).  The exact counts are inductive once a flush
  that is not under way is known to hold no row (`NothingHeldWhenIdle`); adding two
  sets of rows key by key adds their counts (`CountsAddUp`), which serves the commit
  and the failure.  Theorems: `LogInvariance`, `CountsHold`.
* **Lifecycle shadow** (`OutcomesProofs`).  The property speaks of the whole log of an
  episode, a step sees its newest event only.  `PathSoFar` therefore says of each
  event that it starts where the newest before it ended, that a terminal state is
  never left, and that an event into ARMED or TRIGGERED has an arming behind it in
  the same episode.  `MoveTo` and `MoveReasons` say what the rules of the code can
  answer, for any evidence.  Theorems: `ShadowInvariance`, `EpisodesArePaths`.
* **Stage lifecycle** (`EvaluationProofs`).  A row keeps only the last time each stage
  was shown, while the property is about every time in between.  So the invariant
  (`RowsTellTheHistory`) says what a row tells of the history up to the time it was
  updated: the hype it remembers was shown and is not past its time, a damage stands
  on a hype that was alive ever since it, a setup on a damage that was.
  `RememberedTells` carries this to the time of the next evaluation, which is where
  dropping the later stages with an earlier one is needed, and `AdvancedTells` over
  the stages it adds.  Theorems: `StagesInvariance`, `StagesTypeCorrect`,
  `ChainsWereShown`.
* **Settings** (`EvaluationProofs`).  A decision uses the cache, the cache holds what
  a read answered, and a read may have begun long before.  `Grounded` says of each
  copy that still counts, cached or on its way, that it was in force when its read
  began or is the default of a read that failed; it grows old with the clock and is
  renewed only by a read.  Theorems: `SettingsInvariance`, `SettingsAreRecent`.
* **Venues** (`EvaluationProofs`).  That a verdict rests on one venue is a fact about
  how the evaluation got there: the venues rejected lie before the one it stands at
  (`Passed`), what is still to be asked belongs to the selected venue, and the
  aggregator comes after the venue itself (`DirectFirst`, over the queue of sources).
  Theorems: `VenuesInvariance`, `VerdictsAreWarranted`.
* **Streams** (`EvidenceProofs`).  `OneFeedPerStream` needs three machines.  A
  generation is started only when nothing of the one before is left, abandoned
  transports included (`OneGeneration`); a change of the wanted symbols is marked
  until a generation carries it (`NothingForgotten`); a symbol that is being retired
  has no task that watches (`RetiredFirst`); an exchange in a pool belongs to a task
  that watches it and was opened after every close (`OwnersWatch`).  Theorems:
  `StreamsInvariance`, `FeedsAreSingle`.
* **Caches** (`EvidenceProofs`).  That nothing counts twice is a fact about the whole
  history of rows: the snapshots a cache keeps are in order of time and end with the
  newest (`SnapshotsInOrder`), a liquidation's row is stored once (`RowsOnce`).
  `RoundGrows` and `RoundExact` say that rounding to an interval keeps the order and
  the distance that the age filter needs; `WithinFacts` says what filtering a sequence
  by age returns, for any length, by a least counterexample among the naturals.
  Theorems: `CachesInvariance`, `NothingCountsTwice`.
* **Points** (`EvaluationProofs`).  More buying never adds points, although the
  components interact: the pressure is piecewise linear with a dead zone, the crowd
  fades a bonus the taker flow also drives, and a component without data leaves the
  weights to the others.  One lemma for each piece, then one for the weighted sum;
  `GivenInv` keeps the inputs in their bands.  Theorems: `GivenInvariance`,
  `BuyingNeverHelps`.
* **Plan** (`EvaluationProofs`).  The stop is the nearest admissible of several
  candidates and is then moved off round numbers.  Moving off a round number never
  moves it towards the entry, decade by decade, and by no more than one step; the
  bounds of the position's size are then used one by one.  Theorem: `LossesAreLimited`.
* **Portfolio** (`OutcomesProofs`).  Every open position satisfies that its quantity
  times the distance from entry to liquidation price is no more than its margin
  (`PositionsInv`): a partial fill keeps its share of the margin (`ShareIsCovered`),
  the liquidation price is rounded towards the entry (`LiquidationIsCovered`), and a
  tier's maintenance can only bring it nearer (`TierIsCovered`).  `PolicyAssumption`
  and `Shaped` are what the code's validation of policy and orders enforces; a filled
  order is never rounded to nothing (`Filled`).  Theorems: `PositionsInvariance`,
  `LossesAreIsolated`.
* **Backtester** (`OutcomesProofs`).  After a failed write the memory and the tables
  differ.  `BooksInv` says by exactly what: the capital and the count in memory are
  those of every trade no restart forgot, those of the newest point of the curve are of
  the trades it covers, and what it does not cover is a write that failed
  (`MissedByFaults`), so a restart may leave it out.  The result of a trade is bounded
  by induction over the candles (`WalkFacts`: whatever is still open loses at most its
  share down to the stop, and nothing once a target was hit), then by the division that
  turns it into money (`RowIsBounded`).  Sums, peaks and the walk are recursive
  functions over a sequence; `StepsLead` carries a step of such a function to its end,
  once for all three, and `EarnedGoesOn` and `CurveGoesOn` say what one row more
  changes.  `BacktesterAssumption` says that a candle closes between its extremes and
  that targets lie on the other side of the entry than the stop.  Money is in whole
  units, so a gain must show only where the amount risked is `Fine` enough.  Theorems:
  `BooksInvariance`, `ResultsAreCounted`.
* **Measurements** (`OutcomesProofs`).  The walk through a book is compared with every
  other way of taking the same money from its levels.  `WalkBeats` is the exchange
  argument, by induction over the levels: what the walk has taken beyond the other
  way so far costs no more than the rate of any later level (`Exchanged`).  It needs
  that a side lists its best price first, which `MeasureAssumption` states as a fact
  about the exchange's library; `WalkIsAWay` is the converse, that a complete walk is
  itself a way.  For the grade, `RankExists` shows that there is a value of every rank,
  `PercentileFacts` that a percentile lies between two of them, `FewBeyond` and
  `HalfUnder` what a ninetieth percentile and a median say about the number of
  outliers.  Theorems: `MeasureInvariance`, `CostsAreHonest`.
* **Mission** (`OperationsProofs`).  A session that finds a step open reconciles it,
  and one that does not starts the next: nothing is repeated only because steps are
  journalled in order, at most one is open and no record runs ahead of the journal
  (`StepsInOrder`), because the session that has a step in hand is the only one and
  has not done it before it has (`InOneHand`, which rests on the lock: `LockHeld`),
  and because a checkpoint is of one instant (`FilesAgree`).  `MirrorInv` is the same
  for what is published.  Theorems: `MissionInvariance`, `MissionIsContinued`, which
  covers the action property as well (`ReadyStep`).
* **Migrations** (`OperationsProofs`).  `PrefixesAreAccepted` shows that the preflight
  accepts the objects of each of the eleven prefixes of the history: a crash
  between two migrations strands no file.  The steps keep the file at such a prefix
  (`ShapesFollow`, `VersionFollows`) although a second command may have moved it
  since this one read the rows (`CommandsFollow`): the transaction reads them again.
  Theorems: `MigrationInvariance`, `MigrationsAreNeverStranded`.
* **Deployment** (`OperationsProofs`).  The certified backup survives every pruning,
  because a deployment that may have to go back has its own backup, which is the
  newest (`BackupsFollow`, `PruneKeeps`); a rollback ends in the release that was
  pinned, because the host's snapshot or the override names it at every step
  (`SoundFollows`, `RollbackFollows`), provided the deployment began in agreement.
  Theorems: `DeploymentInvariance`, `DeploymentsAreRecoverable`.

Only model-checked:

* The liveness properties (`EventuallySettled`, `RaceEventuallyRetired`,
  `RestartEventuallyCurrent`, `WatchServed`, `StopEnds`, `EventuallyServed`,
  `SettledUnlessCrowdedOut`, `EveryPacketReplayed`, `EveryoneMeasured`,
  `EventuallyTold`, and `CapturesSettled` and `TradesSettle`, which contain them):
  fairness and ENABLED are out of the prover's reach.  The safety halves of the last
  two are theorems of their own (`NoCaptureGivenUpEarly`, `PaperTradesCountOnce`);
  that what is pending eventually ends stays with TLC.

## What is not modelled

* Scientific reports, calibration and the replay of history (`core/backtester_v2.py`,
  `core/scientific_validation.py`, `src/scripts/historical_backtest.py` and others):
  offline computations over stored rows, with floating-point statistics.
* Verification of release artefacts (`core/deployment_certification.py` and the GitHub
  and backup verifiers): pure checks over files and API answers.
* The provider registry: no code that runs builds it.
* AI advisory texts and observational fundamentals: late results merged into metrics
  that decide nothing; what an alert waits for is in `NotificationOutbox`.
* Candle analysis, microstructure and market regime: floating-point indicators.  Their
  answers are inputs of `SymbolEvaluation` and `EntryDecision`, chosen in every
  combination.
* Contracts, canonical JSON, projections, formatting, the user interface.

`PROJECT.json` lists every part with its files, and for the parts that are modelled
partly what is left out.

## Plan

Modelled, checked and, but for liveness, proved: the path
from a due symbol to an alert and to the screen, what an evaluation rests on, what
follows a decision, and the operations.  What is left, in this order:

1. `AdvisoryMerge` (`main.py`): late results touch only their own decision.
2. Compositions: pipeline with outbox (from `ENTRY_READY` to a settled alert), and
   settings with pipeline (the policy in force).
