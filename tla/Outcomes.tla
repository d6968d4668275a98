------------------------------ MODULE Outcomes ------------------------------
(***************************************************************************)
(* What is settled, recorded and replayed beside the decisions, as one     *)
(* specification: every behaviour is one of the ten machines below.  They  *)
(* share nothing, so the other nine stay where they start, and the states  *)
(* of the ten add up instead of multiplying.                               *)
(***************************************************************************)
EXTENDS SignalOutcomes

CONSTANTS
    QuietPath, QuietBook,       \* where a machine that does not run starts
    Captures, Provider, Tampered, ProviderBatch, LocalBatch,
    Traded, MaxTrades,
    Symbols, Statuses, MaxBucket, Retention, MaxEvaluations,
    Recorded, MaxReplayed, MaxSnapshots, ReplayBatch,
    Contracts, Memes, Volume, QueueBatch, SuccessRecheck, FailureRecheck,
    MaxWriteFaults,
    Books, Notional, Band, Scale, MinSamples, MinSpan, MaxSamples, Suitable,
    Marginal,
    Evidences, FirstStates, MaxEpisode, MaxEvents,
    Requests, MaxRequests, InitialEquity, Policy, Costs, Market,
    Backtested, Histories, InitialCapital, RiskPerTrade, ReviewEvery, Repeated,
    Proven, MaxBooked

VARIABLES machine,
    age, candles, resolution, terminal, cursor, queue, step, captureFaults,
    price, open, overdue, opened, table, paperFaults,
    logClock, packet, evaluating, pending, flight, logTable, catalogue, wanted,
    loop, observed, lost, logFaults,
    replayClock, snapshots, finals, results, worker, frontier, counted,
    replayBatch, recordFaults,
    listing, observedOrder, status, wait, measuring, shadow, writeFaults,
    book, samples, suitability,
    episode, log, shadowFaults,
    submitted, cash, peak, drawdown, positions, closed, skipped, failed,
    memory, trades, equity, mistakes, calibration, forgotten, bookFaults

D == INSTANCE DecisionOutcomes WITH faults <- captureFaults
P == INSTANCE PaperTrades WITH Symbols <- Traded, faults <- paperFaults
L == INSTANCE DecisionLog WITH
        clock <- logClock, table <- logTable, faults <- logFaults
R == INSTANCE FeatureReplay WITH
        Packets <- Recorded, MaxBucket <- MaxReplayed, Batch <- ReplayBatch,
        clock <- replayClock, batch <- replayBatch
Q == INSTANCE ExecutionQueue WITH BatchSize <- QueueBatch
M == INSTANCE ExecutionMeasure
H == INSTANCE LifecycleShadow
F == INSTANCE PortfolioReplay WITH Events <- Requests, MaxEvents <- MaxRequests
B == INSTANCE Backtester WITH
        Signals <- Backtested, MaxTrades <- MaxBooked, faults <- bookFaults

ASSUME OutcomesAssumption ==
    /\ D!CapturesAssumption /\ D!BatchAssumption
    /\ HorizonAssumption /\ SignalsAssumption /\ PathsAssumption
    /\ P!TradesAssumption
    /\ L!LogAssumption /\ R!ReplayAssumption /\ H!ShadowAssumption
    /\ Q!QueueAssumption /\ M!MeasureAssumption /\ F!PortfolioAssumption
    /\ B!BacktesterAssumption

Machines == {"captures", "signals", "paper", "log", "replay", "queue",
             "measure", "shadow", "portfolio", "backtest"}
captures == <<age, candles, resolution, terminal, cursor, queue, step, captureFaults>>
paper == <<price, open, overdue, opened, table, paperFaults>>
logs == <<logClock, packet, evaluating, pending, flight, logTable, catalogue,
          wanted, loop, observed, lost, logFaults>>
replays == <<replayClock, snapshots, finals, results, worker, frontier,
             counted, replayBatch, recordFaults>>
queues == <<listing, observedOrder, status, wait, measuring, shadow, writeFaults>>
measures == <<book, samples, suitability>>
shadows == <<episode, log, shadowFaults>>
portfolio == <<submitted, cash, peak, drawdown, positions, closed, skipped, failed>>
backtests == <<memory, trades, equity, mistakes, calibration, forgotten, bookFaults>>
everything == <<machine, captures, vars, paper, logs, replays, queues, measures,
          shadows, portfolio, backtests>>

Still(m) ==
    CASE m = "captures" -> UNCHANGED captures [] m = "signals" -> UNCHANGED vars
      [] m = "paper" -> UNCHANGED paper [] m = "log" -> UNCHANGED logs
      [] m = "replay" -> UNCHANGED replays [] m = "queue" -> UNCHANGED queues
      [] m = "measure" -> UNCHANGED measures [] m = "shadow" -> UNCHANGED shadows
      [] m = "portfolio" -> UNCHANGED portfolio
      [] m = "backtest" -> UNCHANGED backtests
Only(m) ==
    machine = m /\ UNCHANGED machine /\ \A other \in Machines \ {m} : Still(other)

\* A machine that does not run starts in one state.
OutcomesInit ==
    /\ machine \in Machines
    /\ machine = "signals" \/ path = QuietPath
    /\ machine = "measure" \/ book = QuietBook
    /\ machine = "portfolio" \/ submitted = {}
    /\ D!Init /\ Init /\ P!Init /\ L!Init /\ R!Init /\ Q!Init /\ M!Init /\ H!Init
    /\ F!Init /\ B!Init
OutcomesNext ==
    \/ Only("captures") /\ D!Next
    \/ Only("signals") /\ Next
    \/ Only("paper") /\ P!Next
    \/ Only("log") /\ L!Next
    \/ Only("replay") /\ R!Next
    \/ Only("queue") /\ Q!Next
    \/ Only("measure") /\ M!Next
    \/ Only("shadow") /\ H!Next
    \/ Only("portfolio") /\ F!Next
    \/ Only("backtest") /\ B!Next

OutcomesFairness ==
    /\ WF_everything(Only("captures") /\ D!Worker)
    /\ WF_everything(Only("signals") /\ Cycle)
    /\ \A s \in Traded : WF_everything(Only("paper") /\ P!Elapse(s))
    /\ WF_everything(Only("paper") /\ (\E s \in Traded : P!Evaluation(s, FALSE)))
    /\ WF_everything(Only("replay") /\ R!Worker)
    /\ WF_everything(Only("queue") /\ Q!StartBatch)
    /\ WF_everything(Only("queue") /\ Q!Finish)
    /\ WF_everything(Only("queue") /\ Q!Tick)
OutcomesSpec ==
    OutcomesInit /\ [][OutcomesNext]_everything /\ OutcomesFairness

\* Every capture that can be settled is, and none is given up early
\* (DecisionOutcomes).
CapturesSettled == D!CapturesSettled
\* A paper trade ends and is counted at most once (PaperTrades).
TradesSettle == P!TradesSettle
\* An evaluation is counted once, through failed flushes too (DecisionLog).
CountsAreExact == L!CountsAreExact
\* Every recorded packet is replayed (FeatureReplay).
EveryPacketReplayed == R!EveryPacketReplayed
\* No contract is starved of measurements (ExecutionQueue).
EveryoneMeasured == machine = "queue" => Q!EveryoneMeasured
\* Walking a book takes the best of it, and a contract is called suitable on
\* its typical cost (ExecutionMeasure).
CostIsHonest == machine = "measure" => M!CostIsHonest
\* The log of an episode is one path of the lifecycle (LifecycleShadow).
EpisodeIsAPath == H!EpisodeIsAPath
\* A position never costs more than its own margin (PortfolioReplay).
LossIsIsolated == F!LossIsIsolated
\* The backtester's capital holds every result once (Backtester).
CapitalIsAccounted == machine = "backtest" => B!CapitalIsAccounted
=============================================================================
