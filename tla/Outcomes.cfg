CONSTANTS
  Horizon = 2
  Signals <- TwoSignals
  Sourceless = {}
  Levelless = {}
  Paths <- PathsOfTwo
  BatchSize = 1
  MaxFaults = 1
  QuietPath <- MCQuietPath
  QuietBook <- MCQuietBook
  Captures = {1, 2, 3}
  Provider = {1, 2}
  Tampered = {1}
  ProviderBatch = 1
  LocalBatch = 1
  Traded = {"A", "B"}
  MaxTrades = 1
  Symbols = {"A"}
  Statuses = {"POOR"}
  MaxBucket = 2
  Retention = 1
  MaxEvaluations = 2
  Recorded <- MCRecorded
  MaxReplayed = 1
  MaxSnapshots = 3
  ReplayBatch = 2
  Contracts = {1, 2}
  Memes = {2}
  Volume <- MCVolume
  QueueBatch = 1
  SuccessRecheck = 2
  FailureRecheck = 1
  MaxWriteFaults = 1
  Books <- MCBooks
  Notional = 15
  Band = 1500
  Scale = 180
  MinSamples = 2
  MinSpan = 1
  MaxSamples = 3
  Suitable <- MCSuitable
  Marginal <- MCMarginal
  Evidences <- MCEvidences
  FirstStates = {"WATCH"}
  MaxEpisode = 2
  MaxEvents = 4
  Requests <- MCRequests
  MaxRequests = 4
  InitialEquity = 1000
  Policy <- MCPolicy
  Costs <- MCCosts
  Market <- MCMarket
  Backtested <- Candidates
  Histories <- MCHistories
  InitialCapital = 20000
  RiskPerTrade = 2
  ReviewEvery = 2
  Repeated = 1
  Proven = 2
  MaxBooked = 3
SPECIFICATION OutcomesSpec
INVARIANTS
  CountsWhatHappened
  CountsAreExact
  CostIsHonest
  EpisodeIsAPath
  LossIsIsolated
  CapitalIsAccounted
PROPERTIES
  CapturesSettled
  SettledUnlessCrowdedOut
  TradesSettle
  EveryPacketReplayed
  EveryoneMeasured
CHECK_DEADLOCK FALSE
