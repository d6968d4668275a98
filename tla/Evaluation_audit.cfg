CONSTANTS
  Candidates = {"A", "B", "C"}
  Limit = 2
  Symbols = {"A", "B"}
  MaxFaults = 2
  MaxNow = 6
  CacheRows = {1}
  BookTtl = 4
  HistoryLimit = 5
  Count = 3
  Span = 2
  Window = 1
  Retention = 2
  TradeLimit = 1
  QuietPacket <- SomePacket
  QuietInput <- SomeInput
  Chain <- MCChain
  Futures = "binance"
  RequiredNoHype = 2
  CoinGlass = TRUE
  Fundings = {0, 25, 50}
  Percentiles = {50, 72, 95}
  Interests <- MCInterests
  Takers = {70, 80, 81, 90, 91, 100, 110, 111, 130, 150, 151}
  Crowds = {120, 135, 150, 151, 175, 201}
  Momenta <- MCMomenta
  Entries = {9990, 12345, 25000}
  Highs = {0, 12600, 25500}
  Atrs = {0, 50, 400}
  Frictions = {5, 12, 31}
  Ticks = {1, 250}
  Readinesses = {69, 70, 95}
  ExchangeMaxima = {0, 5}
  Level = 1
  CacheTime = 2
  MaxWaiting = 2
  HypeTtl = 1
  DamageTtl = 2
  SetupTtl = 1
  Snapshots <- SomeStages
  MaxTime = 3
  MaxLifecycle = 2
  MaxShown = 4
SPECIFICATION EvaluationSpec
INVARIANT EveryChangeAudited
CHECK_DEADLOCK FALSE
