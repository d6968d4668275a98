CONSTANTS
  Candidates = {"A", "B", "C"}
  Limit = 2
  Symbols = {"A", "B"}
  MaxFaults = 2
  MaxNow = 6
  CacheRows = {1}
  BookTtl = 4
  HistoryLimit = 5
  Count = 3
  Span = 2
  Window = 1
  Retention = 2
  TradeLimit = 1
SPECIFICATION EvidenceSpec
INVARIANTS NoOrphanStream
CHECK_DEADLOCK FALSE
