SPECIFICATION FairSpec
CONSTANTS
  Symbols = {"a", "b", "c"}
  Seen = {"ARMED", "WATCH"}
  ActiveInterval = 1
  PreTriggerInterval = 2
  FuelRichInterval = 2
  WatchInterval = 3
  Slots = 2
  MaintenanceInterval = 2
  MaxStay = 1
  Late = 5
CHECK_DEADLOCK FALSE
INVARIANTS
  EvaluatedInTime
PROPERTIES
  WatchServed
  StopEnds
