CONSTANTS
  Threshold = 3
  MaxCalls = 3
  Runners = {1, 2}
  MaxReleases = 2
  Retention = 1
  Sessions = {"first", "second"}
  Steps = 2
  MaxFiles = 3
  MaxDrift = 1
SPECIFICATION Spec
INVARIANT QuarantineHolds
CHECK_DEADLOCK FALSE
