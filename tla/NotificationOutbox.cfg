SPECIFICATION FairSpec
CONSTANTS
  Events = {1}
  Workers = {"w1", "w2"}
  WorkerId <- EntryWorkerId
  LeaseSeconds = 1
  MaxAttempts = 2
  BaseBackoff = 1
  MaxBackoff = 1
  AdvisoryWait = 1
  MaxEntryAge = 2
  CutoverAt = 0
  RetryAfters = {0, 3}
  InsertLag = 1
  Horizon = 2
  MaxFaults = 1
INVARIANTS
  SoleHolder
  DuplicateOnlyAfterMisreportedAcceptance
PROPERTIES
  ImplementsAlertDelivery
  EventuallySettled
