CONSTANTS
  Captures = {1, 2, 3}
  Provider = {1, 2}
  Tampered = {1}
  ProviderBatch = 1
  LocalBatch = 1
  MaxFaults = 1
SPECIFICATION Spec
PROPERTY ExactWindowIsObserved
CHECK_DEADLOCK FALSE
