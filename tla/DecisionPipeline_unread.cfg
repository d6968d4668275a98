SPECIFICATION RaceSpec
CONSTANTS
    DefaultPolicy <- MCDefault
    Policies <- OnlyDefault
    Evidences <- LiveEvidences
    Validations <- TriggerValidations
    Histories <- NoHistory
    MaxEvents = 2
    MaxSignals = 1
    MaxLifecycle = 1
    Horizon = 0
    MaxFaults = 1
CHECK_DEADLOCK FALSE
INVARIANT ActiveSymbolNotInvalidated
