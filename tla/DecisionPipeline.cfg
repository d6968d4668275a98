SPECIFICATION MCSpec
CONSTANTS
    DefaultPolicy <- MCDefault
    Policies <- OnlyDefault
    Evidences <- FewEvidences
    Validations <- TriggerValidations
    Histories <- NoHistory
    MaxEvents = 3
    MaxSignals = 1
    MaxLifecycle = 2
    Horizon = 1
    MaxFaults = 1
CHECK_DEADLOCK FALSE
INVARIANTS NoSecondAlertWhileOpen ActionableWasAnnounced SignalOfCurrentLifecycle ActionableIsUnblocked
PROPERTIES CaptureRepaired RaceEventuallyRetired
