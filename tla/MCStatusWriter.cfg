\* Both writers: the listener's counts survive the reconciler's writes.
CONSTANTS
    Reasons <- MCReasons
    ListenerInputs <- MCListenerInputs
    RetrySteps = 5
    MaxListenerWrites = 2
    MaxReconciles = 2
    MaxGeneration = 2
    ControllerWrites = TRUE
    ListenerWrites = TRUE
SPECIFICATION Spec
CHECK_DEADLOCK FALSE
INVARIANT TypeOK NoLostUpdate
