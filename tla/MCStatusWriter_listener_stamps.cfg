\* Only the listener writes: the timestamp rules of its status writes.
CONSTANTS
    Reasons <- MCReasons
    ListenerInputs <- MCListenerInputs
    RetrySteps = 5
    MaxListenerWrites = 2
    MaxReconciles = 2
    MaxGeneration = 2
    ControllerWrites = FALSE
    ListenerWrites = TRUE
SPECIFICATION Spec
CHECK_DEADLOCK FALSE
PROPERTY ConditionTimestampsFollowChanges
