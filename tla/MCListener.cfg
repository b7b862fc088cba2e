\* The watcher answers; events, stream closure and cancellation in any order.
CONSTANTS
    SubscriptionOutcomes <- AllOutcomes
    StreamMayClose = TRUE
    MaxEvents = 6
    MaxFailureWrites = 3
CHECK_DEADLOCK FALSE
SPECIFICATION AnsweredSpec
INVARIANT TypeOK
PROPERTY FailureIsTerminal ListenerStopsOnCancel
