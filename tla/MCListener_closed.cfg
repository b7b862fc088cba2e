\* The watcher answers and may close the event stream.
CONSTANTS
    SubscriptionOutcomes <- AllOutcomes
    StreamMayClose = TRUE
    MaxEvents = 6
    MaxFailureWrites = 3
CHECK_DEADLOCK FALSE
SPECIFICATION AnsweredSpec
PROPERTY ListenerStopsOnClose
