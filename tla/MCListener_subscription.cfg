\* The watcher may never answer the subscription.
CONSTANTS
    SubscriptionOutcomes <- AllOutcomes
    StreamMayClose = TRUE
    MaxEvents = 6
    MaxFailureWrites = 3
CHECK_DEADLOCK FALSE
SPECIFICATION Spec
PROPERTY ListenerStopsOnCancel
