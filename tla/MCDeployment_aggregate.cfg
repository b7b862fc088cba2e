\* Every branch of the per-NF state machine feeding the aggregate.
CONSTANTS
    Ids <- MCIds
    Topologies <- StableTypeTopologies
    EventReports <- BranchReports
    MaxClock = 2
    TypeNames <- MCTypeNames
    CRDFiles <- MCCRDFiles
SPECIFICATION Spec
INVARIANT AggregateAgreesWithGraph
INVARIANT StoredCountsCoherent
INVARIANT IntentMatchesDeclaredType
PROPERTY IntentKeptOnFailedLookup
