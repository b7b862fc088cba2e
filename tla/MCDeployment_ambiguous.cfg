\* An ambiguous report newer than an unambiguous one, delivered first.
CONSTANTS
    Ids <- MCIds
    Topologies <- FixedTopology
    EventReports <- AmbiguityReports
    MaxClock = 3
    TypeNames <- MCTypeNames
    CRDFiles <- MCCRDFiles
SPECIFICATION Spec
INVARIANT NewestReportWins
