\* Reports delivered in any order and twice, under topology churn; the
\* graph implements StatusPromise.
CONSTANTS
    Ids <- MCIds
    Topologies <- ChurnTopologies
    EventReports <- OrderReports
    MaxClock = 2
    TypeNames <- MCTypeNames
    CRDFiles <- MCCRDFiles
SPECIFICATION Spec
INVARIANT TypeOK
INVARIANT NewestReportWins
INVARIANT NodeSetMatchesSpec
INVARIANT EdgesJoinTrackedNodes
PROPERTY StatusPromiseHolds
