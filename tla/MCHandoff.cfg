\* Successive generations hand their topologies to the Deployment through
\* unordered goroutines.
CONSTANTS
    Ids <- MCIds
    Topologies <- ChurnTopologies
    EventReports <- TwoReports
    MaxClock = 1
    TypeNames <- MCTypeNames
    CRDFiles <- MCCRDFiles
    MaxGen = 3
SPECIFICATION HandoffSpec
INVARIANT GraphTracksLatestGeneration
