\* The same topology reported twice after an NF changed type.
CONSTANTS
    Ids <- MCIds
    Topologies <- ChurnTopologies
    EventReports <- TwoReports
    MaxClock = 1
    TypeNames <- MCTypeNames
    CRDFiles <- MCCRDFiles
SPECIFICATION Spec
PROPERTY ReissueIsIdempotent
