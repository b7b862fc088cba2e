\* A cluster dropped from the spec, then the NfDeploy deleted.
CONSTANTS
    Clusters <- MCClusters
    Specs <- MCSpecs
    Repo <- MCRepo
    MaxGen = 3
    MaxRestarts = 1
SPECIFICATION Spec
INVARIANT NoOrphanPackages
CHECK_DEADLOCK FALSE
