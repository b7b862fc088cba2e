\* One NfDeploy edited, hydrated with partial failures, and deleted.
CONSTANTS
    Clusters <- MCClusters
    Specs <- MCSpecs
    Repo <- MCRepo
    MaxGen = 3
    MaxRestarts = 1
SPECIFICATION Spec
INVARIANT TypeOK
INVARIANT PackagesProtectedByFinalizer
INVARIANT SuccessStatusTruthful
PROPERTY DeletionCompletes
PROPERTY HydrationCompletes
CHECK_DEADLOCK FALSE
