SPECIFICATION Spec
CONSTANTS
    Holders = {h1, h2}
    Manager = cbm
    NoOne = zero
    Size = 1
    Periods = 2
    MaxBlocks = 6
    MaxBusyHeight = 3
    Bidders = {h1}
    MaxBids = 1
    MaxAuctions = 2
    Loops <- MCLoops
    BatchSize = 1
    MaxFailures = 1
    MaxCrashes = 1
    MaxRequests = 1
    Resets = TRUE
INVARIANTS
    TypeOK
    ProjectionMatchesChain
    BalancesAppliedOnce
PROPERTIES
    ReadYourWrites
    Converges
