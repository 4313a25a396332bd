SPECIFICATION Spec
CONSTANTS
    Holders = {h1}
    Manager = cbm
    NoOne = zero
    Size = 1
    Periods = 1
    MaxBlocks = 3
    MaxBusyHeight = 3
    Bidders = {h1}
    MaxBids = 1
    MaxAuctions = 1
    Loops <- MCLoop
    BatchSize = 2
    MaxFailures = 0
    MaxCrashes = 0
    MaxRequests = 0
    Resets = FALSE
INVARIANTS
    RecreatedIsEnabled
