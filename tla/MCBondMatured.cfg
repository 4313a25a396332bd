SPECIFICATION Spec
CONSTANTS
    i1 = i1
    h1 = h1
    h2 = h2
    cbm = cbm
    gov = gov
    Isins = {i1}
    Accounts <- MCAccounts
    CashAccounts <- MCCash
    Bidders = {h1}
    Hashes = {1}
    Nonces = {1}
    Signed <- MCSignedAll
    Manager = cbm
    GovReserve = gov
    UnitNominal = 2
    PercentagePrecision = 2
    DurationScalar = 1
    Sizes = {2}
    Units = {2}
    Rates = {1}
    Years = {1}
    Amounts = {1}
    CashAmounts = {}
    Screened = {h2}
    InitialCash <- MCInitialCash
    MaxCash = 20
    MaxAuctions = 2
    MaxBids = 1
    MaxAllocations = 1
    MaxTime = 5
INVARIANT MaturedIsClosed
