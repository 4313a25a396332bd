SPECIFICATION Spec
CONSTANTS
    i1 = i1
    h1 = h1
    h2 = h2
    cbm = cbm
    gov = gov
    Isins = {i1}
    Accounts <- MCAccounts
    CashAccounts <- MCCash
    Bidders = {h1, h2}
    Hashes = {1, 2}
    Nonces = {1, 2}
    Signed <- MCSignedSome
    Manager = cbm
    GovReserve = gov
    UnitNominal = 2
    PercentagePrecision = 2
    DurationScalar = 1
    Sizes = {2}
    Units = {1, 2}
    Rates = {1}
    Years = {1}
    Amounts = {0}
    CashAmounts = {7}
    Screened = {}
    InitialCash <- MCInitialCash
    MaxCash = 10
    MaxAuctions = 2
    MaxBids = 2
    MaxAllocations = 2
    MaxTime = 3
INVARIANTS
    TypeOK
    AllocationsConsented
    SupplyWasAllocated
PROPERTY DeliveryVersusPayment
