SPECIFICATION Spec
CONSTANTS
    Isins = {i1, i2, i3}
    Accounts = {h1, h2}
    Amounts = {0, 1, 2}
    MaxSupply = 2
INVARIANTS
    TypeOK
    EnumerationsExact
    TotalsAgree
PROPERTY ImplementsLedger
