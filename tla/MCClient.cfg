CONSTANTS
    bea = bea
    nordea = nordea
    newcomer = newcomer
    cb = cb
    reserve = reserve
    manager = manager
    fixture = fixture
    acme = acme
    Admin = admin
    SealingKey = 1
    Bidders = {bea, nordea}
    CentralBank = cb
    Reserve = reserve
    Manager = manager
    Newcomer = newcomer
    Names = {fixture, acme}
    FixtureBanks <- MCFixtureBanks
    Scenarios <- MCScenarios
    MaxClicks = 1
    MaxClock = 4
    MaxFetches = 2
    MaxFaults = 1
SPECIFICATION Spec
INVARIANTS TypeOK ShowsTheTruth OfferAccepted AuctionResolvable
