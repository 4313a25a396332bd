CONSTANTS
    bea = bea
    nordea = nordea
    newcomer = newcomer
    cb = cb
    reserve = reserve
    manager = manager
    fixture = fixture
    acme = acme
    Admin = admin
    Bidders = {bea, nordea}
    CentralBank = cb
    Reserve = reserve
    Manager = manager
    Newcomer = newcomer
    Names = {fixture, acme}
    FixtureBanks <- MCFixtureBanks
    Scenarios <- MCScenarios
    MaxClock = 4
    MaxFaults = 1
SPECIFICATION Spec
INVARIANTS TypeOK ManagedNonces RecordTellsTheTruth NamedAuctionChanges BanksActForThemselves ChangesAnnounced
