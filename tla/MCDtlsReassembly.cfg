SPECIFICATION FairSpec
CONSTANTS
    Script <- TwoFlights
    PeerFragments <- Repeated
    StrayFragments <- Strays
    MaxBufferedHs = 3
    MaxBuffering = 50
    InContentLen = 60
    BitmaskLen = 20
INVARIANTS
    BitmaskIsExact
    BudgetIsExact
    DeliveredInOrder
PROPERTIES
    FutureNeverStarvesNext
    FlightLeavesNothing
    AllIsRead
