SPECIFICATION FairSpec
CONSTANTS
    Configs <- Endpoints
    HsHdr = 2
    Expansion <- RecordExpansion
    OutBuf = 12
    MaxFrag = 10
    Mtus = {6, 7, 9}
    ReducedMtu = 6
    Packing = TRUE
    TimeoutMin = 1
    TimeoutMax = 4
    MaxCtr = 16
    MaxPeerResends = 2
    MaxMtuChanges = 2
INVARIANTS
    RecordNumbersAreFresh
    EpochsAreRight
    FlightIsSentWhole
PROPERTIES
    TransmissionEnds
    HandshakeGoesOn
