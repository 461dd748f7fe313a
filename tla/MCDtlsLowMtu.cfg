SPECIFICATION FairSpec
CONSTANTS
    Configs <- Endpoints
    HsHdr = 2
    Expansion <- LargeExpansion
    OutBuf = 12
    MaxFrag = 10
    Mtus = {1, 9}
    ReducedMtu = 6
    Packing = TRUE
    TimeoutMin = 1
    TimeoutMax = 4
    MaxCtr = 16
    MaxPeerResends = 2
    MaxMtuChanges = 2
PROPERTY
    LowMtuIsAnError
