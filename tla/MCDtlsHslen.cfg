SPECIFICATION RecordSpec
CONSTANTS
    WindowBits = 2
    MaxSeq = 2
    MaxEpoch = 2
    BadmacLimit = 2
    AntiReplay = TRUE
    None = None
INVARIANT HandshakeLengthIsSet
