SPECIFICATION Spec
CONSTANTS
    Configs <- SecondPskConfigs
    MaxEarly = 1
    Overhead = 1
INVARIANT
    EarlySecretIsOfSelectedPsk
CHECK_DEADLOCK FALSE
