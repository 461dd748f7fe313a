SPECIFICATION Spec
CONSTANTS
    Configs <- AllConfigs
    MaxEarly = 3
    Overhead = 1
INVARIANTS
    Agreement
    Authentication
    EarlyDataExact
    OnlyExpectedFailures
PROPERTY
    Completes
CHECK_DEADLOCK FALSE
