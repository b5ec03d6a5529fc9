SPECIFICATION FairSpec
CONSTANTS
    ProxyProtocol = TRUE
    MaxBytes = 3
CHECK_DEADLOCK FALSE
INVARIANTS
    StreamsAreWhole
    OrderlySessionIsWhole
PROPERTIES
    ReturnsWhenBothFinish
