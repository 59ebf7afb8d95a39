SPECIFICATION Spec
CONSTANTS
    MaxMsg = 3
    MAX_RETRIES = 1
    DEDUP_WINDOW = 2
    DropEnabled = TRUE
    Pings <- MCPings
INVARIANTS
    AckedWasProcessed
    NothingForgotten
    WindowedAtMostOnce
    TransmissionsBounded
    InOrderUnlessDropped
PROPERTIES
    AckedNotRescanned
    FailureIsFinal
    AtMostOnceSpec
CHECK_DEADLOCK FALSE
