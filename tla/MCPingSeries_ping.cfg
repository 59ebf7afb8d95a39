SPECIFICATION PingFairSpec
CONSTANTS
    MaxMsg = 2
    MAX_RETRIES = 1
    DEDUP_WINDOW = 2
    DropEnabled = TRUE
    MaxSeries = 2
    Pings <- MCPings
INVARIANTS
    PingTypeOK
    CountedOnce
    ForeignOnlyIfFoundBefore
    RttNotOverstated
PROPERTIES
    RttNotNegative
    EveryPingIsSettled
CHECK_DEADLOCK FALSE
