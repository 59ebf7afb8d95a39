SPECIFICATION Spec
CONSTANTS
    MaxMsg = 2
    MAX_RETRIES = 1
    DEDUP_WINDOW = 2
    DropEnabled = FALSE
    Pings <- MCPings
INVARIANTS
    VerdictsExclusive
CHECK_DEADLOCK FALSE
