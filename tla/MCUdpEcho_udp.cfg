SPECIFICATION FairSpec
CONSTANTS
    None = None
    Clients = {c1, c2}
    MaxMsg = 2
    MaxFaults = 2
INVARIANTS
    ResponsesMatch
PROPERTIES
    WaitEnds
CHECK_DEADLOCK FALSE
