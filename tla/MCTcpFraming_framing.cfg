SPECIFICATION FairSpec
CONSTANTS
    None = None
    Labs = {4, 6}
    Writers = {w1, w2}
    PerWriter = 2
    SIZE = 2
    CAPACITY = 5
INVARIANTS
    TornOnlyUnlooped
PROPERTIES
    FifoSpec
    AllArrive
CHECK_DEADLOCK FALSE
