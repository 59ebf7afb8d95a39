SPECIFICATION FairSpec
CONSTANTS
    Workers = {w1, w2, w3}
    Clients = {c1, c2, c3, c4}
INVARIANTS
    NoLostWakeup
    OneClientPerWorker
    ServedInOrder
PROPERTIES
    EveryClientServed
    NoWorkerIdlesForever
CHECK_DEADLOCK FALSE
