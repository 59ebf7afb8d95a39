SPECIFICATION FairSpec
CONSTANTS
    Labs = {4, 5, 6}
    MaxConns = 3
    MaxMsg = 1
    MaxFaults = 1
    DropEnabled = TRUE
INVARIANTS
    TypeOK
    NameFreeAfterServerClose
    ResentInOwnSession
    LoginsAgree
PROPERTIES
    QuitEnds
    Reconnects
CHECK_DEADLOCK FALSE
