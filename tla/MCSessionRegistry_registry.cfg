SPECIFICATION FairSpec
CONSTANTS
    ann = ann
    bob = bob
    eve = eve
    c1 = c1
    c2 = c2
    c3 = c3
    None = None
    Conns = {c1, c2, c3}
    Nicks = {ann, bob, eve}
    Nick <- MCNick
    Fds = {1, 2}
    SendBuffer = 1
    Talkers = {c1}
    Slow = {c1}
    Abrupt = {c2}
    Labs = {3, 4, 6}
INVARIANTS
    TypeOK
    ServedIsListed
    TwinsRaced
PROPERTIES
    HeardInOneOrder
    HandlersFinish
CHECK_DEADLOCK FALSE
