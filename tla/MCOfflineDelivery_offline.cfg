SPECIFICATION Spec
CONSTANTS
    ann = ann
    eve = eve
    bob = bob
    dan = dan
    h1 = h1
    h2 = h2
    None = None
    Msgs <- MCMsgs
    Senders = {ann, eve}
    Nicks = {bob, dan}
    Sender <- MCSender
    Receiver <- MCReceiver
    MsgIds <- MCMsgIds
    ServerIds <- MCServerIds
    Sessions = {h1, h2}
    Nick <- MCNick
    Labs = {5, 6}
    MaxLogins = 2
    MaxCrashes = 1
INVARIANTS
    TypeOK
    NoDuplicateItems
    PerSenderOrder
    RedeliveryExcused
    DurableUntilHanded
CHECK_DEADLOCK FALSE
