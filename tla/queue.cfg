SPECIFICATION FairSpec
CONSTANTS
    NoMessage = NoMessage
    Messages = {m1, m2}
    Mails = {m1}
    Poison = {m2}
    Consumers = {k1, k2}
    BATCH_SIZE = 2
    MaxReceive = 3
    MaxFaults = 2
INVARIANTS
    NothingIsLost
    DuplicatesAreBounded
PROPERTIES
    EveryMessageSettles
    GoodMessagesAreProcessed
CHECK_DEADLOCK FALSE
