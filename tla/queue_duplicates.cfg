SPECIFICATION Spec
CONSTANTS
    NoMessage = NoMessage
    Messages = {m1, m2}
    Mails = {m1, m2}
    Poison = {}
    Consumers = {k1, k2}
    BATCH_SIZE = 2
    MaxReceive = 3
    MaxFaults = 1
SYMMETRY Symmetry
INVARIANTS
    EachMailIsSentOnce
CHECK_DEADLOCK FALSE
