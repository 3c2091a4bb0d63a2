SPECIFICATION FairSpec
CONSTANTS
    NoUser = NoUser
    NoKey = NoKey
    EmptyKey = EmptyKey
    NoTicket = NoTicket
    NoFile = NoFile
    u1 = u1
    KeyOf <- MCKeyOf
    Users = {u1, u2}
    Staff = {u2}
    Keys = {k1}
    Files = {x1, x2}
    Creations = {c1, c2}
    Downloads = {}
    MaxTime = 0
PROPERTIES
    AttachedForGood
    ImplementsLedger
    CreationEnds
CHECK_DEADLOCK FALSE
