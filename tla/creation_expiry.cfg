SPECIFICATION Spec
CONSTANTS
    NoUser = NoUser
    NoKey = NoKey
    EmptyKey = EmptyKey
    NoTicket = NoTicket
    NoFile = NoFile
    u1 = u1
    KeyOf <- MCKeyOf
    Users = {u1}
    Staff = {}
    Keys = {}
    Files = {x1}
    Creations = {c1, c2}
    Downloads = {}
    MaxTime = 1
SYMMETRY Symmetry
PROPERTIES
    ExpiredAreIgnored
CHECK_DEADLOCK FALSE
