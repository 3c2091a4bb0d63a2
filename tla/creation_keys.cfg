SPECIFICATION Spec
CONSTANTS
    NoUser = NoUser
    NoKey = NoKey
    EmptyKey = EmptyKey
    NoTicket = NoTicket
    NoFile = NoFile
    u1 = u1
    KeyOf <- MCKeyOf
    Users = {u1, u2, s1}
    Staff = {s1}
    Keys = {k1, k2}
    Files = {x1}
    Creations = {c1, c2}
    Downloads = {d1}
    MaxTime = 1
SYMMETRY Symmetry
INVARIANTS
    OneTicketPerKey
    AnswersNameTheKeysTicket
    DownloadsAreAllowed
    LosersAreAnswered
CHECK_DEADLOCK FALSE
