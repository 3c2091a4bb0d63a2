SPECIFICATION Spec
CONSTANTS
    NoTicket = NoTicket
    NoUser = NoUser
    Me = a1
    Another = Another
    NoRequest = NoRequest
    Reporters = {}
    p1 = d1
    ReporterOf <- MCReporterOf
    L1Due <- MCL1Due
    L2Due <- MCL2Due
    Tickets = {t1}
    RuledTickets = {t1}
    Agents = {a1}
    Admins = {d1}
    Requests = {r1, r2, r3}
    Guessing = {r3}
    Ahead = 1
    Sweeps = {}
    MaxTime = 0
    MaxDeaths = 0
SYMMETRY Symmetry
INVARIANTS
    EveryVersionHasOneWinner
    SnapshotIsCurrent
    ConflictHasAWinner
    AuditTellsTheTruth
    OneResolutionMail
PROPERTIES
    ImplementsRegister
    CallsAreDecidedAtOnce
CHECK_DEADLOCK FALSE
