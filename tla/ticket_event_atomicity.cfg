SPECIFICATION Spec
CONSTANTS
    NoTicket = NoTicket
    NoUser = NoUser
    Me = a1
    Another = Another
    NoRequest = NoRequest
    Reporters = {p1}
    p1 = p1
    ReporterOf <- MCReporterOf
    L1Due <- MCL1Due
    L2Due <- MCL2Due
    Tickets = {t1}
    RuledTickets = {t1}
    Agents = {a1}
    Admins = {d1}
    Requests = {r1, r2}
    Guessing = {}
    Ahead = 0
    Sweeps = {}
    MaxTime = 0
    MaxDeaths = 0
INVARIANT
    EventInSameTransaction
CHECK_DEADLOCK FALSE
