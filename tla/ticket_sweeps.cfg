SPECIFICATION FairSpec
CONSTANTS
    NoTicket = NoTicket
    NoUser = NoUser
    Me = d1
    Another = Another
    NoRequest = NoRequest
    Reporters = {p1}
    p1 = p1
    ReporterOf <- MCReporterOf
    L1Due <- MCL1Due
    L2Due <- MCL2Due
    Tickets = {t1}
    RuledTickets = {t1}
    Agents = {a1}
    Admins = {d1}
    Requests = {r1}
    Guessing = {}
    Ahead = 0
    Sweeps = {s1, s2}
    MaxTime = 2
    MaxDeaths = 1
INVARIANTS
    TypeOK
    EachLevelIsRaisedOnce
PROPERTIES
    ResolutionIsFinal
    OverdueIsRaised
    ChangesAreTheApis
CHECK_DEADLOCK FALSE
