SPECIFICATION FairSpec
CONSTANTS
    Users = {u1}
    Tabs = {t1, t2}
    NoUser = NoUser
    NoTab = NoTab
    App = {"tickets", "sla", "reports"}
    Seeded = {}
    GroupSets <- MCGroupSets
    Providers <- MCProviders
    MaxLogins = 2
    MaxChanges = 1
    MaxFaults = 1
INVARIANTS
    SessionsAgree
    RolesFollowTheDirectory
PROPERTY
    TabsSettle
CHECK_DEADLOCK FALSE
