SPECIFICATION Spec
CONSTANTS
    Titles <- MCTitles
    Descriptions <- MCDescriptions
    Severities = {}
    Impacts = {3}
    Picks <- MCPicks
    Files = {x1, x2, x3}
    NoFile = NoFile
    Slots = {s1, s2}
    MAX_ATTACHMENTS = 2
    MaxSubmits = 2
    MaxFaults = 1
SYMMETRY Symmetry
INVARIANTS
    OnlyShrinkingTextsAreRefused
    ListIsTrue
    SecondTicketNeedsAFailure
    EstimateIsKept
CHECK_DEADLOCK FALSE
