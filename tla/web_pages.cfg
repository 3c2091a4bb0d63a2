CONSTANTS
  Tickets = {1, 2}
  Own = {1}
  TextMatches = {2}
  Overdue = {2}
  Me = Me
  Other = Other
  NoUser = NoUser
  NoTicket = NoTicket
  Roles = {"administrador", "reportante"}
  StartRows <- MCStartRows
  StartMade = {{1, 2}, {2}}
  MaxChanges = 1
  MaxFaults = 1
  Selections = {"all", "mine"}
  QueueLimit = 1
  MaxAssigns = 1
  SlaLimit = 1
  MAX_TICKETS = 2
  Attached = {1}
  MaxRuns = 1
  HistoryPage = 1
  CommentsPage = 2
  MaxEvents = 3
  Recent = {2}
  ReportLimit = 1
  MAX_REPORT_TICKETS = 2
  Batch = 1
SPECIFICATION Spec
INVARIANTS
  TypeOK
  EverySpinnerHasACall
  LastReloadWins
  QueueIsInOrder
  HistoryIsComplete
  SentCommentIsShown
  ReportIsExact
  FileIsExact
PROPERTIES
  BoardIsExact
  NewestStaysOnShow
CHECK_DEADLOCK FALSE
