------------------------------ MODULE WebPages -----------------------------
(***************************************************************************)
(* The pages of the web client behind their routes (App.tsx): one page is  *)
(* mounted at a time, while others, and the worker, change the tickets.    *)
(* The answers to the calls of a page that was left change nothing, and    *)
(* what the calls themselves change is one of the changes by others.       *)
(*                                                                         *)
(* The page of a ticket is modelled in two parts, its tab of actions       *)
(* (TicketDetail) and the tabs of its history (EventTabs).                 *)
(***************************************************************************)
EXTENDS QueuePage, SlaPage, TicketDetail, EventTabs, ReportsPage

VARIABLE route    \* the page that is mounted

vars ==
  <<apiVars, queueVars, slaVars, detailVars, tabVars, reportVars, route>>

Routes == {"queue", "sla", "detail", "events", "reports"}

(* RequireRole: the roles a route is for. *)
RolesOf(r) ==
  CASE r = "sla"     -> {"agente", "administrador"}
    [] r = "reports" -> {"administrador"}
    [] OTHER         -> {"reportante", "agente", "administrador"}

(* The items of the side bar are the routes the role may open. *)
Allowed == {r \in Routes : role \in RolesOf(r)}

Init ==
  /\ ApiInit
  /\ route = "queue"
  /\ QueueOpened /\ SlaOff /\ DetailOff /\ TabsOff /\ ReportsOff

(* The queue page, were it to stay mounted. *)
NavigateKeepingQueue(r) ==
  /\ r # route /\ r \in Allowed
  /\ route' = r
  /\ IF r = "queue" THEN QueueMount ELSE UNCHANGED queueVars
  /\ IF r = "sla" THEN SlaMount ELSE SlaUnmount
  /\ IF r = "detail" THEN \E id \in Tickets : DetailMount(id) ELSE DetailUnmount
  /\ IF r = "events" THEN TabsMount ELSE TabsUnmount
  /\ IF r = "reports" THEN ReportsMount ELSE ReportsUnmount
  /\ UNCHANGED apiVars

(* Any other address, or one that is not allowed, leads to the queue. *)
Navigate(r) ==
  /\ r # route /\ r \in Allowed
  /\ route' = r
  /\ IF r = "queue" THEN QueueMount ELSE QueueUnmount
  /\ IF r = "sla" THEN SlaMount ELSE SlaUnmount
  /\ IF r = "detail" THEN \E id \in Tickets : DetailMount(id) ELSE DetailUnmount
  /\ IF r = "events" THEN TabsMount ELSE TabsUnmount
  /\ IF r = "reports" THEN ReportsMount ELSE ReportsUnmount
  /\ UNCHANGED apiVars

OnQueue ==
  QueueStep /\ UNCHANGED <<slaVars, detailVars, tabVars, reportVars>>
OnSla ==
  SlaStep /\ UNCHANGED <<queueVars, detailVars, tabVars, reportVars>>
OnDetail ==
  DetailStep /\ UNCHANGED <<queueVars, slaVars, tabVars, reportVars>>
OnEvents ==
  TabsStep /\ UNCHANGED <<queueVars, slaVars, detailVars, reportVars>>
OnReports ==
  ReportsStep /\ UNCHANGED <<queueVars, slaVars, detailVars, tabVars>>

Outside ==
  /\ Elsewhere
  /\ UNCHANGED <<queueVars, slaVars, detailVars, tabVars, reportVars>>

Next ==
  \/ \E r \in Routes : Navigate(r)
  \/ (OnQueue \/ OnSla \/ OnDetail \/ OnEvents \/ OnReports \/ Outside)
       /\ UNCHANGED route

Spec == Init /\ [][Next]_vars

-----------------------------------------------------------------------------
(* Properties *)

(* The shape of every variable. *)
TypeOK ==
  /\ row \in [Tickets -> Ticket] /\ made \subseteq Tickets /\ role \in Roles
  /\ changes \in Nat /\ faults \in 0 .. MaxFaults
  /\ route \in Routes
  /\ queue.mounted <=> route = "queue"
  /\ sla.mounted <=> route = "sla"
  /\ detail.mounted <=> route = "detail"
  /\ (hist.mounted \/ comm.mounted) <=> route = "events"
  /\ ~(hist.mounted /\ comm.mounted)
  /\ reports.mounted <=> route = "reports"
  /\ queue.mounted => \A i \in DOMAIN queue.tickets : queue.tickets[i] \in Rows
  /\ sla.mounted => \A i \in DOMAIN sla.tickets : sla.tickets[i] \in Rows

(* What waits of the queue page. *)
QueueWaits ==
  /\ queue.loading => \E c \in lists : ~c.more
  /\ queue.loadingMore => queue.overtaken \/ \E c \in lists : c.more
  /\ queue.assigningId # NoTicket => \E c \in assigns : c.id = queue.assigningId

DetailWaits ==
  /\ detail.loading => gets # {}
  /\ detail.panel.busy => \E c \in runs : c.mounted

(* What is shown as under way on a page is under way: every spinner and    *)
(* every button that is disabled meanwhile has a call that will end it,    *)
(* whatever failed or was overtaken, with two exceptions: "Cargar más" of  *)
(* the queue when a reload overtook its call (QueuePage.tsx, 156), and the *)
(* spinner of a board that has never loaded, from a load that failed to    *)
(* the next interval (SlaPage.tsx, 185).                                   *)
EverySpinnerHasACall ==
  /\ queue.mounted => QueueWaits
  /\ sla.mounted /\ sla.assigning => slaAssign.on \/ (slaLoad.on /\ slaLoad.awaited)
  /\ sla.mounted /\ ~sla.loaded => slaLoad.on \/ sla.failed
  /\ detail.mounted => DetailWaits
  /\ hist.mounted => (hist.loading \/ hist.loadingMore <=> hist.call.on)
  /\ reports.mounted => /\ reports.loading <=> repLoad.on
                        /\ reports.downloading <=> csv.on

(* Answers to list calls come in any order, of reloads by filters, search  *)
(* and conflicts, and of load-more: the pages on show were asked for with  *)
(* the filters of the last reload, and those appended to them with these   *)
(* or the filters that are set, unless that reload failed (requestSeq,     *)
(* QueuePage.tsx).  After a conflict the two differ: the list is reloaded  *)
(* with the filters of the click (177).                                    *)
LastReloadWins ==
  queue.mounted /\ ~queue.loading /\ ~queue.failed =>
    queue.asked \in queue.shownFor /\ queue.shownFor \subseteq {queue.asked, queue.filters}

(* The queue keeps its order over all the pages that were appended, and    *)
(* shows no ticket twice, though tickets enter and leave the filter        *)
(* between two pages and rows are replaced by assignments.                 *)
QueueIsInOrder ==
  queue.mounted => Increasing([i \in DOMAIN queue.tickets |-> queue.tickets[i].id])

Times(t, rows) == Cardinality({i \in DOMAIN rows : rows[i].id = t})

(* When a load of the board ends, a ticket is there twice only if it went  *)
(* from one list to the other meanwhile (fetchUnresolvedTickets), and if   *)
(* none has moved, every ticket that may be listed, that was made when the *)
(* load began, and whose list fits its limit is on the board.  One that is *)
(* made meanwhile may be missing until the next load.                      *)
BoardIsExact ==
  [][LoadSucceeds =>
       LET moved == {t \in Tickets : slaLoad.from[t] # row[t].status}
       IN /\ \A t \in Tickets \ moved : Times(t, sla'.tickets) <= 1
          /\ moved = {} => \A t \in Visible \cap slaLoad.there :
               row[t].status # "resuelto"
                 /\ Cardinality(WithStatus(row[t].status)) <= MAX_TICKETS
               => Times(t, sla'.tickets) = 1]_vars

(* The page of a ticket never goes back to an older version of it, with    *)
(* actions, conflicts, reloads and changes of address under way, unless a  *)
(* panel was left with an action in flight.                                *)
NewestStaysOnShow ==
  [][detail.mounted /\ detail'.mounted /\ TicketShown /\ TicketShown'
       /\ ShownId' = ShownId /\ Shown'.version < Shown.version
     => detail.left]_vars

(* The history on show is in order, without repetitions, and once there is *)
(* no more to load it holds every event that was committed when its first  *)
(* page was read, though events are committed out of order meanwhile.      *)
HistoryIsComplete ==
  hist.mounted =>
    /\ Increasing(hist.events)
    /\ HistoryShown /\ hist.nextCursor = NoCursor => hist.seen \subseteq Range(hist.events)

(* A comment whose submission ended well is on show, unless the history    *)
(* before it fills the only page the tab reads (CommentsTab.tsx, 36).      *)
SentCommentIsShown ==
  comm.mounted /\ ~submitting /\ comm.sent # 0 =>
    \/ comm.sent \in Comments
    \/ Cardinality({e \in events : e < comm.sent}) >= CommentsPage

(* The figures count no ticket twice; when they are computed, every ticket *)
(* of a period that holds no more than the limit was counted, if it was    *)
(* made when the walk began, and those counted as resolved are between     *)
(* those that were by then and those that are now.                         *)
ReportIsExact ==
  repLoad.on =>
    LET data == PeriodTickets(repLoad)
        period == InPeriod(repLoad.period)
        resolved == Kpis(data.tickets).resolvedCount
    IN /\ \A t \in period : Times(t, data.tickets) <= 1
       /\ ~repLoad.more /\ Cardinality(period) <= MAX_REPORT_TICKETS =>
            /\ \A t \in period \cap repLoad.there : Times(t, data.tickets) = 1
            /\ Cardinality(repLoad.resolved \cap period) <= resolved
            /\ resolved <= Cardinality(Resolved \cap period)

(* A file has no ticket twice and none that is not resolved.  Of those     *)
(* that were resolved when its stream began it leaves out none before one  *)
(* that it has, however the stream ends, and none at all when the stream   *)
(* ends by itself (streamCsv).  One that breaks is saved as if it were     *)
(* whole.                                                                  *)
FileIsExact ==
  csv.on =>
    \A t \in Tickets :
      LET n == Times(t, csv.tickets)
          before == \E i \in DOMAIN csv.tickets : t <= csv.tickets[i].id
          ended == ~csv.more /\ ~csv.broken
      IN /\ n <= 1 /\ (n = 1 => t \in Resolved)
         /\ t \in csv.resolved /\ (before \/ ended) => n = 1

(* Refuted by detail_attachments: the page of a ticket lists its           *)
(* attachments, which getForUser includes for it (tickets.service.ts,      *)
(* 256-258).  An action replaces the ticket by a row without them.         *)
AttachmentsAreListed ==
  detail.mounted /\ TicketShown => (AttachmentsListed <=> ShownId \in Attached)
=============================================================================
