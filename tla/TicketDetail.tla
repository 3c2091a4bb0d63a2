---------------------------- MODULE TicketDetail ----------------------------
(***************************************************************************)
(* The page of one ticket (TicketDetailPage.tsx) with its tab of actions   *)
(* (DetailTab.tsx, ActionsPanel.tsx): assign it to oneself, begin to work  *)
(* on it, resolve it; on a conflict the page reads the ticket again.       *)
(*                                                                         *)
(* An action is a call that outlives what began it: the panel is unmounted *)
(* with its tab, the ticket of the page changes with its address, and the  *)
(* answer still comes.                                                     *)
(***************************************************************************)
EXTENDS TicketApi

CONSTANTS
  Attached,   \* the tickets that have attachments
  MaxRuns     \* bound: actions in flight

ASSUME DetailAssumption == Attached \subseteq Tickets /\ MaxRuns \in Nat

VARIABLES
  detail,   \* the state of the page and of its panel
  gets,     \* its calls of GET /v1/tickets/:id when the address changes
  runs      \* the actions under way

detailVars == <<detail, gets, runs>>

Tabs == {"detalle", "otra"}

(***************************************************************************)
(* What GET /v1/tickets/:id adds to the row: the attachments and what is   *)
(* derived from slaDueAt.  The answers of the two changes are bare rows,   *)
(* and the fields are undefined in them.                                   *)
(***************************************************************************)
FullTicket(t) ==
  [row |-> Row(t), attachments |-> IF t \in Attached THEN "some" ELSE "none",
   slaStatus |-> IF t \in Overdue THEN "vencido" ELSE "a_tiempo"]

BareTicket(t) ==
  [row |-> Row(t), attachments |-> "undefined", slaStatus |-> "undefined"]

(* ticket.id, and what the page makes of the fields. *)
ShownId == detail.ticket.row.id

DetailScreen ==
  IF detail.loading THEN "spinner"
  ELSE IF detail.error \/ detail.ticket = NoTicket THEN "error" ELSE "ticket"

TicketShown == detail.mounted /\ DetailScreen = "ticket"

(* extractAttachments: what is no array lists nothing. *)
AttachmentsListed == detail.ticket.attachments = "some"

(* Two rows of the data of the ticket: what the server says of the SLA, and *)
(* what the browser makes of slaDueAt and the status.                       *)
ServerSla == IF detail.ticket.slaStatus = "vencido" THEN "vencido" ELSE "a_tiempo"

BrowserSla ==
  IF detail.ticket.row.status = "resuelto" THEN "resuelto"
  ELSE IF ShownId \in Overdue THEN "vencido" ELSE "a_tiempo"

(* A panel as it is mounted: not busy, no notice, no text typed. *)
FreshPanel == [busy |-> FALSE, conflict |-> FALSE, typed |-> FALSE]

DetailNotMounted == [mounted |-> FALSE]

Opening(id) ==
  [mounted |-> TRUE, id |-> id, ticket |-> NoTicket, loading |-> TRUE, error |-> FALSE,
   tab |-> "detalle",
   panel |-> FreshPanel, left |-> FALSE]

GetCall(id) == [id |-> id, answer |-> NoTicket, failed |-> FALSE]

DetailOpened(id) == detail = Opening(id) /\ gets = {GetCall(id)} /\ runs = {}

DetailMount(id) == detail' = Opening(id) /\ gets' = {GetCall(id)} /\ runs' = {}

DetailOff == detail = DetailNotMounted /\ gets = {} /\ runs = {}

DetailUnmount == detail' = DetailNotMounted /\ gets' = {} /\ runs' = {}

(***************************************************************************)
(* The panel is gone, and with it the state that answers would change; the *)
(* next one knows nothing of the calls.  left is not in the code: a panel  *)
(* was left with an action under way.                                      *)
(***************************************************************************)
Unmounted == {[c EXCEPT !.mounted = FALSE] : c \in runs}

Leaving == runs # {}

(* An address that changes without the effect's clean-up. *)
OpenKeepingGets(id) ==
  /\ detail.mounted /\ detail.id # id
  /\ detail' = [detail EXCEPT !.id = id, !.loading = TRUE, !.error = FALSE,
                        !.panel = FreshPanel, !.left = Leaving]
  /\ gets' = gets \cup {GetCall(id)}
  /\ runs' = Unmounted

(***************************************************************************)
(* The address changes to another ticket, and the page stays mounted: the  *)
(* effect cancels its last call and makes another; the ticket is hidden    *)
(* but kept.                                                               *)
(***************************************************************************)
Open(id) ==
  /\ detail.mounted /\ detail.id # id
  /\ detail' = [detail EXCEPT !.id = id, !.loading = TRUE, !.error = FALSE,
                        !.panel = FreshPanel, !.left = Leaving]
  /\ gets' = {GetCall(id)}
  /\ runs' = Unmounted

(* A tab; the panel lives in the first. *)
SetActiveTab(tab) ==
  /\ TicketShown /\ detail.tab # tab
  /\ detail' = [detail EXCEPT !.tab = tab, !.panel = FreshPanel,
                               !.left = Leaving]
  /\ runs' = Unmounted
  /\ UNCHANGED gets

(* Another's ticket is not found for a reportante. *)
ServeGet(c) ==
  /\ c.answer = NoTicket /\ ~c.failed
  /\ \/ /\ c.id \in Visible
        /\ gets' = (gets \ {c}) \cup {[c EXCEPT !.answer = FullTicket(c.id)]}
        /\ UNCHANGED faults
     \/ /\ gets' = (gets \ {c}) \cup {[c EXCEPT !.failed = TRUE]}
        /\ \/ c.id \notin Visible /\ UNCHANGED faults
           \/ Fault
  /\ UNCHANGED <<row, made, role, changes, detail, runs>>

GetArrives(c) ==
  /\ c.answer # NoTicket \/ c.failed
  /\ detail' = [detail EXCEPT !.loading = FALSE, !.error = c.failed,
                               !.ticket = IF c.failed THEN @ ELSE c.answer]
  /\ gets' = gets \ {c}
  /\ UNCHANGED runs

-----------------------------------------------------------------------------
(* The panel *)

PanelShown ==
  TicketShown /\ detail.tab = "detalle" /\ role \in Staff

Shown == detail.ticket.row

CanChangeState == role = "administrador" \/ Shown.assignee = Me

ResolveFormShown ==
  Shown.status = "en_progreso" \/ (Shown.status = "abierto" /\ role = "administrador")

(* The actions the panel offers for the ticket as it is on show. *)
Offered ==
  {op \in {"assign", "start", "resolve"} :
     CASE op = "assign" -> Shown.status = "abierto" /\ Shown.assignee = NoUser
       [] op = "start" -> Shown.status = "abierto" /\ Shown.assignee # NoUser
                          /\ CanChangeState
       [] op = "resolve" -> ResolveFormShown /\ CanChangeState
                            /\ detail.panel.typed}

TypeResolution ==
  /\ PanelShown /\ ResolveFormShown /\ CanChangeState /\ ~detail.panel.busy
  /\ detail' = [detail EXCEPT !.panel.typed = ~@]
  /\ UNCHANGED <<gets, runs>>

(* run: the action is sent, with the version on show. *)
Run(op) ==
  /\ PanelShown /\ op \in Offered /\ ~detail.panel.busy
  /\ MayChange
  /\ \E n \in 1 .. MaxRuns :
       /\ \A c \in runs : c.n # n
       /\ runs' = runs \cup {[n |-> n, op |-> op, id |-> ShownId,
                              version |-> Shown.version, page |-> detail.id,
                              mounted |-> TRUE, refetch |-> FALSE,
                              code |-> 0, answer |-> NoTicket]}
  /\ detail' = [detail EXCEPT !.panel.busy = TRUE, !.panel.conflict = FALSE]
  /\ UNCHANGED gets

Serve(c, code) ==
  CASE c.op = "assign"  -> ServeAssign(c.id, c.version, code)
    [] c.op = "start"   -> ServeMove(c.id, "en_progreso", c.version, code)
    [] c.op = "resolve" -> ServeMove(c.id, "resuelto", c.version, code)

ServeRun(c) ==
  /\ c.code = 0 /\ ~c.refetch
  /\ \E code \in Codes :
       /\ Serve(c, code)
       /\ runs' = (runs \ {c}) \cup {[c EXCEPT !.code = code]}
  /\ UNCHANGED <<detail, gets>>

(* The handler reads the row again for its answer. *)
ReadUpdated(c) ==
  /\ c.code = 200 /\ c.answer = NoTicket
  /\ runs' = (runs \ {c}) \cup {[c EXCEPT !.answer = BareTicket(c.id)]}
  /\ UNCHANGED <<apiVars, detail, gets>>

(* onConflictRefetch reads the ticket of the address the run began under. *)
ServeRefetch(c) ==
  /\ c.code = 0 /\ c.refetch
  /\ \/ /\ runs' = (runs \ {c}) \cup {[c EXCEPT !.code = 200,
                                               !.answer = FullTicket(c.page)]}
        /\ UNCHANGED faults
     \/ /\ runs' = (runs \ {c}) \cup {[c EXCEPT !.code = 500]}
        /\ Fault
  /\ UNCHANGED <<row, made, role, changes, detail, gets>>

(* The panel of c, if it is still there, after its finally. *)
Idle(c, p) == IF c.mounted THEN [p EXCEPT !.busy = FALSE] ELSE p

(* The action was carried out: the page shows the ticket of the answer. *)
RunSucceeds(c) ==
  /\ c.code = 200 /\ ~c.refetch /\ c.answer # NoTicket
  /\ detail' = [detail EXCEPT !.ticket = c.answer,
                  !.left = @ /\ runs # {c},
                  !.panel = IF c.mounted THEN FreshPanel ELSE @]
  /\ runs' = runs \ {c}
  /\ UNCHANGED gets

(* The version had changed: a notice, and the ticket is read again. *)
RunConflicts(c) ==
  /\ c.code = 409 /\ ~c.refetch
  /\ detail' = [detail EXCEPT !.panel.conflict = @ \/ c.mounted]
  /\ runs' = (runs \ {c}) \cup {[c EXCEPT !.refetch = TRUE, !.code = 0]}
  /\ UNCHANGED gets

RunFails(c) ==
  /\ c.code \in {403, 422, 500} /\ ~c.refetch
  /\ detail' = [detail EXCEPT !.left = @ /\ runs # {c}, !.panel = Idle(c, @)]
  /\ runs' = runs \ {c}
  /\ UNCHANGED gets

(* The ticket was read again, or not: the notice stays either way. *)
RefetchOver(c) ==
  /\ c.code # 0 /\ c.refetch
  /\ detail' = [detail EXCEPT !.left = @ /\ runs # {c}, !.panel = Idle(c, @),
                  !.ticket = IF c.code = 200 THEN c.answer ELSE @]
  /\ runs' = runs \ {c}
  /\ UNCHANGED gets

RunArrives(c) ==
  \/ RunSucceeds(c)
  \/ RunConflicts(c)
  \/ RunFails(c)
  \/ RefetchOver(c)

-----------------------------------------------------------------------------
DetailUser ==
  \/ \E id \in Tickets : Open(id)
  \/ \E tab \in Tabs : SetActiveTab(tab)
  \/ TypeResolution
  \/ \E op \in {"assign", "start", "resolve"} : Run(op)

DetailArrival ==
  \/ \E c \in gets : GetArrives(c)
  \/ \E c \in runs : RunArrives(c)

DetailServe ==
  \/ \E c \in gets : ServeGet(c)
  \/ \E c \in runs : ServeRun(c) \/ ReadUpdated(c) \/ ServeRefetch(c)

DetailStep ==
  \/ DetailUser /\ UNCHANGED apiVars
  \/ DetailArrival /\ UNCHANGED apiVars
  \/ DetailServe
=============================================================================
