-------------------------- MODULE WebPages_proofs ---------------------------
(***************************************************************************)
(* Proofs about WebPages: the page of a ticket and its tabs, and then the  *)
(* client as a whole, for any tickets, changes by others, failures and     *)
(* changes of page.                                                        *)
(*                                                                         *)
(* Every page has an invariant of its own, which its steps preserve, and   *)
(* which the steps of the others, who change the rows as ApiStep says,     *)
(* leave alone.  WebInv puts them together by the route.                   *)
(***************************************************************************)
EXTENDS WebLists_proofs

(* The types of the page of a ticket and its calls. *)
Panels == [busy : BOOLEAN, conflict : BOOLEAN, typed : BOOLEAN]

TicketAnswers ==
  [row : Rows, attachments : {"some", "none", "undefined"},
   slaStatus : {"vencido", "a_tiempo", "undefined"}]

DetailState ==
  [mounted : {TRUE}, id : Tickets, ticket : TicketAnswers \cup {NoTicket},
   loading : BOOLEAN, error : BOOLEAN, tab : Tabs, panel : Panels, left : BOOLEAN]

GetCalls == [id : Tickets, answer : TicketAnswers \cup {NoTicket}, failed : BOOLEAN]

Actions == {"assign", "start", "resolve"}

RunCalls ==
  [n : Nat, op : Actions, id : Tickets, version : Nat,
   page : Tickets, mounted : BOOLEAN, refetch : BOOLEAN, code : Codes \cup {0},
   answer : TicketAnswers \cup {NoTicket}]

DetailType == detail \in DetailState /\ gets \subseteq GetCalls /\ runs \subseteq RunCalls

(* One load of the page is in flight at most, and it loads as long as it   *)
(* is.                                                                     *)
OneGet ==
  /\ \A c, d \in gets : c = d
  /\ detail.loading <=> gets # {}

(* One action of the panel that is mounted is under way at most. *)
OneMountedRun ==
  /\ \A c, d \in runs : c.mounted /\ d.mounted => c = d
  /\ \A c \in runs : c.mounted => detail.panel.busy /\ ~detail.loading
  /\ detail.panel.busy => \E c \in runs : c.mounted
  /\ ~detail.left => \A c \in runs : c.mounted

(* No row is newer than the ticket. *)
NotNewer(answer) ==
  answer # NoTicket => answer.row.version <= row[answer.row.id].version

(* Neither what is on show nor an answer. *)
NoRowIsNewer ==
  /\ NotNewer(detail.ticket)
  /\ \A c \in gets : NotNewer(c.answer)
  /\ \A c \in runs : NotNewer(c.answer)

(* An answer about the ticket on show is no older than what is shown. *)
NotOlder(answer) ==
  answer # NoTicket /\ answer.row.id = ShownId => Shown.version <= answer.row.version

(* The answer to an action of a panel that was not left is no older than   *)
(* what is on show.                                                        *)
AnswersAreNotOlder ==
  ~detail.left /\ detail.ticket # NoTicket => \A c \in runs : NotOlder(c.answer)

(* The page while it is mounted, and its invariant. *)
DetailOn ==
  DetailType /\ OneGet /\ OneMountedRun /\ NoRowIsNewer /\ AnswersAreNotOlder

DetailInv == DetailOn \/ DetailOff

(* The answers that are built from a row. *)
LEMMA AnswerTypes ==
  ASSUME ApiTypeOK, NEW t \in Tickets
  PROVE  /\ FullTicket(t) \in TicketAnswers /\ BareTicket(t) \in TicketAnswers
         /\ FullTicket(t).row = Row(t) /\ BareTicket(t).row = Row(t)
         /\ Row(t).id = t /\ Row(t).version = row[t].version /\ row[t].version \in Nat
<1>1. Row(t) \in Rows
  BY RowType DEF ApiTypeOK
<1>2. Row(t).id = t /\ Row(t).version = row[t].version /\ row[t].version \in Nat
  BY RowFields DEF ApiTypeOK, Row
<1> QED BY <1>1, <1>2 DEF FullTicket, BareTicket, TicketAnswers

(* The row of an answer. *)
LEMMA AnswerFields ==
  ASSUME NEW answer \in TicketAnswers \cup {NoTicket}, answer # NoTicket
  PROVE  answer.row \in Rows /\ answer.row.id \in Tickets /\ answer.row.version \in Nat
BY DEF TicketAnswers, Rows

(* A ticket read now is no newer than itself, and no older than any. *)
LEMMA FreshAnswer ==
  ASSUME ApiTypeOK, DetailOn, NEW t \in Tickets, NEW answer \in TicketAnswers,
         answer.row = Row(t)
  PROVE  NotNewer(answer) /\ (detail.ticket # NoTicket => NotOlder(answer))
<1>1. answer.row.id = t /\ answer.row.version = row[t].version /\ row[t].version \in Nat
  BY AnswerTypes
<1>2. NotNewer(detail.ticket) /\ detail.ticket \in TicketAnswers \cup {NoTicket}
  BY DEF DetailOn, NoRowIsNewer, DetailType, DetailState
<1> QED BY <1>1, <1>2 DEF NotNewer, NotOlder, ShownId, Shown

(* Versions only grow: an answer that is no newer stays so. *)
LEMMA NotNewerStays ==
  ASSUME ApiTypeOK, ApiStep, NEW answer \in TicketAnswers \cup {NoTicket}, NotNewer(answer)
  PROVE  NotNewer(answer)'
<1> SUFFICES ASSUME answer # NoTicket
             PROVE  answer.row.version <= row'[answer.row.id].version
  BY DEF NotNewer
<1>1. answer.row.id \in Tickets /\ answer.row.version \in Nat
  BY AnswerFields
<1> DEFINE t == answer.row.id
<1>2. row[t].version \in Nat /\ row[t].version <= row'[t].version
  BY <1>1, RowFields DEF ApiTypeOK, ApiStep, RowsEvolve
<1>3. row'[t].version \in Nat
  BY <1>1 DEF ApiStep, ApiTypeOK, RowOK, Ticket
<1>4. answer.row.version <= row[t].version
  BY DEF NotNewer
<1> HIDE DEF t
<1> QED BY <1>1, <1>2, <1>3, <1>4 DEF t

(* Every row of the page stays no newer than its ticket. *)
LEMMA RowsStayOld ==
  ASSUME ApiTypeOK, ApiStep, DetailOn
  PROVE  /\ NotNewer(detail.ticket) => \A a : a = detail.ticket => NotNewer(a)'
         /\ \A c \in gets : \A a : a = c.answer => NotNewer(a)'
         /\ \A c \in runs : \A a : a = c.answer => NotNewer(a)'
<1>1. \A a \in TicketAnswers \cup {NoTicket} : NotNewer(a) => NotNewer(a)'
  BY NotNewerStays
<1>2. /\ detail.ticket \in TicketAnswers \cup {NoTicket}
      /\ \A c \in gets : c.answer \in TicketAnswers \cup {NoTicket}
      /\ \A c \in runs : c.answer \in TicketAnswers \cup {NoTicket}
  BY DEF DetailOn, DetailType, DetailState, GetCalls, RunCalls
<1> QED BY <1>1, <1>2 DEF DetailOn, NoRowIsNewer

(* The page is not touched, while the rows evolve. *)
LEMMA DetailStays ==
  ASSUME ApiTypeOK, ApiStep, DetailInv, UNCHANGED detailVars
  PROVE  DetailInv'
<1>1. UNCHANGED <<detail, gets, runs>>
  BY DEF detailVars
<1>2. CASE DetailOff
  BY <1>1, <1>2 DEF DetailInv, DetailOff
<1>3. CASE DetailOn
  <2>1. NoRowIsNewer'
    BY <1>1, <1>3, RowsStayOld DEF NoRowIsNewer, DetailOn
  <2> QED BY <1>1, <1>3, <2>1 DEF DetailInv, DetailOn, DetailType, OneGet, OneMountedRun,
          AnswersAreNotOlder, NotOlder, ShownId, Shown
<1> QED BY <1>2, <1>3 DEF DetailInv

(* The page is left. *)
LEMMA DetailLeaves ==
  ASSUME DetailUnmount
  PROVE  DetailInv'
BY DEF DetailUnmount, DetailInv, DetailOff

(* A panel as it is mounted. *)
LEMMA FreshPanelOK == FreshPanel \in Panels /\ FreshPanel.busy = FALSE
BY DEF FreshPanel, Panels

(* The page as it is opened. *)
LEMMA OpeningOK ==
  ASSUME NEW id \in Tickets
  PROVE  /\ Opening(id) \in DetailState /\ GetCall(id) \in GetCalls
         /\ Opening(id).ticket = NoTicket /\ GetCall(id).answer = NoTicket
         /\ Opening(id).loading = TRUE /\ Opening(id).panel = FreshPanel
BY DEF Opening, DetailState, GetCall, GetCalls, FreshPanel, Panels, Tabs

(* The page is mounted, with its load under way. *)
LEMMA DetailMounts ==
  ASSUME NEW id \in Tickets, DetailMount(id)
  PROVE  DetailOn'
<1>1. detail' = Opening(id) /\ gets' = {GetCall(id)} /\ runs' = {}
  BY DEF DetailMount
<1>2. DetailType'
  BY <1>1, OpeningOK DEF DetailType
<1>3. OneGet' /\ OneMountedRun' /\ NoRowIsNewer' /\ AnswersAreNotOlder'
  BY <1>1, OpeningOK, FreshPanelOK DEF OneGet, OneMountedRun, NoRowIsNewer, NotNewer, AnswersAreNotOlder
<1> QED BY <1>2, <1>3 DEF DetailOn

(* The panel is unmounted, and those whose answers still come with it. *)
LEMMA UnmountedRuns ==
  ASSUME runs \subseteq RunCalls
  PROVE  /\ Unmounted \subseteq RunCalls
         /\ \A d \in Unmounted : d.mounted = FALSE /\ \E c \in runs : d.answer = c.answer
         /\ runs = {} => Unmounted = {}
<1>1. ASSUME NEW c \in RunCalls
      PROVE  /\ [c EXCEPT !.mounted = FALSE] \in RunCalls
             /\ [c EXCEPT !.mounted = FALSE].mounted = FALSE
             /\ [c EXCEPT !.mounted = FALSE].answer = c.answer
  BY DEF RunCalls
<1>2. ASSUME NEW d \in Unmounted
      PROVE  d \in RunCalls /\ d.mounted = FALSE /\ \E c \in runs : d.answer = c.answer
  <2>1. PICK c \in runs : d = [c EXCEPT !.mounted = FALSE]
    BY DEF Unmounted
  <2> QED BY <1>1, <2>1
<1>3. runs = {} => Unmounted = {}
  BY DEF Unmounted
<1> QED BY <1>2, <1>3

(* What is left of the actions when their panel is unmounted. *)
LEMMA PanelLeft ==
  ASSUME ApiTypeOK, UNCHANGED apiVars, DetailOn,
         detail' \in DetailState, detail'.panel = FreshPanel,
         detail'.left <=> Leaving, detail'.ticket = detail.ticket,
         runs' = Unmounted, gets' \subseteq GetCalls, OneGet',
         \A c \in gets' : c \in gets \/ c.answer = NoTicket
  PROVE  DetailOn'
<1>1. /\ runs' \subseteq RunCalls
      /\ \A d \in runs' : d.mounted = FALSE /\ \E c \in runs : d.answer = c.answer
      /\ ~detail'.left => runs' = {}
  BY UnmountedRuns DEF DetailOn, DetailType, Leaving
<1>2. OneMountedRun'
  BY <1>1, FreshPanelOK DEF OneMountedRun
<1>3. NoRowIsNewer'
  BY <1>1, RowsStayOld, ApiUnchanged DEF NoRowIsNewer, DetailOn, NotNewer
<1>4. AnswersAreNotOlder'
  BY <1>1 DEF AnswersAreNotOlder
<1> QED BY <1>1, <1>2, <1>3, <1>4 DEF DetailOn, DetailType

(* The address changes to another ticket. *)
LEMMA OpenInv ==
  ASSUME ApiTypeOK, UNCHANGED apiVars, DetailOn, NEW id \in Tickets, Open(id)
  PROVE  DetailOn'
<1> DEFINE left == Leaving
<1>1. left \in BOOLEAN
  BY DEF Leaving
<1>2. /\ detail' = [detail EXCEPT !.id = id, !.loading = TRUE, !.error = FALSE,
                                  !.panel = FreshPanel, !.left = left]
      /\ gets' = {GetCall(id)} /\ runs' = Unmounted
  BY DEF Open
<1>3. left <=> Leaving
  OBVIOUS
<1> HIDE DEF left
<1>4. /\ detail' \in DetailState /\ detail'.panel = FreshPanel /\ detail'.left = left
      /\ detail'.ticket = detail.ticket /\ detail'.loading = TRUE
  BY <1>1, <1>2, FreshPanelOK DEF DetailOn, DetailType, DetailState
<1>5. OneGet' /\ gets' \subseteq GetCalls /\ \A c \in gets' : c.answer = NoTicket
  BY <1>2, <1>4, OpeningOK DEF OneGet
<1> QED BY <1>2, <1>3, <1>4, <1>5, PanelLeft

(* A tab is chosen. *)
LEMMA SetActiveTabInv ==
  ASSUME ApiTypeOK, UNCHANGED apiVars, DetailOn, NEW tab \in Tabs, SetActiveTab(tab)
  PROVE  DetailOn'
<1> DEFINE left == Leaving
<1>1. left \in BOOLEAN
  BY DEF Leaving
<1>2. /\ detail' = [detail EXCEPT !.tab = tab, !.panel = FreshPanel, !.left = left]
      /\ gets' = gets /\ runs' = Unmounted
  BY DEF SetActiveTab
<1>3. left <=> Leaving
  OBVIOUS
<1> HIDE DEF left
<1>4. /\ detail' \in DetailState /\ detail'.panel = FreshPanel /\ detail'.left = left
      /\ detail'.ticket = detail.ticket /\ detail'.loading = detail.loading
  BY <1>1, <1>2, FreshPanelOK DEF DetailOn, DetailType, DetailState
<1>5. OneGet' /\ gets' \subseteq GetCalls
  BY <1>2, <1>4 DEF OneGet, DetailOn, DetailType
<1> QED BY <1>2, <1>3, <1>4, <1>5, PanelLeft

(* The state of the page changes in what its calls do not depend on. *)
LEMMA PageChanges ==
  ASSUME ApiTypeOK, ApiStep, DetailOn, detail' \in DetailState,
         \A f \in {"ticket", "loading", "left"} : detail'[f] = detail[f],
         detail'.panel.busy = detail.panel.busy, UNCHANGED <<gets, runs>>
  PROVE  DetailOn'
<1>1. /\ detail'.ticket = detail.ticket /\ detail'.loading = detail.loading
      /\ detail'.left = detail.left
  OBVIOUS
<1>2. NoRowIsNewer'
  BY <1>1, RowsStayOld DEF NoRowIsNewer, DetailOn
<1> QED BY <1>1, <1>2 DEF DetailOn, DetailType, OneGet, OneMountedRun,
          AnswersAreNotOlder, NotOlder, ShownId, Shown

(* The solution is typed. *)
LEMMA TypeResolutionInv ==
  ASSUME ApiTypeOK, UNCHANGED apiVars, DetailOn, TypeResolution
  PROVE  DetailOn'
<1> DEFINE typed == ~detail.panel.typed
           panel == [detail.panel EXCEPT !.typed = typed]
<1>1. detail \in DetailState /\ detail.panel \in Panels /\ typed \in BOOLEAN
  BY DEF DetailOn, DetailType, DetailState, Panels
<1>2. detail' = [detail EXCEPT !.panel = panel] /\ UNCHANGED <<gets, runs>>
  BY <1>1 DEF TypeResolution, DetailState, Panels
<1> HIDE DEF typed
<1>3. panel \in Panels /\ panel.busy = detail.panel.busy
  BY <1>1 DEF Panels
<1> HIDE DEF panel
<1>4. /\ detail' \in DetailState /\ detail'.panel = panel
      /\ \A f \in {"ticket", "loading", "left"} : detail'[f] = detail[f]
  BY <1>1, <1>2, <1>3 DEF DetailState
<1> QED BY <1>2, <1>3, <1>4, PageChanges, ApiUnchanged

(* An action of the panel begins. *)
LEMMA RunInv ==
  ASSUME ApiTypeOK, UNCHANGED apiVars, DetailOn, NEW op \in Actions, Run(op)
  PROVE  DetailOn'
<1> DEFINE panel == [detail.panel EXCEPT !.busy = TRUE, !.conflict = FALSE]
           call(n) == [n |-> n, op |-> op, id |-> ShownId,
                       version |-> Shown.version, page |-> detail.id,
                       mounted |-> TRUE, refetch |-> FALSE,
                       code |-> 0, answer |-> NoTicket]
<1>1. /\ detail \in DetailState /\ detail.panel \in Panels
      /\ ~detail.panel.busy /\ ~detail.loading /\ detail.ticket # NoTicket
      /\ detail.ticket \in TicketAnswers \cup {NoTicket} /\ detail.id \in Tickets
  BY DEF DetailOn, DetailType, DetailState, Run, PanelShown, TicketShown, DetailScreen
<1>2. PICK n \in 1 .. MaxRuns : runs' = runs \cup {call(n)}
  BY DEF Run
<1>3. /\ call(n) \in RunCalls /\ call(n).mounted = TRUE /\ call(n).answer = NoTicket
  <2>1. ShownId \in Tickets /\ Shown.version \in Nat /\ n \in Nat
    BY <1>1, AnswerFields, DetailAssumption DEF ShownId, Shown
  <2> QED BY <1>1, <2>1 DEF RunCalls
<1>4. detail' = [detail EXCEPT !.panel = panel] /\ gets' = gets
  BY <1>1 DEF Run, DetailState, Panels
<1>5. panel \in Panels /\ panel.busy = TRUE
  BY <1>1 DEF Panels
<1> HIDE DEF call, panel
<1>6. /\ detail' \in DetailState /\ detail'.panel = panel /\ detail'.ticket = detail.ticket
      /\ detail'.loading = detail.loading /\ detail'.left = detail.left
  BY <1>1, <1>4, <1>5 DEF DetailState
<1>7. DetailType' /\ OneGet'
  BY <1>2, <1>3, <1>4, <1>6 DEF DetailOn, DetailType, OneGet
<1>8. OneMountedRun'
  BY <1>1, <1>2, <1>3, <1>5, <1>6 DEF DetailOn, OneMountedRun
<1>9. NoRowIsNewer'
  BY <1>2, <1>3, <1>4, <1>6, RowsStayOld, ApiUnchanged DEF NoRowIsNewer, DetailOn, NotNewer
<1>10. AnswersAreNotOlder'
  BY <1>2, <1>3, <1>6 DEF DetailOn, AnswersAreNotOlder, NotOlder, ShownId, Shown
<1> QED BY <1>7, <1>8, <1>9, <1>10 DEF DetailOn

-----------------------------------------------------------------------------
(* The call of the page *)

(* The API answers the load, or fails. *)
LEMMA ServeGetInv ==
  ASSUME ApiTypeOK, DetailOn, NEW c \in gets, ServeGet(c)
  PROVE  DetailOn' /\ ApiStep
<1>1. c \in GetCalls /\ c.id \in Tickets /\ UNCHANGED <<row, made, role, changes, detail, runs>>
  BY DEF DetailOn, DetailType, GetCalls, ServeGet
<1>2. ApiStep
  <2>1. UNCHANGED faults \/ Fault
    BY DEF ServeGet
  <2> QED BY <1>1, <2>1, ApiFault, ApiUnchanged DEF apiVars
<1>3. PICK d \in GetCalls : /\ gets' = (gets \ {c}) \cup {d}
                            /\ NotNewer(d.answer)
  <2>1. CASE gets' = (gets \ {c}) \cup {[c EXCEPT !.answer = FullTicket(c.id)]}
    <3> DEFINE d == [c EXCEPT !.answer = FullTicket(c.id)]
    <3>1. FullTicket(c.id) \in TicketAnswers /\ NotNewer(FullTicket(c.id))
      BY <1>1, AnswerTypes, FreshAnswer
    <3>2. d \in GetCalls /\ d.answer = FullTicket(c.id)
      BY <1>1, <3>1 DEF GetCalls
    <3> QED BY <2>1, <3>1, <3>2
  <2>2. CASE gets' = (gets \ {c}) \cup {[c EXCEPT !.failed = TRUE]}
    <3>1. [c EXCEPT !.failed = TRUE] \in GetCalls /\ [c EXCEPT !.failed = TRUE].answer = NoTicket
      BY <1>1 DEF GetCalls, ServeGet
    <3> QED BY <2>2, <3>1 DEF NotNewer
  <2> QED BY <2>1, <2>2 DEF ServeGet
<1>4. OneGet'
  BY <1>1, <1>3 DEF DetailOn, OneGet
<1>5. NoRowIsNewer'
  BY <1>1, <1>2, <1>3, RowsStayOld DEF DetailOn, NoRowIsNewer, NotNewer
<1> QED BY <1>1, <1>2, <1>3, <1>4, <1>5 DEF DetailOn, DetailType, OneMountedRun,
          AnswersAreNotOlder, NotOlder, ShownId, Shown

(* The answer to the load. *)
LEMMA GetArrivesInv ==
  ASSUME ApiTypeOK, UNCHANGED apiVars, DetailOn, NEW c \in gets, GetArrives(c)
  PROVE  DetailOn'
<1> DEFINE ticket == IF c.failed THEN detail.ticket ELSE c.answer
<1>1. /\ detail \in DetailState /\ c \in GetCalls
      /\ detail.ticket \in TicketAnswers \cup {NoTicket}
      /\ c.answer \in TicketAnswers \cup {NoTicket} /\ c.failed \in BOOLEAN
  BY DEF DetailOn, DetailType, DetailState, GetCalls
<1>2. ticket \in TicketAnswers \cup {NoTicket} /\ ticket \in {detail.ticket, c.answer}
  BY <1>1
<1>3. /\ detail' = [detail EXCEPT !.loading = FALSE, !.error = c.failed, !.ticket = ticket]
      /\ gets' = gets \ {c} /\ runs' = runs
  BY DEF GetArrives
<1> HIDE DEF ticket
<1>4. /\ detail' \in DetailState /\ detail'.loading = FALSE /\ detail'.ticket = ticket
      /\ detail'.panel = detail.panel /\ detail'.left = detail.left
  BY <1>1, <1>2, <1>3 DEF DetailState
<1>5. gets' = {} /\ detail.loading
  BY <1>3 DEF DetailOn, OneGet
<1>6. ~detail.left => runs = {}
  BY <1>5 DEF DetailOn, OneMountedRun
<1>7. DetailType' /\ OneGet'
  BY <1>3, <1>4, <1>5 DEF DetailOn, DetailType, OneGet
<1>8. OneMountedRun'
  BY <1>3, <1>4 DEF DetailOn, OneMountedRun
<1>9. NoRowIsNewer'
  BY <1>2, <1>3, <1>4, <1>5, RowsStayOld, ApiUnchanged DEF NoRowIsNewer, DetailOn
<1>10. AnswersAreNotOlder'
  BY <1>3, <1>4, <1>6 DEF AnswersAreNotOlder
<1> QED BY <1>7, <1>8, <1>9, <1>10 DEF DetailOn

-----------------------------------------------------------------------------
(* The actions under way *)

(* An action under way goes on to d. *)
LEMMA RunGoesOn ==
  ASSUME ApiTypeOK, ApiStep, DetailOn, NEW c \in runs, NEW d \in RunCalls,
         d.mounted = c.mounted, NotNewer(d.answer),
         detail.ticket # NoTicket /\ ~detail.left => NotOlder(d.answer),
         detail' \in DetailState,
         \A f \in {"ticket", "loading", "left"} : detail'[f] = detail[f],
         detail'.panel.busy = detail.panel.busy,
         gets' = gets, runs' = (runs \ {c}) \cup {d}
  PROVE  DetailOn'
<1>1. /\ detail'.ticket = detail.ticket /\ detail'.loading = detail.loading
      /\ detail'.left = detail.left /\ c \in RunCalls
  BY DEF DetailOn, DetailType
<1>2. DetailType' /\ OneGet'
  BY <1>1 DEF DetailOn, DetailType, OneGet
<1>3. OneMountedRun'
  BY <1>1 DEF DetailOn, OneMountedRun
<1>4. NoRowIsNewer'
  <2>1. NotNewer(d.answer)'
    BY NotNewerStays DEF RunCalls
  <2> QED BY <1>1, <2>1, RowsStayOld DEF NoRowIsNewer, DetailOn, NotNewer
<1>5. AnswersAreNotOlder'
  BY <1>1 DEF DetailOn, AnswersAreNotOlder, NotOlder, ShownId, Shown
<1> QED BY <1>2, <1>3, <1>4, <1>5 DEF DetailOn

(* An action is over, and the page shows its answer or what it showed. *)
LEMMA RunEnds ==
  ASSUME ApiTypeOK, UNCHANGED apiVars, DetailOn, NEW c \in runs,
         detail' \in DetailState, detail'.loading = detail.loading,
         detail'.ticket \in {detail.ticket, c.answer},
         detail'.left <=> detail.left /\ runs # {c},
         detail'.panel.busy <=> ~c.mounted /\ detail.panel.busy,
         gets' = gets, runs' = runs \ {c}
  PROVE  DetailOn'
<1>1. DetailType' /\ OneGet'
  BY DEF DetailOn, DetailType, OneGet
<1>2. OneMountedRun'
  BY DEF DetailOn, OneMountedRun
<1>3. NoRowIsNewer'
  BY RowsStayOld, ApiUnchanged DEF NoRowIsNewer, DetailOn
<1>4. ~detail'.left => runs' = {}
  BY DEF DetailOn, OneMountedRun
<1>5. AnswersAreNotOlder'
  BY <1>4 DEF AnswersAreNotOlder
<1> QED BY <1>1, <1>2, <1>3, <1>5 DEF DetailOn

(* The API serves an action, as it serves a change. *)
LEMMA ServeStep ==
  ASSUME ApiTypeOK, NEW c \in RunCalls, NEW code, Serve(c, code)
  PROVE  ApiStep
<1>1. c.id \in Tickets /\ c.op \in Actions
  BY DEF RunCalls
<1>2. \/ ServeAssign(c.id, c.version, code)
      \/ \E next \in {"en_progreso", "resuelto"} : ServeMove(c.id, next, c.version, code)
  BY <1>1 DEF Serve, Actions
<1> QED BY <1>1, <1>2, ServeAssignStep, ServeMoveStep

(* An action under way. *)
LEMMA RunFacts ==
  ASSUME DetailOn, NEW c \in runs
  PROVE  /\ c \in RunCalls /\ NotNewer(c.answer)
         /\ detail.ticket # NoTicket /\ ~detail.left => NotOlder(c.answer)
         /\ detail \in DetailState /\ c.mounted \in BOOLEAN
         /\ c.answer \in TicketAnswers \cup {NoTicket}
BY DEF DetailOn, DetailType, NoRowIsNewer, AnswersAreNotOlder, RunCalls

(* The API serves the action. *)
LEMMA ServeRunInv ==
  ASSUME ApiTypeOK, DetailOn, NEW c \in runs, ServeRun(c)
  PROVE  DetailOn' /\ ApiStep
<1>1. c \in RunCalls /\ UNCHANGED <<detail, gets>>
  BY RunFacts DEF ServeRun
<1>2. PICK code \in Codes : /\ Serve(c, code)
                            /\ runs' = (runs \ {c}) \cup {[c EXCEPT !.code = code]}
  BY DEF ServeRun
<1> DEFINE d == [c EXCEPT !.code = code]
<1>3. ApiStep
  BY <1>1, <1>2, ServeStep
<1>4. d \in RunCalls /\ d.mounted = c.mounted /\ d.answer = c.answer
  BY <1>1 DEF RunCalls
<1> HIDE DEF d
<1>5. DetailOn'
  BY <1>1, <1>2, <1>3, <1>4, RunFacts, RunGoesOn DEF d
<1> QED BY <1>3, <1>5

(* The API reads the row of its answer. *)
LEMMA ReadUpdatedInv ==
  ASSUME ApiTypeOK, DetailOn, NEW c \in runs, ReadUpdated(c)
  PROVE  DetailOn' /\ ApiStep
<1> DEFINE answer == BareTicket(c.id)
           d == [c EXCEPT !.answer = answer]
<1>1. c \in RunCalls /\ c.id \in Tickets
  BY RunFacts DEF RunCalls
<1>2. answer \in TicketAnswers /\ NotNewer(answer)
      /\ (detail.ticket # NoTicket => NotOlder(answer))
  BY <1>1, AnswerTypes, FreshAnswer
<1>3. /\ runs' = (runs \ {c}) \cup {d} /\ UNCHANGED <<detail, gets>> /\ UNCHANGED apiVars
  BY DEF ReadUpdated
<1> HIDE DEF answer
<1>4. d \in RunCalls /\ d.mounted = c.mounted /\ d.answer = answer
  BY <1>1, <1>2 DEF RunCalls
<1> HIDE DEF d
<1>5. ApiStep
  BY <1>3, ApiUnchanged
<1> QED BY <1>2, <1>3, <1>4, <1>5, RunFacts, RunGoesOn

(* The API answers the load after a conflict. *)
LEMMA ServeRefetchInv ==
  ASSUME ApiTypeOK, DetailOn, NEW c \in runs, ServeRefetch(c)
  PROVE  DetailOn' /\ ApiStep
<1>1. c \in RunCalls /\ c.page \in Tickets /\ UNCHANGED <<row, made, role, changes, detail, gets>>
  BY RunFacts DEF RunCalls, ServeRefetch
<1>2. ApiStep
  BY <1>1, ApiFault, ApiUnchanged DEF ServeRefetch, apiVars
<1>3. CASE runs' = (runs \ {c}) \cup {[c EXCEPT !.code = 200, !.answer = FullTicket(c.page)]}
  <2> DEFINE answer == FullTicket(c.page)
             d == [c EXCEPT !.code = 200, !.answer = answer]
  <2>1. answer \in TicketAnswers /\ NotNewer(answer)
        /\ (detail.ticket # NoTicket => NotOlder(answer))
    BY <1>1, AnswerTypes, FreshAnswer
  <2>2. runs' = (runs \ {c}) \cup {d}
    BY <1>3
  <2> HIDE DEF answer
  <2>3. d \in RunCalls /\ d.mounted = c.mounted /\ d.answer = answer
    <3>1. PICK code \in Codes \cup {0} : code = 200
      BY DEF Codes
    <3>2. answer \in TicketAnswers \cup {NoTicket}
      BY <2>1
    <3>3. d.mounted = c.mounted /\ d.answer = answer
      BY <1>1 DEF RunCalls
    <3>4. [c EXCEPT !.code = code, !.answer = answer] \in RunCalls
      BY <1>1, <3>2 DEF RunCalls
    <3>5. d \in RunCalls
      BY <3>1, <3>4
    <3> QED BY <3>3, <3>5
  <2> HIDE DEF d
  <2> QED BY <1>1, <1>2, <2>1, <2>2, <2>3, RunFacts, RunGoesOn
<1>4. CASE runs' = (runs \ {c}) \cup {[c EXCEPT !.code = 500]}
  <2> DEFINE d == [c EXCEPT !.code = 500]
  <2>1. runs' = (runs \ {c}) \cup {d}
    BY <1>4
  <2>2. d \in RunCalls /\ d.mounted = c.mounted /\ d.answer = c.answer
    BY <1>1 DEF RunCalls, Codes
  <2> HIDE DEF d
  <2> QED BY <1>1, <1>2, <2>1, <2>2, RunFacts, RunGoesOn
<1> QED BY <1>2, <1>3, <1>4 DEF ServeRefetch

(* The panel once the action c is over. *)
LEMMA IdlePanel ==
  ASSUME NEW c, c.mounted \in BOOLEAN, NEW p \in Panels
  PROVE  Idle(c, p) \in Panels /\ (Idle(c, p).busy <=> ~c.mounted /\ p.busy)
<1>1. [p EXCEPT !.busy = FALSE] \in Panels /\ [p EXCEPT !.busy = FALSE].busy = FALSE
  BY DEF Panels
<1> QED BY <1>1 DEF Idle

(* What the end of an action does to the page. *)
LEMMA PageAfterRun ==
  ASSUME DetailOn, NEW left \in BOOLEAN, NEW panel \in Panels,
         NEW ticket \in TicketAnswers \cup {NoTicket},
         detail' = [detail EXCEPT !.left = left, !.panel = panel, !.ticket = ticket]
  PROVE  /\ detail' \in DetailState /\ detail'.left = left /\ detail'.panel = panel
         /\ detail'.ticket = ticket /\ detail'.loading = detail.loading
BY DEF DetailOn, DetailType, DetailState

(* The answer to an action, or to the load after its conflict. *)
LEMMA RunArrivesInv ==
  ASSUME ApiTypeOK, UNCHANGED apiVars, DetailOn, NEW c \in runs, RunArrives(c)
  PROVE  DetailOn'
<1>1. /\ c \in RunCalls /\ c.mounted \in BOOLEAN /\ c.answer \in TicketAnswers \cup {NoTicket}
      /\ detail \in DetailState /\ detail.panel \in Panels
      /\ detail.ticket \in TicketAnswers \cup {NoTicket}
  BY RunFacts DEF DetailState
<1> DEFINE left == detail.left /\ runs # {c}
<1>2. left \in BOOLEAN /\ (left <=> detail.left /\ runs # {c})
  OBVIOUS
<1>3. CASE RunConflicts(c)
  <2> DEFINE d == [c EXCEPT !.refetch = TRUE, !.code = 0]
             conflict == detail.panel.conflict \/ c.mounted
             panel == [detail.panel EXCEPT !.conflict = conflict]
  <2>1. conflict \in BOOLEAN
    OBVIOUS
  <2>2. /\ detail' = [detail EXCEPT !.panel = panel]
        /\ runs' = (runs \ {c}) \cup {d} /\ gets' = gets
    BY <1>1, <1>3 DEF RunConflicts, DetailState, Panels
  <2>3. d \in RunCalls /\ d.mounted = c.mounted /\ d.answer = c.answer
    BY <1>1 DEF RunCalls
  <2> HIDE DEF d, conflict
  <2>4. panel \in Panels /\ panel.busy = detail.panel.busy
    BY <1>1, <2>1 DEF Panels
  <2> HIDE DEF panel
  <2>5. /\ detail' \in DetailState /\ detail'.panel = panel
        /\ \A f \in {"ticket", "loading", "left"} : detail'[f] = detail[f]
    BY <1>1, <2>2, <2>4 DEF DetailState
  <2> QED BY <2>2, <2>3, <2>4, <2>5, RunFacts, RunGoesOn, ApiUnchanged
<1>4. ASSUME NEW panel \in Panels, NEW ticket \in {detail.ticket, c.answer},
             panel.busy <=> ~c.mounted /\ detail.panel.busy,
             detail' = [detail EXCEPT !.left = left, !.panel = panel, !.ticket = ticket],
             gets' = gets, runs' = runs \ {c}
      PROVE  DetailOn'
  <2>1. ticket \in TicketAnswers \cup {NoTicket}
    BY <1>1
  <2> HIDE DEF left
  <2>2. /\ detail' \in DetailState /\ detail'.left = left /\ detail'.panel = panel
        /\ detail'.ticket = ticket /\ detail'.loading = detail.loading
    BY <1>2, <1>4, <2>1, PageAfterRun
  <2> QED BY <1>2, <1>4, <2>2, RunEnds
<1>5. CASE RunSucceeds(c)
  <2> DEFINE panel == IF c.mounted THEN FreshPanel ELSE detail.panel
  <2>1. panel \in Panels /\ (panel.busy <=> ~c.mounted /\ detail.panel.busy)
    BY <1>1, FreshPanelOK
  <2>2. /\ detail' = [detail EXCEPT !.left = left, !.panel = panel, !.ticket = c.answer]
        /\ gets' = gets /\ runs' = runs \ {c}
    BY <1>1, <1>5 DEF RunSucceeds, DetailState
  <2> QED BY <1>4, <2>1, <2>2
<1>6. CASE RunFails(c)
  <2> DEFINE panel == Idle(c, detail.panel)
  <2>1. panel \in Panels /\ (panel.busy <=> ~c.mounted /\ detail.panel.busy)
    BY <1>1, IdlePanel
  <2>2. detail' = [detail EXCEPT !.left = left, !.panel = panel, !.ticket = @]
    <3>1. detail' = [detail EXCEPT !.left = left, !.panel = panel]
      BY <1>6 DEF RunFails
    <3> HIDE DEF panel, left
    <3> QED BY <1>1, <3>1 DEF DetailState
  <2>3. gets' = gets /\ runs' = runs \ {c}
    BY <1>6 DEF RunFails
  <2> HIDE DEF panel, left
  <2> QED BY <1>4, <2>1, <2>2, <2>3
<1>7. CASE RefetchOver(c)
  <2> DEFINE ticket == IF c.code = 200 THEN c.answer ELSE detail.ticket
  <2>1. Idle(c, detail.panel) \in Panels
        /\ (Idle(c, detail.panel).busy <=> ~c.mounted /\ detail.panel.busy)
    BY <1>1, IdlePanel
  <2>2. /\ detail' = [detail EXCEPT !.left = left, !.panel = Idle(c, detail.panel),
                                    !.ticket = ticket]
        /\ gets' = gets /\ runs' = runs \ {c}
    BY <1>1, <1>7 DEF RefetchOver, DetailState
  <2> QED BY <1>4, <2>1, <2>2
<1> QED BY <1>3, <1>5, <1>6, <1>7 DEF RunArrives

(* Every step of the page preserves its invariant. *)
LEMMA DetailStepInv ==
  ASSUME ApiTypeOK, DetailInv, DetailStep
  PROVE  DetailOn /\ DetailOn' /\ ApiStep
<1>1. CASE DetailOff
  BY <1>1 DEF DetailOff, DetailNotMounted, DetailStep, DetailUser, DetailArrival,
     DetailServe, Open, SetActiveTab, TypeResolution, Run, PanelShown, TicketShown
<1>2. CASE DetailOn
  <2>1. CASE DetailUser /\ UNCHANGED apiVars
    BY <1>2, <2>1, OpenInv, SetActiveTabInv, TypeResolutionInv, RunInv, ApiUnchanged
       DEF DetailInv, DetailUser, Actions
  <2>2. CASE DetailArrival /\ UNCHANGED apiVars
    BY <1>2, <2>2, GetArrivesInv, RunArrivesInv, ApiUnchanged DEF DetailInv, DetailArrival
  <2>3. CASE DetailServe
    BY <1>2, <2>3, ServeGetInv, ServeRunInv, ReadUpdatedInv, ServeRefetchInv
       DEF DetailInv, DetailServe
  <2> QED BY <2>1, <2>2, <2>3 DEF DetailStep
<1> QED BY <1>1, <1>2 DEF DetailInv

(* The page goes back to no older version. *)
LEMMA DetailStepNewest ==
  ASSUME ApiTypeOK, DetailInv, DetailStep, TicketShown, TicketShown', ShownId' = ShownId,
         Shown'.version < Shown.version
  PROVE  detail.left
<1> SUFFICES ASSUME ~detail.left PROVE FALSE
  OBVIOUS
<1>1. DetailOn /\ detail \in DetailState /\ detail.ticket \in TicketAnswers
  <2>1. detail.mounted /\ detail.ticket # NoTicket
    BY DEF TicketShown, DetailScreen
  <2>2. DetailOn
    BY <2>1 DEF DetailInv, DetailOff, DetailNotMounted
  <2> QED BY <2>1, <2>2 DEF DetailOn, DetailType, DetailState
<1>2. Shown.version \in Nat
  BY <1>1 DEF TicketAnswers, Rows, Shown
<1>3. detail'.ticket # detail.ticket
  BY <1>2 DEF Shown
<1>4. ~detail.loading /\ detail.ticket # NoTicket /\ detail'.ticket # NoTicket
  BY DEF TicketShown, DetailScreen
<1>5. ASSUME NEW c \in gets, GetArrives(c) PROVE FALSE
  BY <1>1, <1>4, <1>5 DEF DetailOn, OneGet
<1>6. ASSUME NEW c \in runs, RunArrives(c) PROVE FALSE
  <2>1. detail'.ticket \in {detail.ticket, c.answer}
    <3>1. CASE RunSucceeds(c)
      BY <1>1, <3>1 DEF RunSucceeds, DetailState
    <3>2. CASE RunConflicts(c)
      BY <1>1, <3>2 DEF RunConflicts, DetailState
    <3>3. CASE RunFails(c)
      BY <1>1, <3>3 DEF RunFails, DetailState
    <3>4. CASE RefetchOver(c)
      BY <1>1, <3>4 DEF RefetchOver, DetailState
    <3> QED BY <1>6, <3>1, <3>2, <3>3, <3>4 DEF RunArrives
  <2>2. NotOlder(c.answer) /\ c.answer \in TicketAnswers \cup {NoTicket}
    BY <1>1, <1>4, RunFacts
  <2>3. detail'.ticket = c.answer
    BY <1>3, <2>1
  <2>4. c.answer.row.version \in Nat
    BY <1>4, <2>2, <2>3 DEF TicketAnswers, Rows
  <2> QED BY <1>2, <1>4, <2>2, <2>3, <2>4 DEF NotOlder, ShownId, Shown
<1>7. CASE DetailUser
  <2>1. ASSUME NEW id \in Tickets, Open(id) PROVE FALSE
    <3>1. detail'.loading
      BY <1>1, <2>1 DEF Open, DetailState
    <3> QED BY <3>1 DEF TicketShown, DetailScreen
  <2>2. ASSUME NEW op \in Actions, Run(op) PROVE FALSE
    <3>1. detail'.ticket = detail.ticket
      BY <1>1, <2>2 DEF Run, DetailState
    <3> QED BY <1>3, <3>1
  <2>3. ASSUME NEW tab \in Tabs, SetActiveTab(tab) PROVE FALSE
    <3>1. detail'.ticket = detail.ticket
      BY <1>1, <2>3 DEF SetActiveTab, DetailState
    <3> QED BY <1>3, <3>1
  <2>4. ASSUME TypeResolution PROVE FALSE
    <3>1. detail'.ticket = detail.ticket
      BY <1>1, <2>4 DEF TypeResolution, DetailState
    <3> QED BY <1>3, <3>1
  <2> QED BY <1>7, <2>1, <2>2, <2>3, <2>4 DEF DetailUser, Actions
<1>8. CASE DetailServe
  BY <1>3, <1>8 DEF DetailServe, ServeGet, ServeRun, ReadUpdated, ServeRefetch
<1> QED BY <1>5, <1>6, <1>7, <1>8 DEF DetailStep, DetailArrival

-----------------------------------------------------------------------------
(* The types of the tabs and their calls. *)
EventPage == [code : {200}, items : Seq(Nat), nextCursor : Nat]

SavedAnswer == [code : {200}, id : Nat]

FailedAnswer == [code |-> 500]

PageCalls ==
  [on : {TRUE}, cursor : Nat, answer : EventPage \cup {NoAnswer, FailedAnswer}]
    \cup {NoPageCall}

HistoryState ==
  [mounted : {TRUE}, events : Seq(Nat), nextCursor : Nat, loading : BOOLEAN,
   loadingMore : BOOLEAN, types : SUBSET EventTypes, call : PageCalls,
   seen : SUBSET Nat]

CommentsState ==
  [mounted : {TRUE}, events : Seq(Nat), message : {"", "texto"},
   phase : {"load", "create", "reload", "none"},
   answer : EventPage \cup SavedAnswer \cup {NoAnswer, FailedAnswer},
   sent : Nat]

(* The history: events that are numbered, some of them committed. *)
LogType == log \in Seq(EventTypes) /\ events \subseteq 1 .. Len(log)

(* A list of events in order, whose next page begins after `next`. *)
ListUpTo(list, next) ==
  /\ Increasing(list)
  /\ next \in events \cup {NoCursor}
  /\ next # NoCursor => \A i \in DOMAIN list : list[i] <= next

(* What such a list holds of the events that were seen. *)
HoldsUpTo(seen, list, cursor, next) ==
  \A e \in seen : cursor < e /\ (next = NoCursor \/ e <= next) => e \in Range(list)

(* The tab of the history while it is mounted. *)
HistoryOn ==
  /\ hist \in HistoryState
  /\ hist.loading \/ hist.loadingMore <=> hist.call.on
  /\ hist.loading => ~hist.loadingMore /\ hist.nextCursor = NoCursor
  /\ hist.call.on => hist.call.cursor = hist.nextCursor
  /\ hist.loadingMore => hist.nextCursor # NoCursor
  /\ hist.seen \subseteq events
  /\ ListUpTo(hist.events, hist.nextCursor)
  /\ ~hist.loading => HoldsUpTo(hist.seen, hist.events, NoCursor, hist.nextCursor)

(* The page in its answer. *)
HistoryPageOK ==
  hist.call.on /\ hist.call.answer.code = 200 =>
    LET items == hist.call.answer.items
        next == hist.call.answer.nextCursor
    IN /\ ListUpTo(items, next)
       /\ \A i \in DOMAIN items : hist.call.cursor < items[i]
       /\ next # NoCursor => hist.call.cursor < next
       /\ HoldsUpTo(hist.seen, items, hist.call.cursor, next)

(* A comment that is committed. *)
IsComment(e) == e \in events /\ log[e] = "comentario"

(* A comment is in the list, or others fill the page. *)
OnShow(sent, list) ==
  \/ sent \in Range(list)
  \/ Cardinality({e \in events : e < sent}) >= CommentsPage

(* The tab of the comments while it is mounted. *)
CommentsOn ==
  /\ comm \in CommentsState
  /\ comm.sent # 0 => IsComment(comm.sent)
  /\ comm.phase \in {"load", "create"} => comm.sent = 0
  /\ comm.phase = "create" /\ comm.answer.code = 200 =>
       comm.answer \in SavedAnswer /\ IsComment(comm.answer.id)
  /\ comm.phase \in {"load", "reload"} /\ comm.answer.code = 200 =>
       comm.answer \in EventPage /\ (comm.sent # 0 => OnShow(comm.sent, comm.answer.items))
  /\ comm.phase = "none" /\ comm.sent # 0 => OnShow(comm.sent, comm.events)

(* The two tabs, of which one is mounted, and their invariant. *)
HistoryTabOn == LogType /\ HistoryOn /\ HistoryPageOK /\ comm = NotMounted

CommentsTabOn == LogType /\ hist = NotMounted /\ CommentsOn

TabsOn == HistoryTabOn \/ CommentsTabOn

TabsInv == TabsOn \/ TabsOff

(* The codes of the answers. *)
LEMMA AnswerCodes ==
  /\ \A a \in EventPage : a.code = 200
  /\ \A a \in SavedAnswer : a.code = 200
  /\ NoAnswer.code = 0 /\ FailedAnswer.code = 500
BY DEF EventPage, SavedAnswer, NoAnswer, FailedAnswer

(* Events are numbers from 1 on. *)
LEMMA EventsType ==
  ASSUME LogType
  PROVE  /\ Len(log) \in Nat /\ DOMAIN log = 1 .. Len(log) /\ IsFiniteSet(events)
         /\ events \subseteq Nat \ {0} /\ \A e \in events : e \in Nat /\ 0 < e
<1>1. Len(log) \in Nat /\ DOMAIN log = 1 .. Len(log)
  BY LenProperties DEF LogType
<1>2. IsFiniteSet(events)
  <2>1. IsFiniteSet(1 .. Len(log))
    BY <1>1, FS_Interval
  <2> QED BY <2>1, FS_Subset DEF LogType
<1> QED BY <1>1, <1>2 DEF LogType

(* What a page of events promises. *)
EventsPageOK(cursor, limit, page) ==
  /\ page \in EventPage
  /\ ListUpTo(page.items, page.nextCursor)
  /\ \A i \in DOMAIN page.items : cursor < page.items[i] /\ page.items[i] \in events
  /\ page.nextCursor # NoCursor => cursor < page.nextCursor /\ Len(page.items) = limit
  /\ cursor \in events \cup {NoCursor} =>
       HoldsUpTo(events, page.items, cursor, page.nextCursor)

(* EventsPage keeps the promise. *)
LEMMA EventsPageProperties ==
  ASSUME LogType, NEW cursor \in Nat, NEW limit \in Nat \ {0}
  PROVE  EventsPageOK(cursor, limit, EventsPage(cursor, limit))
<1> DEFINE ids == PageIds(events, cursor, limit)
           next == NextCursor(ids, limit)
           page == EventsPage(cursor, limit)
<1>1. PageIdsOK(events, cursor, limit, ids, next)
  BY EventsType, PageIdsProperties
<1>2. next # NoCursor => Len(ids) = limit
  BY DEF NextCursor
<1>3. page = [code |-> 200, items |-> ids, nextCursor |-> next]
  BY DEF EventsPage, PageIds, NextCursor
<1> HIDE DEF ids, next
<1>4. ids \in Seq(Nat) /\ next \in Nat /\ \A i \in DOMAIN ids : ids[i] \in events
  <2>1. ids \in Seq(events) /\ next \in events \cup {NoCursor}
    BY <1>1 DEF PageIdsOK
  <2>2. \A i \in DOMAIN ids : ids[i] \in events
    BY <2>1, ElementOfSeq, LenProperties
  <2>3. Seq(events) \subseteq Seq(Nat)
    BY EventsType, SeqMonotonic
  <2> QED BY <2>1, <2>2, <2>3, EventsType DEF NoCursor
<1>5. page \in EventPage /\ page.items = ids /\ page.nextCursor = next
  BY <1>3, <1>4 DEF EventPage
<1> HIDE DEF page
<1>6. ListUpTo(ids, next)
  BY <1>1 DEF PageIdsOK, ListUpTo
<1>7. cursor \in events \cup {NoCursor} => HoldsUpTo(events, ids, cursor, next)
  BY <1>1 DEF PageIdsOK, HoldsUpTo, Range
<1>8. /\ \A i \in DOMAIN ids : cursor < ids[i]
      /\ next # NoCursor => cursor < next
  BY <1>1 DEF PageIdsOK
<1>9. EventsPageOK(cursor, limit, page)
  BY <1>2, <1>4, <1>5, <1>6, <1>7, <1>8 DEF EventsPageOK
<1> QED BY <1>9 DEF page

(* The events before a cursor, and those after it. *)
EventsUpTo(list, cursor) == \A i \in DOMAIN list : list[i] <= cursor

EventsBeyond(list, cursor) == \A i \in DOMAIN list : cursor < list[i]

(* A page after those before it. *)
LEMMA AppendEvents ==
  ASSUME NEW list \in Seq(Nat), NEW items \in Seq(Nat), NEW cursor \in Nat,
         Increasing(list), Increasing(items),
         EventsUpTo(list, cursor), EventsBeyond(items, cursor)
  PROVE  /\ list \o items \in Seq(Nat)
         /\ Increasing(list \o items)
         /\ \A n \in Nat : cursor <= n /\ EventsUpTo(items, n) => EventsUpTo(list \o items, n)
         /\ Range(list \o items) = Range(list) \cup Range(items)
<1> DEFINE all == list \o items
           m == Len(list)
           n == Len(items)
<1>0. m \in Nat /\ n \in Nat
  BY LenProperties
<1>1. /\ all \in Seq(Nat) /\ Len(all) = m + n /\ m \in Nat /\ n \in Nat
      /\ \A k \in 1 .. m + n : all[k] = IF k <= m THEN list[k] ELSE items[k - m]
  BY ConcatProperties, LenProperties
<1>2. DOMAIN all = 1 .. m + n /\ DOMAIN list = 1 .. m /\ DOMAIN items = 1 .. n
  BY <1>1, LenProperties
<1>3. (\A k \in 1 .. m : list[k] \in Nat) /\ (\A k \in 1 .. n : items[k] \in Nat)
  BY ElementOfSeq
<1> HIDE DEF all, m, n
<1>4. \A k \in 1 .. m + n :
        \/ k \in 1 .. m /\ all[k] = list[k]
        \/ k - m \in 1 .. n /\ ~ (k <= m) /\ all[k] = items[k - m]
  BY <1>1
<1>5. ASSUME NEW i \in 1 .. m + n, NEW j \in 1 .. m + n, i < j
      PROVE  all[i] < all[j]
  <2>1. CASE j <= m
    <3>1. i \in 1 .. m /\ j \in 1 .. m /\ all[i] = list[i] /\ all[j] = list[j]
      BY <2>1, <1>1, <1>5
    <3> QED BY <3>1, <1>2, <1>5 DEF Increasing
  <2>2. CASE i <= m /\ ~ (j <= m)
    <3>1. i \in 1 .. m /\ j - m \in 1 .. n /\ all[i] = list[i] /\ all[j] = items[j - m]
      BY <2>2, <1>1
    <3>2. list[i] <= cursor /\ cursor < items[j - m]
      BY <3>1, <1>2 DEF EventsUpTo, EventsBeyond
    <3> QED BY <3>1, <3>2, <1>3
  <2>3. CASE ~ (i <= m)
    <3>1. /\ i - m \in 1 .. n /\ j - m \in 1 .. n /\ i - m < j - m
          /\ all[i] = items[i - m] /\ all[j] = items[j - m]
      <4>1. ~ (j <= m) /\ i - m \in 1 .. n /\ j - m \in 1 .. n /\ i - m < j - m
        BY <2>3, <1>0, <1>5
      <4>2. all[i] = items[i - m]
        BY <2>3, <1>1
      <4>3. all[j] = items[j - m]
        BY <4>1, <1>1
      <4> QED BY <4>1, <4>2, <4>3
    <3> QED BY <3>1, <1>2 DEF Increasing
  <2> QED BY <2>1, <2>2, <2>3, <1>1, <1>5
<1>6. ASSUME NEW bound \in Nat, cursor <= bound, \A i \in 1 .. n : items[i] <= bound,
             NEW k \in 1 .. m + n
      PROVE  all[k] <= bound
  <2>1. CASE k \in 1 .. m /\ all[k] = list[k]
    <3>1. list[k] <= cursor /\ list[k] \in Nat
      BY <2>1, <1>2, <1>3 DEF EventsUpTo
    <3> QED BY <2>1, <3>1, <1>6
  <2>2. CASE k - m \in 1 .. n /\ all[k] = items[k - m]
    BY <2>2, <1>6
  <2> QED BY <2>1, <2>2, <1>4
<1>7. Range(all) = Range(list) \cup Range(items)
  <2>1. \A k \in 1 .. m + n : all[k] \in Range(list) \cup Range(items)
    BY <1>2, <1>4 DEF Range
  <2>2. \A k \in 1 .. m : k \in 1 .. m + n /\ all[k] = list[k]
    BY <1>1
  <2>3. \A k \in 1 .. n : k + m \in 1 .. m + n /\ all[k + m] = items[k]
    <3> SUFFICES ASSUME NEW k \in 1 .. n
                 PROVE  k + m \in 1 .. m + n /\ all[k + m] = items[k]
      OBVIOUS
    <3>1. k + m \in 1 .. m + n /\ ~ (k + m <= m) /\ (k + m) - m = k
      BY <1>0
    <3> QED BY <3>1, <1>1
  <2> QED BY <1>2, <2>1, <2>2, <2>3 DEF Range
<1> QED BY <1>1, <1>2, <1>5, <1>6, <1>7 DEF all, Increasing, EventsUpTo

-----------------------------------------------------------------------------
(* An empty list of events. *)
LEMMA EmptyList ==
  /\ <<>> \in Seq(Nat) /\ Increasing(<<>>) /\ DOMAIN <<>> = {}
BY DEF Increasing

(* The tabs are not touched. *)
LEMMA TabsStays ==
  ASSUME TabsInv, UNCHANGED tabVars
  PROVE  TabsInv'
<1>1. UNCHANGED <<log, events, hist, comm>>
  BY DEF tabVars
<1>2. CASE HistoryTabOn
  BY <1>1, <1>2 DEF TabsInv, TabsOn, HistoryTabOn, LogType, HistoryOn, HistoryPageOK, ListUpTo,
                    HoldsUpTo
<1>3. CASE CommentsTabOn
  BY <1>1, <1>3 DEF TabsInv, TabsOn, CommentsTabOn, LogType, CommentsOn, OnShow, IsComment
<1>4. CASE TabsOff
  BY <1>1, <1>4 DEF TabsInv, TabsOn, TabsOff
<1> QED BY <1>2, <1>3, <1>4 DEF TabsInv, TabsOn

(* The tabs are left. *)
LEMMA TabsLeave ==
  ASSUME TabsUnmount
  PROVE  TabsInv'
BY DEF TabsUnmount, TabsInv, TabsOff

(* The tab of the history as it is mounted. *)
LEMMA HistoryOpens ==
  ASSUME hist' = HistoryMounted, comm' = NotMounted, LogType'
  PROVE  TabsOn'
<1>1. PageCall(NoCursor) \in PageCalls /\ PageCall(NoCursor).on
      /\ PageCall(NoCursor).cursor = NoCursor /\ PageCall(NoCursor).answer = NoAnswer
  BY DEF PageCall, PageCalls, NoCursor
<1>2. hist' \in HistoryState
  BY <1>1, EmptyList DEF HistoryMounted, HistoryState, NoCursor
<1>3. /\ hist'.loading /\ ~hist'.loadingMore /\ hist'.nextCursor = NoCursor
      /\ hist'.seen = {} /\ hist'.events = <<>> /\ hist'.call = PageCall(NoCursor)
  BY DEF HistoryMounted
<1>4. HistoryOn'
  BY <1>1, <1>2, <1>3, EmptyList DEF HistoryOn, ListUpTo
<1>5. HistoryPageOK'
  BY <1>1, <1>3, AnswerCodes DEF HistoryPageOK
<1> QED BY <1>4, <1>5 DEF TabsInv, TabsOn, HistoryTabOn

(* The page of a ticket with one event is mounted. *)
LEMMA TabsMounts ==
  ASSUME TabsMount
  PROVE  TabsOn'
<1>1. <<"otro">> \in Seq(EventTypes) /\ Len(<<"otro">>) = 1
  BY DEF EventTypes
<1>2. LogType'
  BY <1>1 DEF TabsMount, LogType
<1> QED BY <1>2, HistoryOpens DEF TabsMount

(* The tab of the comments as it is mounted. *)
LEMMA CommentsOpens ==
  ASSUME LogType, UNCHANGED <<log, events>>, hist' = NotMounted, comm' = CommentsMounted
  PROVE  TabsOn'
<1>1. comm' \in CommentsState
  BY EmptyList DEF CommentsMounted, CommentsState
<1>2. comm'.sent = 0 /\ comm'.phase = "load" /\ comm'.answer = NoAnswer
  BY DEF CommentsMounted
<1>3. CommentsOn'
  BY <1>1, <1>2, AnswerCodes DEF CommentsOn
<1>4. LogType'
  BY DEF LogType
<1> QED BY <1>3, <1>4 DEF TabsInv, TabsOn, CommentsTabOn

(* The history grows, and both tabs stay as they were. *)
LEMMA LogGrows ==
  ASSUME TabsOn, LogType', events \subseteq events',
         \A e \in DOMAIN log : log'[e] = log[e], UNCHANGED <<hist, comm>>
  PROVE  TabsOn'
<1>1. LogType
  BY DEF TabsInv, TabsOn, HistoryTabOn, CommentsTabOn
<1>2. \A e : IsComment(e) => IsComment(e)'
  BY <1>1, EventsType DEF IsComment, LogType
<1>3. \A sent, list : OnShow(sent, list) => OnShow(sent, list)'
  <2> SUFFICES ASSUME NEW sent, Cardinality({e \in events : e < sent}) >= CommentsPage
               PROVE  Cardinality({e \in events' : e < sent}) >= CommentsPage
    BY DEF OnShow
  <2> DEFINE A == {e \in events : e < sent}
             B == {e \in events' : e < sent}
  <2>1. A \subseteq B
    OBVIOUS
  <2>2. IsFiniteSet(events')
    <3>1. Len(log') \in Nat
      BY LenProperties DEF LogType
    <3>2. IsFiniteSet(1 .. Len(log'))
      BY <3>1, FS_Interval
    <3> QED BY <3>2, FS_Subset DEF LogType
  <2>3. IsFiniteSet(B)
    BY <2>2, FS_Subset
  <2> HIDE DEF A, B
  <2>4. Cardinality(A) \in Nat /\ Cardinality(B) \in Nat /\ Cardinality(A) <= Cardinality(B)
    BY <2>1, <2>3, FS_Subset, FS_CardinalityType
  <2> QED BY <2>4, TabsAssumption DEF A, B
<1>4. CASE HistoryTabOn
  BY <1>4 DEF TabsInv, TabsOn, HistoryTabOn, HistoryOn, HistoryPageOK, ListUpTo, HoldsUpTo
<1>5. CASE CommentsTabOn
  BY <1>2, <1>3, <1>5 DEF TabsInv, TabsOn, CommentsTabOn, CommentsOn
<1> QED BY <1>4, <1>5 DEF TabsInv, TabsOn

(* An event takes its number. *)
LEMMA EventBeginsInv ==
  ASSUME TabsInv, EventBegins
  PROVE  TabsOn'
<1>1. log # <<>> /\ UNCHANGED <<events, hist, comm>> /\ ~TabsOff
  BY DEF EventBegins, TabsOff
<1>2. TabsOn /\ LogType
  BY <1>1 DEF TabsInv, TabsOn, HistoryTabOn, CommentsTabOn
<1>3. PICK type \in EventTypes : log' = Append(log, type)
  BY DEF EventBegins
<1>4. /\ log' \in Seq(EventTypes) /\ Len(log') = Len(log) + 1
      /\ \A e \in 1 .. Len(log) : log'[e] = log[e]
  BY <1>2, <1>3, AppendProperties DEF LogType
<1>5. LogType'
  BY <1>1, <1>2, <1>4, EventsType DEF LogType
<1> QED BY <1>1, <1>2, <1>4, <1>5, EventsType, LogGrows

(* An event is committed. *)
LEMMA EventCommitsInv ==
  ASSUME TabsInv, EventCommits
  PROVE  TabsOn'
<1>1. PICK e \in DOMAIN log \ events : events' = events \cup {e}
  BY DEF EventCommits
<1>2. UNCHANGED <<log, hist, comm>>
  BY DEF EventCommits
<1>3. ~TabsOff
  BY <1>1, EmptyList DEF TabsOff
<1>4. TabsOn /\ LogType
  BY <1>3 DEF TabsInv, TabsOn, HistoryTabOn, CommentsTabOn
<1>5. LogType'
  BY <1>1, <1>2, <1>4, EventsType DEF LogType
<1> QED BY <1>1, <1>2, <1>4, <1>5, LogGrows

-----------------------------------------------------------------------------
(* HistoryTab *)

(* A click on "Cargar más". *)
LEMMA HandleLoadMoreInv ==
  ASSUME HistoryTabOn, HandleLoadMore
  PROVE  HistoryTabOn'
<1> DEFINE call == PageCall(hist.nextCursor)
<1>1. hist \in HistoryState /\ UNCHANGED <<log, events, comm>>
      /\ ~hist.loading /\ hist.nextCursor # NoCursor
  BY DEF HandleLoadMore, HistoryTabOn, HistoryOn, HistoryMoreOffered, HistoryShown
<1>2. call \in PageCalls /\ call.on /\ call.cursor = hist.nextCursor /\ call.answer = NoAnswer
  BY <1>1 DEF PageCall, PageCalls, HistoryState
<1>3. hist' = [hist EXCEPT !.loadingMore = TRUE, !.call = call]
  BY DEF HandleLoadMore
<1> HIDE DEF call
<1>4. /\ hist' \in HistoryState /\ hist'.loadingMore = TRUE /\ hist'.call = call
      /\ \A f \in {"events", "nextCursor", "loading", "seen"} : hist'[f] = hist[f]
  BY <1>1, <1>2, <1>3 DEF HistoryState
<1>5. /\ hist'.events = hist.events /\ hist'.nextCursor = hist.nextCursor
      /\ hist'.loading = hist.loading /\ hist'.seen = hist.seen
  BY <1>4
<1>6. HistoryOn'
  BY <1>1, <1>2, <1>4, <1>5 DEF HistoryTabOn, HistoryOn, ListUpTo, HoldsUpTo
<1>7. HistoryPageOK'
  BY <1>2, <1>4, AnswerCodes DEF HistoryPageOK
<1> QED BY <1>1, <1>6, <1>7 DEF HistoryTabOn, LogType

(* A click on a type of event. *)
LEMMA ToggleTypeInv ==
  ASSUME HistoryTabOn, NEW type \in EventTypes, ToggleType(type)
  PROVE  HistoryTabOn'
<1> DEFINE types == IF type \in hist.types THEN hist.types \ {type} ELSE hist.types \cup {type}
<1>1. hist \in HistoryState /\ UNCHANGED <<log, events, comm>>
  BY DEF ToggleType, HistoryTabOn, HistoryOn
<1>2. types \in SUBSET EventTypes
  BY <1>1 DEF HistoryState
<1>3. hist' = [hist EXCEPT !.types = types]
  BY DEF ToggleType
<1> HIDE DEF types
<1>4. /\ hist' \in HistoryState
      /\ \A f \in {"events", "nextCursor", "loading", "loadingMore", "seen", "call"} :
           hist'[f] = hist[f]
  BY <1>1, <1>2, <1>3 DEF HistoryState
<1>5. /\ hist'.events = hist.events /\ hist'.nextCursor = hist.nextCursor
      /\ hist'.loading = hist.loading /\ hist'.loadingMore = hist.loadingMore
      /\ hist'.seen = hist.seen /\ hist'.call = hist.call
  BY <1>4
<1> QED BY <1>1, <1>4, <1>5 DEF HistoryTabOn, HistoryOn, HistoryPageOK, ListUpTo, HoldsUpTo,
          LogType

(* The call of the tab. *)
LEMMA CallType ==
  ASSUME HistoryOn, hist.call.on
  PROVE  /\ hist.call \in [on : {TRUE}, cursor : Nat,
                           answer : EventPage \cup {NoAnswer, FailedAnswer}]
         /\ hist.call.cursor \in events \cup {NoCursor}
<1>1. hist.call \in PageCalls /\ hist.call # NoPageCall
  BY DEF HistoryOn, HistoryState, NoPageCall
<1> QED BY <1>1 DEF PageCalls, HistoryOn, ListUpTo

(* The API answers with a page of events, or fails. *)
LEMMA ServePageInv ==
  ASSUME HistoryTabOn, ServePage
  PROVE  HistoryTabOn'
<1> DEFINE cursor == hist.call.cursor
<1>1. /\ hist \in HistoryState /\ UNCHANGED <<log, events, comm>> /\ hist.call.on
      /\ LogType /\ cursor \in Nat /\ cursor \in events \cup {NoCursor}
  BY CallType DEF ServePage, HistoryTabOn, HistoryOn
<1>2. CASE hist' = [hist EXCEPT !.call.answer = EventsPage(hist.call.cursor, HistoryPage),
                               !.seen = IF hist.call.cursor = NoCursor THEN events ELSE @]
  <2> DEFINE page == EventsPage(cursor, HistoryPage)
             seen == IF cursor = NoCursor THEN events ELSE hist.seen
             call == [hist.call EXCEPT !.answer = page]
  <2>1. EventsPageOK(cursor, HistoryPage, page)
    BY <1>1, EventsPageProperties, TabsAssumption
  <2>2. seen \in SUBSET Nat /\ seen \subseteq events
    BY <1>1, EventsType DEF HistoryTabOn, HistoryOn
  <2>3. hist' = [hist EXCEPT !.call = call, !.seen = seen]
    BY <1>1, <1>2 DEF HistoryState
  <2>4. cursor = NoCursor => hist.loading
    BY <1>1 DEF HistoryTabOn, HistoryOn
  <2>5. cursor # NoCursor => seen = hist.seen
    OBVIOUS
  <2> HIDE DEF page, seen
  <2>6. /\ call \in PageCalls /\ call.on = TRUE /\ call.cursor = cursor
        /\ call.answer = page
    BY <1>1, <2>1, CallType DEF PageCalls, EventsPageOK, HistoryTabOn
  <2> HIDE DEF call
  <2>7. /\ hist' \in HistoryState /\ hist'.call = call /\ hist'.seen = seen
        /\ hist'.events = hist.events /\ hist'.nextCursor = hist.nextCursor
        /\ hist'.loading = hist.loading /\ hist'.loadingMore = hist.loadingMore
    BY <1>1, <2>2, <2>3, <2>6 DEF HistoryState
  <2>8. HistoryOn'
    BY <1>1, <2>2, <2>4, <2>5, <2>6, <2>7 DEF HistoryTabOn, HistoryOn, ListUpTo, HoldsUpTo
  <2>9. HistoryPageOK'
    BY <1>1, <2>1, <2>2, <2>6, <2>7 DEF HistoryPageOK, EventsPageOK, ListUpTo, HoldsUpTo
  <2> QED BY <1>1, <2>8, <2>9 DEF HistoryTabOn, LogType
<1>3. CASE hist' = [hist EXCEPT !.call.answer = [code |-> 500]]
  <2> DEFINE call == [hist.call EXCEPT !.answer = FailedAnswer]
  <2>1. hist' = [hist EXCEPT !.call = call]
    BY <1>1, <1>3 DEF HistoryState, FailedAnswer
  <2>2. /\ call \in PageCalls /\ call.on = TRUE /\ call.cursor = cursor
        /\ call.answer = FailedAnswer
    BY <1>1, CallType DEF PageCalls, HistoryTabOn
  <2> HIDE DEF call
  <2>3. /\ hist' \in HistoryState /\ hist'.call = call /\ hist'.seen = hist.seen
        /\ hist'.events = hist.events /\ hist'.nextCursor = hist.nextCursor
        /\ hist'.loading = hist.loading /\ hist'.loadingMore = hist.loadingMore
    BY <1>1, <2>1, <2>2 DEF HistoryState
  <2>4. HistoryOn'
    BY <1>1, <2>2, <2>3 DEF HistoryTabOn, HistoryOn, ListUpTo, HoldsUpTo
  <2>5. HistoryPageOK'
    BY <2>2, <2>3, AnswerCodes DEF HistoryPageOK
  <2> QED BY <1>1, <2>4, <2>5 DEF HistoryTabOn, LogType
<1> QED BY <1>2, <1>3 DEF ServePage

(* A page that arrives is appended, or is the first. *)
LEMMA PageLoads ==
  ASSUME LogType, HistoryOn, HistoryPageOK, hist.call.on, hist.call.answer.code = 200
  PROVE  LET answer == hist.call.answer
             list == IF hist.call.cursor = NoCursor THEN answer.items
                     ELSE hist.events \o answer.items
         IN /\ list \in Seq(Nat) /\ answer.nextCursor \in Nat
            /\ ListUpTo(list, answer.nextCursor)
            /\ HoldsUpTo(hist.seen, list, NoCursor, answer.nextCursor)
<1> DEFINE answer == hist.call.answer
           items == answer.items
           next == answer.nextCursor
           cursor == hist.call.cursor
<1>1. /\ answer \in EventPage /\ cursor \in Nat /\ cursor = hist.nextCursor
      /\ hist \in HistoryState
  <2>1. answer \in EventPage \cup {NoAnswer, FailedAnswer} /\ cursor \in Nat
    BY CallType
  <2>2. answer \in EventPage
    BY <2>1, AnswerCodes
  <2> QED BY <2>1, <2>2 DEF HistoryOn
<1>2. items \in Seq(Nat) /\ next \in Nat /\ hist.events \in Seq(Nat)
  BY <1>1 DEF EventPage, HistoryState
<1>3. /\ ListUpTo(items, next) /\ \A i \in DOMAIN items : cursor < items[i]
      /\ next # NoCursor => cursor < next
      /\ HoldsUpTo(hist.seen, items, cursor, next)
  BY DEF HistoryPageOK
<1> HIDE DEF answer
<1>4. CASE cursor = NoCursor
  BY <1>2, <1>3, <1>4 DEF answer
<1>5. CASE cursor # NoCursor
  <2>1. /\ ListUpTo(hist.events, cursor)
        /\ HoldsUpTo(hist.seen, hist.events, NoCursor, cursor)
    BY <1>1, <1>5 DEF HistoryOn
  <2> DEFINE list == hist.events \o items
  <2> HIDE DEF items, next, cursor
  <2>2. /\ list \in Seq(Nat) /\ Increasing(list)
        /\ \A n \in Nat : cursor <= n /\ EventsUpTo(items, n) => EventsUpTo(list, n)
        /\ Range(list) = Range(hist.events) \cup Range(items)
    <3>1. /\ Increasing(hist.events) /\ Increasing(items)
          /\ EventsUpTo(hist.events, cursor) /\ EventsBeyond(items, cursor)
      BY <1>3, <1>5, <2>1 DEF ListUpTo, EventsUpTo, EventsBeyond
    <3> QED BY <1>1, <1>2, <3>1, AppendEvents
  <2> HIDE DEF list
  <2>3. ListUpTo(list, next)
    <3>1. next \in events \cup {NoCursor}
      BY <1>3 DEF ListUpTo
    <3>2. ASSUME next # NoCursor PROVE EventsUpTo(list, next)
      <4>1. cursor <= next /\ EventsUpTo(items, next)
        BY <1>1, <1>2, <1>3, <3>2 DEF ListUpTo, EventsUpTo
      <4> QED BY <1>2, <2>2, <4>1
    <3> QED BY <2>2, <3>1, <3>2 DEF ListUpTo, EventsUpTo
  <2>4. HoldsUpTo(hist.seen, list, NoCursor, next)
    <3> SUFFICES ASSUME NEW e \in hist.seen, NoCursor < e, next = NoCursor \/ e <= next
                 PROVE  e \in Range(hist.events) \cup Range(items)
      BY <2>2 DEF HoldsUpTo
    <3>1. e \in Nat
      BY EventsType DEF HistoryOn
    <3>2. CASE e <= cursor
      BY <3>2, <2>1 DEF HoldsUpTo
    <3>3. CASE cursor < e
      BY <3>3, <1>3 DEF HoldsUpTo
    <3> QED BY <3>1, <3>2, <3>3, <1>1
  <2> QED BY <1>2, <1>5, <2>2, <2>3, <2>4 DEF list, items, next, cursor, answer
<1> QED BY <1>4, <1>5

(* The answer to the call of the tab. *)
LEMMA PageArrivesInv ==
  ASSUME HistoryTabOn, PageArrives
  PROVE  HistoryTabOn'
<1> DEFINE answer == hist.call.answer
<1>1. /\ hist \in HistoryState /\ UNCHANGED <<log, events, comm>> /\ hist.call.on
      /\ LogType /\ HistoryOn /\ HistoryPageOK /\ comm = NotMounted
  BY DEF PageArrives, HistoryTabOn, HistoryOn
<1>2. ASSUME NEW list \in Seq(Nat), NEW next \in Nat, NEW seen \in SUBSET Nat,
             seen \subseteq events, ListUpTo(list, next),
             HoldsUpTo(seen, list, NoCursor, next),
             hist' = [hist EXCEPT !.events = list, !.nextCursor = next, !.seen = seen,
                                  !.call = NoPageCall, !.loading = FALSE,
                                  !.loadingMore = FALSE]
      PROVE  HistoryTabOn'
  <2>1. NoPageCall \in PageCalls /\ ~NoPageCall.on
    BY DEF PageCalls, NoPageCall
  <2>2. /\ hist' \in HistoryState /\ hist'.events = list /\ hist'.nextCursor = next
        /\ hist'.seen = seen /\ hist'.call = NoPageCall
        /\ hist'.loading = FALSE /\ hist'.loadingMore = FALSE
    BY <1>1, <1>2, <2>1 DEF HistoryState
  <2>3. HistoryOn' /\ HistoryPageOK'
    BY <1>1, <1>2, <2>1, <2>2 DEF HistoryOn, HistoryPageOK, ListUpTo, HoldsUpTo
  <2> QED BY <1>1, <2>3 DEF HistoryTabOn, LogType
<1>3. CASE answer.code = 200
  <2> DEFINE list == IF hist.call.cursor = NoCursor THEN answer.items
                     ELSE hist.events \o answer.items
  <2>1. /\ list \in Seq(Nat) /\ answer.nextCursor \in Nat
        /\ ListUpTo(list, answer.nextCursor)
        /\ HoldsUpTo(hist.seen, list, NoCursor, answer.nextCursor)
    BY <1>1, <1>3, PageLoads
  <2>2. hist' = [hist EXCEPT !.events = list, !.nextCursor = answer.nextCursor,
                             !.seen = hist.seen, !.call = NoPageCall,
                             !.loading = FALSE, !.loadingMore = FALSE]
    BY <1>1, <1>3 DEF PageArrives, LoadPage, HistoryState
  <2>3. hist.seen \in SUBSET Nat /\ hist.seen \subseteq events
    BY <1>1 DEF HistoryOn, HistoryState
  <2> HIDE DEF list, answer
  <2> QED BY <1>2, <2>1, <2>2, <2>3
<1>4. CASE answer.code # 200
  <2> DEFINE seen == IF hist.loading THEN {} ELSE hist.seen
  <2>1. /\ seen \in SUBSET Nat /\ seen \subseteq events
        /\ hist.events \in Seq(Nat) /\ hist.nextCursor \in Nat
        /\ ListUpTo(hist.events, hist.nextCursor)
    BY <1>1 DEF HistoryOn, HistoryState
  <2>2. HoldsUpTo(seen, hist.events, NoCursor, hist.nextCursor)
    BY <1>1 DEF HistoryOn, HoldsUpTo
  <2>3. hist' = [hist EXCEPT !.events = hist.events, !.nextCursor = hist.nextCursor,
                             !.seen = seen, !.call = NoPageCall,
                             !.loading = FALSE, !.loadingMore = FALSE]
    BY <1>1, <1>4 DEF PageArrives, HistoryState
  <2> HIDE DEF seen
  <2> QED BY <1>2, <2>1, <2>2, <2>3
<1> QED BY <1>3, <1>4

-----------------------------------------------------------------------------
(* CommentsTab *)

(* What the state of the tab may become while the history stays. *)
LEMMA CommentsChange ==
  ASSUME CommentsTabOn, UNCHANGED <<log, events, hist>>, comm' \in CommentsState,
         comm'.sent # 0 => IsComment(comm'.sent),
         comm'.phase \in {"load", "create"} => comm'.sent = 0,
         comm'.phase = "create" /\ comm'.answer.code = 200 =>
           comm'.answer \in SavedAnswer /\ IsComment(comm'.answer.id),
         comm'.phase \in {"load", "reload"} /\ comm'.answer.code = 200 =>
           comm'.answer \in EventPage
             /\ (comm'.sent # 0 => OnShow(comm'.sent, comm'.answer.items)),
         comm'.phase = "none" /\ comm'.sent # 0 => OnShow(comm'.sent, comm'.events)
  PROVE  CommentsTabOn'
<1>1. /\ \A e : IsComment(e) => IsComment(e)'
      /\ \A sent, list : OnShow(sent, list) => OnShow(sent, list)'
  BY DEF IsComment, OnShow
<1>2. CommentsOn'
  BY <1>1 DEF CommentsOn
<1> QED BY <1>2 DEF CommentsTabOn, LogType

(* A message is typed. *)
LEMMA TypeMessageInv ==
  ASSUME CommentsTabOn, TypeMessage
  PROVE  CommentsTabOn'
<1> DEFINE message == IF comm.message = "" THEN "texto" ELSE ""
<1>1. comm \in CommentsState /\ comm' = [comm EXCEPT !.message = message]
      /\ UNCHANGED <<log, events, hist>>
  BY DEF TypeMessage, CommentsTabOn, CommentsOn
<1>2. message \in {"", "texto"}
  OBVIOUS
<1> HIDE DEF message
<1>3. /\ comm' \in CommentsState /\ comm'.events = comm.events /\ comm'.phase = comm.phase
      /\ comm'.answer = comm.answer /\ comm'.sent = comm.sent
  BY <1>1, <1>2 DEF CommentsState
<1> QED BY <1>1, <1>3, CommentsChange DEF CommentsTabOn, CommentsOn

(* The message is sent. *)
LEMMA HandleSubmitInv ==
  ASSUME CommentsTabOn, HandleSubmit
  PROVE  CommentsTabOn'
<1>1. /\ comm \in CommentsState /\ UNCHANGED <<log, events, hist>>
      /\ comm' = [comm EXCEPT !.phase = "create", !.answer = NoAnswer, !.sent = 0]
  BY DEF HandleSubmit, CommentsTabOn, CommentsOn
<1>2. /\ comm' \in CommentsState /\ comm'.phase = "create"
      /\ comm'.answer = NoAnswer /\ comm'.sent = 0
  BY <1>1 DEF CommentsState
<1> QED BY <1>1, <1>2, AnswerCodes, CommentsChange

(* What the history is once a comment is saved. *)
LEMMA SavedProperties ==
  ASSUME LogType, Saved
  PROVE  /\ LogType' /\ events \subseteq events' /\ \A e \in DOMAIN log : log'[e] = log[e]
         /\ Len(log') \in Nat /\ Len(log') \in events' /\ log'[Len(log')] = "comentario"
<1>1. /\ log' \in Seq(EventTypes) /\ Len(log') = Len(log) + 1
      /\ \A e \in 1 .. Len(log) : log'[e] = log[e]
      /\ log'[Len(log) + 1] = "comentario"
  BY AppendProperties DEF Saved, LogType, EventTypes
<1>2. Len(log) \in Nat /\ DOMAIN log = 1 .. Len(log)
  BY EventsType
<1>3. events' = events \cup {Len(log) + 1} /\ events \subseteq 1 .. Len(log)
  BY DEF Saved, LogType
<1>4. 1 .. Len(log') = (1 .. Len(log)) \cup {Len(log) + 1}
  BY <1>1, <1>2
<1>5. Len(log') \in Nat /\ Len(log') \in events' /\ events' \subseteq 1 .. Len(log')
  <2>1. Len(log) + 1 \in Nat /\ Len(log') = Len(log) + 1
    BY <1>1, <1>2
  <2>2. events' \subseteq (1 .. Len(log)) \cup {Len(log) + 1}
    BY <1>3
  <2> QED BY <1>3, <1>4, <2>1, <2>2
<1>6. \A e \in DOMAIN log : log'[e] = log[e]
  BY <1>1, <1>2
<1>7. log'[Len(log')] = "comentario"
  BY <1>1
<1> QED BY <1>1, <1>3, <1>5, <1>6, <1>7 DEF LogType

(* The API saves the comment, or fails. *)
LEMMA ServeCommentInv ==
  ASSUME CommentsTabOn, ServeComment
  PROVE  CommentsTabOn'
<1>1. /\ comm \in CommentsState /\ hist' = hist /\ hist = NotMounted
      /\ comm.phase = "create" /\ comm.sent = 0 /\ LogType
  BY DEF ServeComment, CommentsTabOn, CommentsOn
<1>2. ASSUME NEW a \in SavedAnswer \cup {FailedAnswer},
             comm' = [comm EXCEPT !.answer = a], LogType',
             a \in SavedAnswer => IsComment(a.id)'
      PROVE  CommentsTabOn'
  <2>1. /\ comm' \in CommentsState /\ comm'.phase = "create"
        /\ comm'.answer = a /\ comm'.sent = 0
    BY <1>1, <1>2 DEF CommentsState
  <2>2. a.code = 200 => a \in SavedAnswer
    BY <1>2, AnswerCodes
  <2>3. CommentsOn'
    BY <1>2, <2>1, <2>2 DEF CommentsOn
  <2> QED BY <1>1, <1>2, <2>3 DEF CommentsTabOn
<1>3. CASE Saved /\ comm' = [comm EXCEPT !.answer = [code |-> 200, id |-> Len(log')]]
  <2>1. /\ LogType' /\ Len(log') \in Nat /\ Len(log') \in events'
        /\ log'[Len(log')] = "comentario"
    BY <1>1, <1>3, SavedProperties
  <2>2. PICK id \in Nat : id = Len(log')
    BY <2>1
  <2> DEFINE a == [code |-> 200, id |-> id]
  <2>3. a \in SavedAnswer /\ a.id = id
    BY DEF SavedAnswer
  <2>4. IsComment(id)'
    BY <2>1, <2>2 DEF IsComment
  <2>5. comm' = [comm EXCEPT !.answer = a]
    BY <1>3, <2>2
  <2> HIDE DEF a
  <2> QED BY <1>2, <2>1, <2>3, <2>4, <2>5
<1>4. CASE comm' = [comm EXCEPT !.answer = [code |-> 500]] /\ (Saved \/ UNCHANGED <<log, events>>)
  <2>1. LogType'
    BY <1>1, <1>4, SavedProperties DEF LogType
  <2>2. FailedAnswer \notin SavedAnswer
    BY AnswerCodes
  <2> QED BY <1>2, <1>4, <2>1, <2>2 DEF FailedAnswer
<1> QED BY <1>3, <1>4 DEF ServeComment

(* The only page the tab reads holds a comment unless it is full before it. *)
LEMMA FirstPageShows ==
  ASSUME LogType, NEW e \in events
  PROVE  OnShow(e, EventsPage(NoCursor, CommentsPage).items)
<1> DEFINE page == EventsPage(NoCursor, CommentsPage)
           items == page.items
           next == page.nextCursor
           n == Len(items)
           below == {d \in events : d < e}
<1>1. EventsPageOK(NoCursor, CommentsPage, page)
  BY EventsPageProperties, TabsAssumption DEF NoCursor
<1> HIDE DEF page
<1>2. e \in Nat /\ NoCursor < e /\ \A d \in events : d \in Nat
  BY EventsType DEF NoCursor
<1>3. CASE next = NoCursor \/ e <= next
  BY <1>1, <1>2, <1>3 DEF EventsPageOK, HoldsUpTo, OnShow, page
<1>4. CASE next # NoCursor /\ next < e
  <2>1. /\ items \in Seq(Nat) /\ n = CommentsPage /\ Increasing(items)
        /\ \A i \in DOMAIN items : items[i] \in events /\ items[i] <= next /\ items[i] \in Nat
        /\ next \in Nat
    BY <1>1, <1>2, <1>4 DEF EventsPageOK, EventPage, ListUpTo
  <2>2. n \in Nat /\ DOMAIN items = 1 .. n
    BY <2>1, LenProperties
  <2> HIDE DEF items, n, next
  <2>3. items \in Injection(1 .. n, below)
    <3>1. \A i \in 1 .. n : items[i] \in below
      BY <2>1, <2>2, <1>2, <1>4
    <3>2. items = [i \in 1 .. n |-> items[i]]
      BY <2>1, <2>2, SeqDef
    <3>3. items \in [1 .. n -> below]
      <4> HIDE DEF below
      <4> QED BY <3>1, <3>2
    <3>4. \A i, j \in 1 .. n : items[i] = items[j] => i = j
      <4> SUFFICES ASSUME NEW i \in 1 .. n, NEW j \in 1 .. n, i < j \/ j < i
                   PROVE  items[i] # items[j]
        BY <2>2
      <4>1. items[i] < items[j] \/ items[j] < items[i]
        BY <2>2, <2>1 DEF Increasing
      <4> QED BY <4>1, <2>1, <2>2
    <3> HIDE DEF below
    <3> QED BY <3>3, <3>4 DEF Injection, IsInjective
  <2>4. IsFiniteSet(below)
    BY EventsType, FS_Subset
  <2>5. Cardinality(1 .. n) = n
    BY <2>2, FS_Interval
  <2> HIDE DEF below
  <2>6. Cardinality(1 .. n) <= Cardinality(below)
    BY <2>3, <2>4, FS_Injection
  <2>7. Cardinality(below) >= CommentsPage
    BY <2>1, <2>2, <2>4, <2>5, <2>6, FS_CardinalityType
  <2> QED BY <2>7 DEF OnShow, below
<1>5. next \in Nat
  BY <1>1 DEF EventsPageOK, EventPage
<1> QED BY <1>2, <1>3, <1>4, <1>5

(* The API answers with the first page of comments, or fails. *)
LEMMA ServeCommentsInv ==
  ASSUME CommentsTabOn, ServeComments
  PROVE  CommentsTabOn'
<1> DEFINE page == EventsPage(NoCursor, CommentsPage)
<1>1. /\ comm \in CommentsState /\ UNCHANGED <<log, events, hist>> /\ LogType
      /\ comm.phase \in {"load", "reload"} /\ (comm.sent # 0 => IsComment(comm.sent))
      /\ comm.phase = "load" => comm.sent = 0
  BY DEF ServeComments, CommentsTabOn, CommentsOn
<1>2. page \in EventPage
  BY <1>1, EventsPageProperties, TabsAssumption DEF EventsPageOK, NoCursor
<1>3. comm.sent # 0 => OnShow(comm.sent, page.items)
  BY <1>1, FirstPageShows DEF IsComment
<1> HIDE DEF page
<1>4. ASSUME NEW a \in {page, FailedAnswer}, comm' = [comm EXCEPT !.answer = a]
      PROVE  CommentsTabOn'
  <2>1. a \in EventPage \cup {FailedAnswer}
    BY <1>2
  <2>2. /\ comm' \in CommentsState /\ comm'.phase = comm.phase
        /\ comm'.answer = a /\ comm'.sent = comm.sent
    BY <1>1, <1>4, <2>1 DEF CommentsState
  <2>3. a.code = 200 => a = page
    BY AnswerCodes
  <2> QED BY <1>1, <1>2, <1>3, <2>2, <2>3, CommentsChange
<1> QED BY <1>4 DEF ServeComments, page, FailedAnswer

(* The answer to the comment, which reloads the list. *)
LEMMA CommentSavedInv ==
  ASSUME CommentsTabOn, CommentSaved
  PROVE  CommentsTabOn'
<1>1. /\ comm \in CommentsState /\ UNCHANGED <<log, events, hist>>
      /\ comm.answer \in SavedAnswer /\ IsComment(comm.answer.id)
      /\ comm' = [comm EXCEPT !.message = "", !.phase = "reload",
                             !.answer = NoAnswer, !.sent = comm.answer.id]
  BY DEF CommentSaved, CommentsTabOn, CommentsOn
<1>2. comm.answer.id \in Nat
  BY <1>1 DEF SavedAnswer
<1>3. /\ comm' \in CommentsState /\ comm'.phase = "reload"
      /\ comm'.answer = NoAnswer /\ comm'.sent = comm.answer.id
  BY <1>1, <1>2 DEF CommentsState
<1> QED BY <1>1, <1>3, AnswerCodes, CommentsChange

(* The comment failed. *)
LEMMA CommentFailsInv ==
  ASSUME CommentsTabOn, CommentFails
  PROVE  CommentsTabOn'
<1>1. /\ comm \in CommentsState /\ UNCHANGED <<log, events, hist>> /\ comm.sent = 0
      /\ comm' = [comm EXCEPT !.phase = "none"]
  BY DEF CommentFails, CommentsTabOn, CommentsOn
<1>2. comm' \in CommentsState /\ comm'.phase = "none" /\ comm'.sent = 0
  BY <1>1 DEF CommentsState
<1> QED BY <1>1, <1>2, CommentsChange

(* The list arrives. *)
LEMMA CommentsArriveInv ==
  ASSUME CommentsTabOn, CommentsArrive
  PROVE  CommentsTabOn'
<1>1. /\ comm \in CommentsState /\ UNCHANGED <<log, events, hist>>
      /\ comm.phase \in {"load", "reload"}
      /\ comm.sent # 0 => IsComment(comm.sent)
      /\ comm.answer.code = 200 =>
           comm.answer \in EventPage
             /\ (comm.sent # 0 => OnShow(comm.sent, comm.answer.items))
  BY DEF CommentsArrive, CommentsTabOn, CommentsOn
<1>2. CASE comm.answer.code = 200
  <2>1. comm' = [comm EXCEPT !.phase = "none", !.events = comm.answer.items]
    BY <1>2 DEF CommentsArrive
  <2>2. comm.answer.items \in Seq(Nat)
    BY <1>1, <1>2 DEF EventPage
  <2>3. /\ comm' \in CommentsState /\ comm'.phase = "none"
        /\ comm'.events = comm.answer.items /\ comm'.sent = comm.sent
    BY <1>1, <2>1, <2>2 DEF CommentsState
  <2> QED BY <1>1, <1>2, <2>3, CommentsChange
<1>3. CASE comm.answer.code # 200
  <2>1. comm' = [comm EXCEPT !.phase = "none", !.sent = 0]
    BY <1>3 DEF CommentsArrive
  <2>2. comm' \in CommentsState /\ comm'.phase = "none" /\ comm'.sent = 0
    BY <1>1, <2>1 DEF CommentsState
  <2> QED BY <1>1, <2>2, CommentsChange
<1> QED BY <1>2, <1>3

-----------------------------------------------------------------------------
(* The tabs leave the rows alone. *)
LEMMA TabsServeApi ==
  ASSUME ApiTypeOK, TabsServe
  PROVE  ApiStep
<1>1. UNCHANGED <<row, made, role, changes>> /\ (UNCHANGED faults \/ Fault)
  BY DEF TabsServe, ServePage, ServeComment, ServeComments
<1> QED BY <1>1, ApiFault, ApiUnchanged DEF apiVars

(* A step of the tab of the history. *)
LEMMA HistoryStep ==
  ASSUME HistoryTabOn, TabsUser \/ TabsArrival \/ TabsServe
  PROVE  TabsOn'
<1>1. ~comm.mounted /\ LogType
  BY DEF HistoryTabOn, NotMounted
<1>2. CASE TabComentarios
  BY <1>1, <1>2, CommentsOpens DEF TabComentarios
<1>3. \/ TabComentarios \/ HandleLoadMore \/ PageArrives \/ ServePage
      \/ \E type \in EventTypes : ToggleType(type)
  BY <1>1 DEF TabsUser, TabsArrival, TabsServe, TabHistorial, TypeMessage, CommentsShown,
              HandleSubmit, CommentSaved, CommentFails, CommentsArrive, ServeComment,
              ServeComments
<1> QED BY <1>2, <1>3, HandleLoadMoreInv, ToggleTypeInv, PageArrivesInv, ServePageInv
        DEF TabsInv, TabsOn

(* A step of the tab of the comments. *)
LEMMA CommentsStep ==
  ASSUME CommentsTabOn, TabsUser \/ TabsArrival \/ TabsServe
  PROVE  TabsOn'
<1>1. ~hist.mounted /\ LogType
  BY DEF CommentsTabOn, NotMounted
<1>2. CASE TabHistorial
  <2>1. LogType'
    BY <1>1, <1>2 DEF TabHistorial, LogType
  <2> QED BY <1>2, <2>1, HistoryOpens DEF TabHistorial
<1>3. \/ TabHistorial \/ TypeMessage \/ HandleSubmit \/ CommentSaved \/ CommentFails
      \/ CommentsArrive \/ ServeComment \/ ServeComments
  BY <1>1 DEF TabsUser, TabsArrival, TabsServe, TabComentarios, HandleLoadMore,
              HistoryMoreOffered, HistoryShown, ToggleType, PageArrives, ServePage
<1> QED BY <1>2, <1>3, TypeMessageInv, HandleSubmitInv, CommentSavedInv, CommentFailsInv,
           CommentsArriveInv, ServeCommentInv, ServeCommentsInv DEF TabsInv, TabsOn

(* Every step of the tabs preserves their invariant. *)
LEMMA TabsStepInv ==
  ASSUME ApiTypeOK, TabsInv, TabsStep
  PROVE  TabsOn /\ TabsOn' /\ ApiStep
<1>1. ApiStep
  <2>1. CASE TabsServe
    BY <2>1, TabsServeApi
  <2>2. CASE UNCHANGED apiVars
    BY <2>2, ApiUnchanged
  <2> QED BY <2>1, <2>2 DEF TabsStep
<1>2. CASE EventBegins \/ EventCommits
  <2>1. ~TabsOff
    BY <1>2, EmptyList DEF EventBegins, EventCommits, TabsOff
  <2> QED BY <1>1, <1>2, <2>1, EventBeginsInv, EventCommitsInv DEF TabsInv
<1>3. CASE TabsUser \/ TabsArrival \/ TabsServe
  <2>1. ~TabsOff
    <3>1. hist.mounted \/ comm.mounted
      <4>1. CASE TabsUser
        BY <4>1 DEF TabsUser, TabHistorial, TabComentarios, HandleLoadMore,
           HistoryMoreOffered, HistoryShown, ToggleType, TypeMessage, CommentsShown,
           HandleSubmit
      <4>2. CASE TabsArrival
        BY <4>2 DEF TabsArrival, PageArrives, CommentSaved, CommentFails, CommentsArrive
      <4>3. CASE TabsServe
        BY <4>3 DEF TabsServe, ServePage, ServeComment, ServeComments
      <4> QED BY <1>3, <4>1, <4>2, <4>3
    <3> QED BY <3>1 DEF TabsOff, NotMounted
  <2> QED BY <1>1, <1>3, <2>1, HistoryStep, CommentsStep DEF TabsInv, TabsOn
<1>4. EventBegins \/ EventCommits \/ TabsUser \/ TabsArrival \/ TabsServe
  BY DEF TabsStep
<1> QED BY <1>1, <1>2, <1>3, <1>4

(* What the invariant says of the two tabs. *)
LEMMA HistoryOK ==
  ASSUME TabsInv
  PROVE  HistoryIsComplete
<1> SUFFICES ASSUME hist.mounted
             PROVE  /\ Increasing(hist.events)
                    /\ HistoryShown /\ hist.nextCursor = NoCursor =>
                         hist.seen \subseteq Range(hist.events)
  BY DEF HistoryIsComplete
<1>1. HistoryOn /\ LogType
  BY DEF TabsInv, TabsOn, HistoryTabOn, CommentsTabOn, TabsOff, NotMounted
<1>2. \A e \in hist.seen : NoCursor < e
  BY <1>1, EventsType DEF HistoryOn, NoCursor
<1> QED BY <1>1, <1>2 DEF HistoryOn, ListUpTo, HistoryShown, HoldsUpTo

(* What it says of the comments. *)
LEMMA CommentsOK ==
  ASSUME TabsInv
  PROVE  SentCommentIsShown
<1> SUFFICES ASSUME comm.mounted, ~submitting, comm.sent # 0
             PROVE  \/ comm.sent \in Comments
                    \/ Cardinality({e \in events : e < comm.sent}) >= CommentsPage
  BY DEF SentCommentIsShown
<1>1. CommentsOn /\ comm \in CommentsState
  BY DEF TabsInv, TabsOn, HistoryTabOn, CommentsTabOn, TabsOff, NotMounted, CommentsOn
<1>2. comm.phase = "none"
  BY <1>1 DEF CommentsOn, CommentsState, submitting
<1> QED BY <1>1, <1>2 DEF CommentsOn, OnShow, IsComment, Comments

-----------------------------------------------------------------------------
(* The invariant of the client *)

(***************************************************************************)
(* The page of the route is mounted, with what it keeps as it should be,   *)
(* and nothing is left of the others.                                      *)
(***************************************************************************)
PagesInv ==
  /\ IF route = "queue" THEN QueueOn ELSE QueueOff
  /\ IF route = "sla" THEN SlaOn ELSE SlaOff
  /\ IF route = "detail" THEN DetailOn ELSE DetailOff
  /\ IF route = "events" THEN TabsOn ELSE TabsOff
  /\ IF route = "reports" THEN ReportsOn ELSE ReportsOff

(* The inductive invariant. *)
WebInv == ApiTypeOK /\ route \in Routes /\ PagesInv

(* A page is mounted when it is on, and not when it is off. *)
LEMMA WhichIsMounted ==
  /\ (QueueOn => queue.mounted) /\ (QueueOff => ~queue.mounted)
  /\ (SlaOn => sla.mounted) /\ (SlaOff => ~sla.mounted)
  /\ (DetailOn => detail.mounted) /\ (DetailOff => ~detail.mounted)
  /\ (ReportsOn => reports.mounted) /\ (ReportsOff => ~reports.mounted)
  /\ (HistoryTabOn => hist.mounted /\ ~comm.mounted)
  /\ (CommentsTabOn => ~hist.mounted /\ comm.mounted)
  /\ (TabsOff => ~hist.mounted /\ ~comm.mounted)
<1>1. /\ \A s \in QueueState : s.mounted
      /\ \A s \in SlaState : s.mounted
      /\ \A s \in DetailState : s.mounted
      /\ \A s \in ReportsState : s.mounted
      /\ \A s \in HistoryState : s.mounted
      /\ \A s \in CommentsState : s.mounted
  BY DEF QueueState, SlaState, DetailState, ReportsState, HistoryState, CommentsState
<1>2. (QueueOn => queue.mounted) /\ (QueueOff => ~queue.mounted)
  BY <1>1 DEF QueueOn, QueueType, QueueOff, QueueNotMounted
<1>3. (SlaOn => sla.mounted) /\ (SlaOff => ~sla.mounted)
  BY <1>1 DEF SlaOn, SlaType, SlaOff, SlaNotMounted
<1>4. (DetailOn => detail.mounted) /\ (DetailOff => ~detail.mounted)
  BY <1>1 DEF DetailOn, DetailType, DetailOff, DetailNotMounted
<1>5. (ReportsOn => reports.mounted) /\ (ReportsOff => ~reports.mounted)
  BY <1>1 DEF ReportsOn, ReportsType, ReportsOff, ReportsNotMounted
<1>6. HistoryTabOn => hist.mounted /\ ~comm.mounted
  BY <1>1 DEF HistoryTabOn, HistoryOn, NotMounted
<1>7. CommentsTabOn => ~hist.mounted /\ comm.mounted
  BY <1>1 DEF CommentsTabOn, CommentsOn, NotMounted
<1>8. TabsOff => ~hist.mounted /\ ~comm.mounted
  BY DEF TabsOff, NotMounted
<1> QED BY <1>2, <1>3, <1>4, <1>5, <1>6, <1>7, <1>8

(* Each page has its invariant. *)
LEMMA PagesHaveInv ==
  ASSUME WebInv
  PROVE  QueueInv /\ SlaInv /\ DetailInv /\ TabsInv /\ ReportsInv
BY DEF WebInv, PagesInv, QueueInv, SlaInv, DetailInv, TabsInv, ReportsInv

-----------------------------------------------------------------------------
(* A page that a step leaves alone stays on, or off, while the rows change *)
(* as the API lets them.                                                   *)
LEMMA QueueIsLeft ==
  ASSUME WebInv, ApiStep, UNCHANGED queueVars
  PROVE  (QueueOn => QueueOn') /\ (QueueOff => QueueOff')
<1>1. QueueInv' /\ queue' = queue
  BY PagesHaveInv, QueueStays DEF WebInv, queueVars
<1>2. QueueOn => ~QueueOff'
  BY <1>1, WhichIsMounted DEF QueueOff, QueueNotMounted
<1>3. QueueOff => QueueOff'
  BY DEF QueueOff, queueVars
<1> QED BY <1>1, <1>2, <1>3 DEF QueueInv

(* The same of the board. *)
LEMMA SlaIsLeft ==
  ASSUME WebInv, ApiStep, UNCHANGED slaVars
  PROVE  (SlaOn => SlaOn') /\ (SlaOff => SlaOff')
<1>1. SlaInv' /\ sla' = sla
  BY PagesHaveInv, SlaStays DEF WebInv, slaVars
<1>2. SlaOn => ~SlaOff'
  BY <1>1, WhichIsMounted DEF SlaOff, SlaNotMounted
<1>3. SlaOff => SlaOff'
  BY DEF SlaOff, slaVars
<1> QED BY <1>1, <1>2, <1>3 DEF SlaInv

(* The same of the page of a ticket. *)
LEMMA DetailIsLeft ==
  ASSUME WebInv, ApiStep, UNCHANGED detailVars
  PROVE  (DetailOn => DetailOn') /\ (DetailOff => DetailOff')
<1>1. DetailInv' /\ detail' = detail
  BY PagesHaveInv, DetailStays DEF WebInv, detailVars
<1>2. DetailOn => ~DetailOff'
  BY <1>1, WhichIsMounted DEF DetailOff, DetailNotMounted
<1>3. DetailOff => DetailOff'
  BY DEF DetailOff, detailVars
<1> QED BY <1>1, <1>2, <1>3 DEF DetailInv

(* The same of the reports. *)
LEMMA ReportsIsLeft ==
  ASSUME WebInv, ApiStep, UNCHANGED reportVars
  PROVE  (ReportsOn => ReportsOn') /\ (ReportsOff => ReportsOff')
<1>1. ReportsInv' /\ reports' = reports
  BY PagesHaveInv, ReportsStays DEF WebInv, reportVars
<1>2. ReportsOn => ~ReportsOff'
  BY <1>1, WhichIsMounted DEF ReportsOff, ReportsNotMounted
<1>3. ReportsOff => ReportsOff'
  BY DEF ReportsOff, reportVars
<1> QED BY <1>1, <1>2, <1>3 DEF ReportsInv

(* The same of the tabs, whose history only grows while the page of their  *)
(* ticket is on.                                                           *)
LEMMA TabsAreLeft ==
  ASSUME WebInv, UNCHANGED tabVars
  PROVE  (TabsOn => TabsOn') /\ (TabsOff => TabsOff')
<1>1. TabsInv' /\ hist' = hist /\ comm' = comm
  BY PagesHaveInv, TabsStays DEF tabVars
<1>2. TabsOn => ~TabsOff'
  BY <1>1, WhichIsMounted DEF TabsOn, TabsOff, NotMounted
<1>3. TabsOff => TabsOff'
  BY DEF TabsOff, tabVars
<1> QED BY <1>1, <1>2, <1>3 DEF TabsInv

(* The browser is opened at the queue. *)
LEMMA InitWebInv ==
  ASSUME Init
  PROVE  WebInv
<1>1. ApiTypeOK
  <2>1. /\ MaxFaults \in Nat /\ StartRows \subseteq [Tickets -> Ticket]
        /\ StartMade \subseteq SUBSET Tickets
    BY ApiAssumption
  <2> QED BY <2>1 DEF Init, ApiInit, ApiTypeOK, RowOK
<1>2. QueueOn
  BY QueueMounts DEF Init
<1> QED BY <1>1, <1>2 DEF Init, WebInv, PagesInv, Routes

(* A change of page. *)
LEMMA NavigateInv ==
  ASSUME WebInv, NEW r \in Routes, Navigate(r)
  PROVE  WebInv'
<1>1. ApiTypeOK /\ UNCHANGED apiVars /\ route' = r
  BY DEF WebInv, Navigate
<1>2. ApiTypeOK'
  BY <1>1, ApiUnchanged DEF ApiStep
<1>3. IF r = "queue" THEN QueueOn' ELSE QueueOff'
  BY QueueMounts DEF Navigate, QueueUnmount, QueueOff
<1>4. IF r = "sla" THEN SlaOn' ELSE SlaOff'
  BY <1>1, SlaMounts DEF Navigate, SlaUnmount, SlaOff
<1>5. IF r = "detail" THEN DetailOn' ELSE DetailOff'
  BY DetailMounts DEF Navigate, DetailUnmount, DetailOff
<1>6. IF r = "events" THEN TabsOn' ELSE TabsOff'
  BY TabsMounts DEF Navigate, TabsUnmount, TabsOff
<1>7. IF r = "reports" THEN ReportsOn' ELSE ReportsOff'
  BY <1>1, ReportsMounts DEF Navigate, ReportsUnmount, ReportsOff
<1> QED BY <1>1, <1>2, <1>3, <1>4, <1>5, <1>6, <1>7 DEF WebInv, PagesInv

(* What a step of the page that is mounted leaves alone is as it was. *)
LEMMA NextWebInv ==
  ASSUME WebInv, [Next]_vars
  PROVE  WebInv'
<1>0. ApiTypeOK /\ route \in Routes /\ PagesInv
  BY DEF WebInv
<1>1. CASE \E r \in Routes : Navigate(r)
  BY <1>1, NavigateInv
<1>2. CASE OnQueue /\ UNCHANGED route
  <2>1. /\ QueueOn /\ QueueOn' /\ ApiStep
        /\ UNCHANGED <<slaVars, detailVars, tabVars, reportVars>>
    BY <1>0, <1>2, PagesHaveInv, QueueStepInv DEF OnQueue
  <2>2. route = "queue" /\ route' = route
    BY <1>0, <1>2, <2>1, WhichIsMounted DEF PagesInv
  <2> QED BY <1>0, <2>1, <2>2, SlaIsLeft, DetailIsLeft, TabsAreLeft, ReportsIsLeft
          DEF WebInv, PagesInv, ApiStep
<1>3. CASE OnSla /\ UNCHANGED route
  <2>1. /\ SlaOn /\ SlaOn' /\ ApiStep
        /\ UNCHANGED <<queueVars, detailVars, tabVars, reportVars>>
    BY <1>0, <1>3, PagesHaveInv, SlaStepInv DEF OnSla
  <2>2. route = "sla" /\ route' = route
    BY <1>0, <1>3, <2>1, WhichIsMounted DEF PagesInv
  <2> QED BY <1>0, <2>1, <2>2, QueueIsLeft, DetailIsLeft, TabsAreLeft, ReportsIsLeft
          DEF WebInv, PagesInv, ApiStep
<1>4. CASE OnDetail /\ UNCHANGED route
  <2>1. /\ DetailOn /\ DetailOn' /\ ApiStep
        /\ UNCHANGED <<queueVars, slaVars, tabVars, reportVars>>
    BY <1>0, <1>4, PagesHaveInv, DetailStepInv DEF OnDetail
  <2>2. route = "detail" /\ route' = route
    BY <1>0, <1>4, <2>1, WhichIsMounted DEF PagesInv
  <2> QED BY <1>0, <2>1, <2>2, QueueIsLeft, SlaIsLeft, TabsAreLeft, ReportsIsLeft
          DEF WebInv, PagesInv, ApiStep
<1>5. CASE OnEvents /\ UNCHANGED route
  <2>1. /\ TabsOn /\ TabsOn' /\ ApiStep
        /\ UNCHANGED <<queueVars, slaVars, detailVars, reportVars>>
    BY <1>0, <1>5, PagesHaveInv, TabsStepInv DEF OnEvents
  <2>2. route = "events" /\ route' = route
    BY <1>0, <1>5, <2>1, WhichIsMounted DEF PagesInv, TabsOn
  <2> QED BY <1>0, <2>1, <2>2, QueueIsLeft, SlaIsLeft, DetailIsLeft, ReportsIsLeft
          DEF WebInv, PagesInv, ApiStep
<1>6. CASE OnReports /\ UNCHANGED route
  <2>1. /\ ReportsOn /\ ReportsOn' /\ ApiStep
        /\ UNCHANGED <<queueVars, slaVars, detailVars, tabVars>>
    BY <1>0, <1>6, PagesHaveInv, ReportsStepInv DEF OnReports
  <2>2. route = "reports" /\ route' = route
    BY <1>0, <1>6, <2>1, WhichIsMounted DEF PagesInv
  <2> QED BY <1>0, <2>1, <2>2, QueueIsLeft, SlaIsLeft, DetailIsLeft, TabsAreLeft
          DEF WebInv, PagesInv, ApiStep
<1>7. CASE (Outside \/ UNCHANGED vars) /\ UNCHANGED route
  <2>1. UNCHANGED <<queueVars, slaVars, detailVars, tabVars, reportVars>>
    BY <1>7 DEF Outside, vars
  <2>2. ApiStep
    BY <1>0, <1>7, ElsewhereStep, ApiUnchanged DEF Outside, vars
  <2> QED BY <1>0, <1>7, <2>1, <2>2, QueueIsLeft, SlaIsLeft, DetailIsLeft, TabsAreLeft,
             ReportsIsLeft DEF WebInv, PagesInv, ApiStep
<1> QED BY <1>1, <1>2, <1>3, <1>4, <1>5, <1>6, <1>7 DEF Next, vars

-----------------------------------------------------------------------------
(* Theorems *)

(* The inductive invariant holds in every reachable state. *)
THEOREM Invariance == Spec => []WebInv
<1>1. Init => WebInv
  BY InitWebInv
<1>2. WebInv /\ [Next]_vars => WebInv'
  BY NextWebInv
<1> QED BY <1>1, <1>2, PTL DEF Spec

(***************************************************************************)
(* Type correctness: one page is mounted, that of the route, and all the   *)
(* rows on show are rows of the API.                                       *)
(***************************************************************************)
THEOREM TypeCorrect == Spec => []TypeOK
<1>1. WebInv => TypeOK
  <2> SUFFICES ASSUME WebInv PROVE TypeOK
    OBVIOUS
  <2>1. /\ queue.mounted <=> route = "queue"
        /\ sla.mounted <=> route = "sla"
        /\ detail.mounted <=> route = "detail"
        /\ (hist.mounted \/ comm.mounted) <=> route = "events"
        /\ ~(hist.mounted /\ comm.mounted)
        /\ reports.mounted <=> route = "reports"
    BY WhichIsMounted DEF WebInv, PagesInv, TabsOn
  <2>2. queue.mounted => \A i \in DOMAIN queue.tickets : queue.tickets[i] \in Rows
    BY <2>1, RowsOfSeq DEF WebInv, PagesInv, QueueOn, QueueType, QueueState
  <2>3. sla.mounted => \A i \in DOMAIN sla.tickets : sla.tickets[i] \in Rows
    BY <2>1, RowsOfSeq DEF WebInv, PagesInv, SlaOn, SlaType, SlaState
  <2> QED BY <2>1, <2>2, <2>3 DEF TypeOK, WebInv, ApiTypeOK, RowOK
<1> QED BY <1>1, Invariance, PTL

(***************************************************************************)
(* What a page shows as under way has a call in flight that ends it,       *)
(* whatever fails or is overtaken, with the two exceptions the property    *)
(* names: "Cargar más" of the queue when a reload overtook it, and the     *)
(* spinner of a board whose first load failed.                             *)
(***************************************************************************)
THEOREM SpinnersHaveCalls == Spec => []EverySpinnerHasACall
<1>1. WebInv => EverySpinnerHasACall
  <2> SUFFICES ASSUME WebInv PROVE EverySpinnerHasACall
    OBVIOUS
  <2>1. queue.mounted => QueueWaits
    BY WhichIsMounted DEF WebInv, PagesInv, QueueOn
  <2>2. sla.mounted /\ sla.assigning => slaAssign.on \/ (slaLoad.on /\ slaLoad.awaited)
    BY WhichIsMounted DEF WebInv, PagesInv, SlaOn, SlaWaits
  <2>6. sla.mounted /\ ~sla.loaded => slaLoad.on \/ sla.failed
    BY WhichIsMounted DEF WebInv, PagesInv, SlaOn, SlaWaits
  <2>3. detail.mounted => DetailWaits
    BY WhichIsMounted DEF WebInv, PagesInv, DetailOn, OneGet, OneMountedRun, DetailWaits
  <2>4. hist.mounted => (hist.loading \/ hist.loadingMore <=> hist.call.on)
    BY WhichIsMounted DEF WebInv, PagesInv, TabsOn, HistoryTabOn, HistoryOn, CommentsTabOn,
       NotMounted
  <2>5. reports.mounted => /\ reports.loading <=> repLoad.on
                           /\ reports.downloading <=> csv.on
    BY WhichIsMounted DEF WebInv, PagesInv, ReportsOn
  <2> QED BY <2>1, <2>2, <2>3, <2>4, <2>5, <2>6 DEF EverySpinnerHasACall
<1> QED BY <1>1, Invariance, PTL

(***************************************************************************)
(* The last reload wins: the first page on show was asked for with its     *)
(* filters, and every further one with those or with the filters that are  *)
(* set, for any number of tickets, changes and failures.                   *)
(***************************************************************************)
THEOREM ReloadsWin == Spec => []LastReloadWins
<1>1. WebInv => LastReloadWins
  BY WhichIsMounted DEF WebInv, PagesInv, QueueOn, ShownIsAsked, LastReloadWins
<1> QED BY <1>1, Invariance, PTL

(***************************************************************************)
(* The rows of the queue are in order and none is there twice, though each *)
(* page of them is read when the tickets are not what they were.           *)
(***************************************************************************)
THEOREM QueueKeepsOrder == Spec => []QueueIsInOrder
<1>1. WebInv => QueueIsInOrder
  BY WhichIsMounted
     DEF WebInv, PagesInv, QueueOn, RowsInOrder, InOrder, Increasing, QueueIsInOrder
<1> QED BY <1>1, Invariance, PTL

(***************************************************************************)
(* A load of the board that ends shows every ticket that may be listed and *)
(* was made when it began, and none twice, but for those that moved.       *)
(***************************************************************************)
THEOREM BoardsAreExact == Spec => BoardIsExact
<1>1. WebInv /\ [Next]_vars =>
        [LoadSucceeds =>
           LET moved == {t \in Tickets : slaLoad.from[t] # row[t].status}
           IN /\ \A t \in Tickets \ moved : Times(t, sla'.tickets) <= 1
              /\ moved = {} => \A t \in Visible \cap slaLoad.there :
                   row[t].status # "resuelto"
                     /\ Cardinality(WithStatus(row[t].status)) <= MAX_TICKETS
                   => Times(t, sla'.tickets) = 1]_vars
  BY LoadEndsExact, PagesHaveInv DEF WebInv
<1> QED BY <1>1, Invariance, PTL DEF Spec, BoardIsExact

(***************************************************************************)
(* The page of a ticket goes back to no older version of it, in whatever   *)
(* order the answers to its loads and its actions come, unless a panel was *)
(* left with an action in flight.                                          *)
(***************************************************************************)
THEOREM NewestStays == Spec => NewestStaysOnShow
<1>1. WebInv /\ [Next]_vars =>
        [detail.mounted /\ detail'.mounted /\ TicketShown /\ TicketShown'
           /\ ShownId' = ShownId /\ Shown'.version < Shown.version
         => detail.left]_vars
  <2> SUFFICES ASSUME WebInv, Next, detail.mounted, detail'.mounted, TicketShown,
                      TicketShown', ShownId' = ShownId, Shown'.version < Shown.version
               PROVE  detail.left
    OBVIOUS
  <2>1. route = "detail" /\ DetailOn
    BY WhichIsMounted DEF WebInv, PagesInv
  <2>2. CASE DetailStep
    BY <2>2, PagesHaveInv, DetailStepNewest DEF WebInv
  <2>3. CASE \E r \in Routes : Navigate(r)
    BY <2>1, <2>3 DEF Navigate, DetailUnmount, DetailNotMounted
  <2>4. CASE UNCHANGED detailVars
    <3>1. detail' = detail
      BY <2>4 DEF detailVars
    <3>2. detail.ticket # NoTicket
      BY DEF TicketShown, DetailScreen
    <3>3. Shown.version \in Nat
      BY <2>1, <3>2 DEF DetailOn, DetailType, DetailState, TicketAnswers, Rows, Shown
    <3> QED BY <3>1, <3>3 DEF Shown
  <2> QED BY <2>2, <2>3, <2>4
          DEF Next, OnQueue, OnSla, OnDetail, OnEvents, OnReports, Outside
<1> QED BY <1>1, Invariance, PTL DEF Spec, NewestStaysOnShow

(***************************************************************************)
(* The history on show is in order, without repetitions, and holds in the  *)
(* end every event that was there when it was first read.                  *)
(***************************************************************************)
THEOREM HistoriesAreComplete == Spec => []HistoryIsComplete
<1>1. WebInv => HistoryIsComplete
  BY PagesHaveInv, HistoryOK
<1> QED BY <1>1, Invariance, PTL

(***************************************************************************)
(* A comment that was sent is on show, unless those before it fill the one *)
(* page that is read.                                                      *)
(***************************************************************************)
THEOREM CommentsAreShown == Spec => []SentCommentIsShown
<1>1. WebInv => SentCommentIsShown
  BY PagesHaveInv, CommentsOK
<1> QED BY <1>1, Invariance, PTL

(***************************************************************************)
(* The figures of the reports count no ticket twice, and in a period that  *)
(* holds no more than the limit leave out none that was made when the walk *)
(* began.                                                                  *)
(***************************************************************************)
THEOREM ReportsAreExact == Spec => []ReportIsExact
<1>1. WebInv => ReportIsExact
  BY PagesHaveInv, ReportOK DEF WebInv
<1> QED BY <1>1, Invariance, PTL

(***************************************************************************)
(* The file has no ticket twice and none that is not resolved.  Of those   *)
(* that were resolved when it was begun it has all up to its last row, and *)
(* all there are if its stream ended by itself.                            *)
(***************************************************************************)
THEOREM FilesAreExact == Spec => []FileIsExact
<1>1. WebInv => FileIsExact
  BY PagesHaveInv, FileOK
<1> QED BY <1>1, Invariance, PTL
=============================================================================
