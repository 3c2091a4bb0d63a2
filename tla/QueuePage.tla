----------------------------- MODULE QueuePage -----------------------------
(***************************************************************************)
(* The ticket queue (QueuePage.tsx): filters, a list that is loaded page   *)
(* by page, and a button on every row that assigns the ticket to the user. *)
(*                                                                         *)
(* A handler runs without interruption up to its await.  Its call is then  *)
(* in flight: the API serves it at one instant, and the answer arrives at  *)
(* a later one, in any order with other answers.  A call keeps what the    *)
(* closure of its render held.                                             *)
(***************************************************************************)
EXTENDS TicketApi

CONSTANTS
  Selections,   \* values of the selects and of "Solo míos" together
  QueueLimit,   \* DEFAULT_LIMIT of the API
  MaxAssigns    \* bound: assign calls in flight

ASSUME QueueAssumption ==
  /\ "all" \in Selections /\ Selections \subseteq {"all", "abierto", "mine"}
  /\ QueueLimit \in Nat \ {0}
  /\ MaxAssigns \in Nat

VARIABLES
  queue,     \* the state of the page
  lists,     \* its calls of GET /v1/tickets in flight
  assigns    \* its calls of POST /v1/tickets/:id/assign in flight

queueVars == <<queue, lists, assigns>>

(* q is the search after its debounce: "" or the text the model knows. *)
Searches == {"", "texto"}

Filters == [sel : Selections, q : Searches]

INITIAL_FILTERS == [sel |-> "all", q |-> ""]

Pending == [code |-> 0]

QueueNotMounted == [mounted |-> FALSE]

(***************************************************************************)
(* The last four are not in the code: the filters the pages on show were   *)
(* asked for with, those of the last reload, whether it failed, and whether *)
(* a reload has overtaken a load-more.                                     *)
(***************************************************************************)
QueueMounted ==
  [mounted |-> TRUE, filters |-> INITIAL_FILTERS, qInput |-> "", tickets |-> <<>>,
   nextCursor |-> NoCursor, loading |-> TRUE, loadingMore |-> FALSE,
   assigningId |-> NoTicket,
   shownFor |-> {}, asked |-> INITIAL_FILTERS,
   failed |-> FALSE, overtaken |-> FALSE]

ListCall(more, filters, cursor) ==
  [more |-> more, filters |-> filters, cursor |-> cursor, answer |-> Pending]

FirstPageCall(filters) == ListCall(FALSE, filters, NoCursor)

QueueOpened ==
  queue = QueueMounted /\ lists = {FirstPageCall(INITIAL_FILTERS)} /\ assigns = {}

QueueMount ==
  queue' = QueueMounted /\ lists' = {FirstPageCall(INITIAL_FILTERS)} /\ assigns' = {}

(* The page is not there, and nobody waits for the answers to its calls. *)
QueueOff == queue = QueueNotMounted /\ lists = {} /\ assigns = {}

QueueUnmount == queue' = QueueNotMounted /\ lists' = {} /\ assigns' = {}

-----------------------------------------------------------------------------
(* Filters *)

(* The page q once fetchFirstPage has begun. *)
Reloading(q, filters) ==
  [q EXCEPT !.loading = TRUE, !.asked = filters, !.failed = FALSE,
            !.overtaken = @ \/ \E c \in lists : c.more]

(* fetchFirstPage, were requestSeq not counted up. *)
FetchFirstPageSameSeq(q, filters) ==
  /\ Cardinality(lists) < 2
  /\ queue' = Reloading(q, filters)
  /\ lists' = lists \cup {FirstPageCall(filters)}

(***************************************************************************)
(* What fetchFirstPage does before its await.  ++requestSeq overtakes the  *)
(* calls in flight: every branch that awaits their answers, the finally of *)
(* a load-more included, returns when seq is an old one, and so they are   *)
(* forgotten here.                                                         *)
(***************************************************************************)
FetchFirstPage(q, filters) ==
  /\ queue' = Reloading(q, filters)
  /\ lists' = {FirstPageCall(filters)}

(* setFilters, and the effect that reloads the list. *)
SetFilters(q, filters) ==
  FetchFirstPage([q EXCEPT !.filters = filters], filters)

HasActiveFilters == queue.filters # INITIAL_FILTERS

(* The bar of filters: what its controls show, and when its link is there. *)
FilterBar ==
  [sel |-> queue.filters.sel, text |-> queue.qInput, clear |-> HasActiveFilters]

UpdateFilter(sel) ==
  /\ FilterBar.sel # sel
  /\ SetFilters(queue, [queue.filters EXCEPT !.sel = sel])
  /\ UNCHANGED assigns

TypeSearch(text) ==
  /\ FilterBar.text # text
  /\ queue' = [queue EXCEPT !.qInput = text]
  /\ UNCHANGED <<lists, assigns>>

(* 400 ms after the last key. *)
Debounce ==
  /\ queue.mounted
  /\ queue.filters.q # queue.qInput
  /\ SetFilters(queue, [queue.filters EXCEPT !.q = queue.qInput])
  /\ UNCHANGED assigns

ClearFilters ==
  /\ FilterBar.clear
  /\ SetFilters([queue EXCEPT !.qInput = ""], INITIAL_FILTERS)
  /\ UNCHANGED assigns

-----------------------------------------------------------------------------
(* Load more *)

QueueScreen ==
  IF queue.loading THEN "spinner" ELSE IF queue.tickets = <<>> THEN "empty" ELSE "table"

TableShown == QueueScreen = "table"

CanLoadMoreAnyTime == TableShown /\ queue.nextCursor # NoCursor

CanLoadMore ==
  /\ TableShown
  /\ queue.nextCursor # NoCursor
  /\ ~queue.loadingMore

LoadMore ==
  /\ CanLoadMore
  /\ queue' = [queue EXCEPT !.loadingMore = TRUE]
  /\ lists' = lists \cup {ListCall(TRUE, queue.filters, queue.nextCursor)}
  /\ UNCHANGED assigns

-----------------------------------------------------------------------------
(* GET /v1/tickets *)

Matches(f, t) ==
  /\ f.sel = "abierto" => row[t].status = "abierto"
  /\ f.sel = "mine" => row[t].assignee = Me
  /\ f.q # "" => t \in TextMatches

Found(f) == {t \in Visible : Matches(f, t)}

Answered(c, answer) == [c EXCEPT !.answer = answer]

ListAnswer(c) ==
  LET page == Page(Found(c.filters), c.cursor, QueueLimit)
  IN [code |-> 200, items |-> page.items, nextCursor |-> page.nextCursor]

ServeList(c) ==
  /\ c.answer = Pending
  /\ \/ /\ lists' = (lists \ {c}) \cup {Answered(c, ListAnswer(c))}
        /\ UNCHANGED faults
     \/ /\ lists' = (lists \ {c}) \cup {Answered(c, [code |-> 500])}
        /\ Fault
  /\ UNCHANGED <<row, made, role, changes, queue, assigns>>

(* The page with the rows of an answer. *)
WithPage(c) ==
  [queue EXCEPT !.tickets = IF c.more THEN @ \o c.answer.items ELSE c.answer.items,
                !.nextCursor = c.answer.nextCursor,
                !.shownFor = IF c.more THEN @ \cup {c.filters} ELSE {c.filters}]

(* finally: the spinner of the call is put out. *)
Finished(q, c) ==
  IF c.more THEN [q EXCEPT !.loadingMore = FALSE] ELSE [q EXCEPT !.loading = FALSE]

(* The catch without its finally. *)
AppliedUnfinished(c) ==
  IF c.answer.code = 200 THEN Finished(WithPage(c), c)
  ELSE [queue EXCEPT !.failed = @ \/ ~c.more]

Applied(c) ==
  IF c.answer.code = 200 THEN Finished(WithPage(c), c)
  ELSE Finished([queue EXCEPT !.failed = @ \/ ~c.more], c)

ListArrives(c) ==
  /\ c.answer # Pending
  /\ queue' = Applied(c)
  /\ lists' = lists \ {c}
  /\ UNCHANGED assigns

-----------------------------------------------------------------------------
(* Asignarme *)

CanAssign == role \in Staff

(* The button of the row that shows r. *)
AssignOffered(r) ==
  /\ CanAssign /\ TableShown
  /\ r.status # "resuelto"
  /\ queue.assigningId # r.id

(* Its call; filters is that of its closure. *)
HandleAssignMe(r) ==
  /\ AssignOffered(r)
  /\ MayChange
  /\ \E n \in 1 .. MaxAssigns :
       /\ \A c \in assigns : c.n # n
       /\ assigns' = assigns \cup {[n |-> n, id |-> r.id, version |-> r.version,
                                    filters |-> queue.filters, answer |-> Pending]}
  /\ queue' = [queue EXCEPT !.assigningId = r.id]
  /\ UNCHANGED lists

ServeQueueAssign(c) ==
  /\ c.answer = Pending
  /\ \E code \in Codes :
       /\ ServeAssign(c.id, c.version, code)
       /\ assigns' = (assigns \ {c}) \cup {Answered(c, [code |-> code, row |-> NoTicket])}
  /\ UNCHANGED <<queue, lists>>

InAnswer(c) == c.answer # Pending /\ c.answer.code = 200 /\ c.answer.row = NoTicket

(* The handler reads the row again for its answer. *)
ReadAssigned(c) ==
  /\ InAnswer(c)
  /\ assigns' = (assigns \ {c}) \cup {[c EXCEPT !.answer.row = Row(c.id)]}
  /\ UNCHANGED <<apiVars, queue, lists>>

(* Its answer arrives, and the finally lets go of assigningId, whoever holds it. *)
AssignArrives(c) ==
  LET q == [queue EXCEPT !.assigningId = NoTicket]
  IN /\ c.answer # Pending /\ ~InAnswer(c)
     /\ \/ /\ c.answer.code = 200
           /\ queue' = [q EXCEPT !.tickets =
                          [i \in DOMAIN @ |-> IF @[i].id = c.id THEN c.answer.row
                                                                ELSE @[i]]]
           /\ UNCHANGED lists
        \/ /\ c.answer.code = 409
           /\ FetchFirstPage(q, c.filters)
        \/ /\ c.answer.code \notin {200, 409}
           /\ queue' = q
           /\ UNCHANGED lists
     /\ assigns' = assigns \ {c}

-----------------------------------------------------------------------------
QueueUser ==
  /\ queue.mounted
  /\ \/ \E sel \in Selections : UpdateFilter(sel)
     \/ \E text \in Searches : TypeSearch(text)
     \/ ClearFilters
     \/ LoadMore
     \/ \E i \in DOMAIN queue.tickets : HandleAssignMe(queue.tickets[i])

QueueArrival ==
  \/ Debounce
  \/ \E c \in lists : ListArrives(c)
  \/ \E c \in assigns : AssignArrives(c)

QueueServe ==
  \/ \E c \in lists : ServeList(c)
  \/ \E c \in assigns : ServeQueueAssign(c) \/ ReadAssigned(c)

QueueStep ==
  \/ QueueUser /\ UNCHANGED apiVars
  \/ QueueArrival /\ UNCHANGED apiVars
  \/ QueueServe
=============================================================================
