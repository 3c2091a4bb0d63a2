----------------------------- MODULE EventTabs -----------------------------
(***************************************************************************)
(* The history of one ticket as two tabs of its page show it: HistoryTab,  *)
(* page by page, and CommentsTab, its first page only, read again after a  *)
(* comment is sent.                                                        *)
(*                                                                         *)
(* An event is a number, its place in the order of created_at, which is    *)
(* taken before the INSERT is committed: events may become visible in      *)
(* another order.                                                          *)
(***************************************************************************)
EXTENDS TicketApi

CONSTANTS
  HistoryPage,    \* PAGE_SIZE of HistoryTab
  CommentsPage,   \* PAGE_SIZE of CommentsTab
  MaxEvents       \* bound: events of the ticket

ASSUME TabsAssumption ==
  /\ HistoryPage \in Nat \ {0} /\ CommentsPage \in Nat \ {0}
  /\ MaxEvents \in Nat

VARIABLES
  log,      \* the type of every event whose created_at is taken
  events,   \* the events that are committed
  hist,     \* the state of HistoryTab and its call in flight
  comm      \* the state of CommentsTab and its call in flight

tabVars == <<log, events, hist, comm>>

EventTypes == {"comentario", "otro"}

NotMounted == [mounted |-> FALSE]

NoAnswer == [code |-> 0]

(* GET /v1/tickets/:id/events *)
EventsPage(cursor, limit) ==
  LET ids == Ordered(Take(After(events, cursor), limit))
  IN [code |-> 200, items |-> ids,
      nextCursor |-> IF Len(ids) = limit THEN ids[Len(ids)] ELSE NoCursor]

OfType(es, types) == SelectSeq(es, LAMBDA e : log[e] \in types)

-----------------------------------------------------------------------------
(* What others do to the history: an INSERT begins, and is committed. *)

EventBegins ==
  /\ log # <<>>
  /\ Len(log) < MaxEvents
  /\ \E type \in EventTypes : log' = Append(log, type)
  /\ UNCHANGED <<events, hist, comm>>

EventCommits ==
  /\ \E e \in DOMAIN log \ events : events' = events \cup {e}
  /\ UNCHANGED <<log, hist, comm>>

-----------------------------------------------------------------------------
(* HistoryTab *)

PageCall(cursor) == [on |-> TRUE, cursor |-> cursor, answer |-> NoAnswer]

NoPageCall == [on |-> FALSE]

(* seen is not in the code: what was committed when the first page was read. *)
HistoryMounted ==
  [mounted |-> TRUE, events |-> <<>>, nextCursor |-> NoCursor,
   loading |-> TRUE, loadingMore |-> FALSE, types |-> EventTypes,
   call |-> PageCall(NoCursor), seen |-> {}]

HistoryShown == hist.mounted /\ ~hist.loading

VisibleEvents == OfType(hist.events, hist.types)

(* The buttons of the tab. *)
HistoryMoreOffered ==
  HistoryShown /\ hist.nextCursor # NoCursor /\ ~hist.loadingMore

HandleLoadMore ==
  /\ HistoryMoreOffered
  /\ hist' = [hist EXCEPT !.loadingMore = TRUE, !.call = PageCall(hist.nextCursor)]
  /\ UNCHANGED <<log, events, comm>>

ToggleType(type) ==
  /\ HistoryShown
  /\ hist' = [hist EXCEPT !.types = IF type \in @ THEN @ \ {type} ELSE @ \cup {type}]
  /\ UNCHANGED <<log, events, comm>>

ServePage ==
  /\ hist.mounted /\ hist.call.on /\ hist.call.answer = NoAnswer
  /\ \/ /\ hist' = [hist EXCEPT !.call.answer = EventsPage(hist.call.cursor, HistoryPage),
                               !.seen = IF hist.call.cursor = NoCursor THEN events ELSE @]
        /\ UNCHANGED faults
     \/ hist' = [hist EXCEPT !.call.answer = [code |-> 500]] /\ Fault
  /\ UNCHANGED <<row, made, role, changes, log, events, comm>>

(* loadPage, were the rows of every page to replace those before. *)
LoadPageReplacing(h, answer) ==
  [h EXCEPT !.events = answer.items, !.nextCursor = answer.nextCursor]

(* loadPage after its await. *)
LoadPage(h, answer) ==
  [h EXCEPT !.events = IF h.call.cursor = NoCursor THEN answer.items
                                                    ELSE @ \o answer.items,
            !.nextCursor = answer.nextCursor]

PageArrives ==
  /\ hist.mounted /\ hist.call.on /\ hist.call.answer # NoAnswer
  /\ LET answer == hist.call.answer
         loaded == IF answer.code = 200 THEN LoadPage(hist, answer)
                   ELSE IF hist.loading THEN [hist EXCEPT !.seen = {}] ELSE hist
     IN hist' = [loaded EXCEPT !.call = NoPageCall, !.loading = FALSE,
                               !.loadingMore = FALSE]
  /\ UNCHANGED <<log, events, comm>>

-----------------------------------------------------------------------------
(* CommentsTab *)

(* phase says which call is in flight: the load of the mount, the comment, *)
(* the load after it.  sent is not in the code: the comment that was saved *)
(* by the last submission, unless it ended with an error.                  *)
CommentsMounted ==
  [mounted |-> TRUE, events |-> <<>>, message |-> "", phase |-> "load",
   answer |-> NoAnswer, sent |-> 0]

loadingComments == comm.phase = "load"
submitting == comm.phase \in {"create", "reload"}

CommentsShown == comm.mounted /\ ~loadingComments

Comments == {e \in Range(comm.events) : log[e] = "comentario"}

(* The text area takes 1 to 5000 characters; the model knows one text. *)
CanSubmit == comm.message # ""

TypeMessage ==
  /\ CommentsShown /\ ~submitting
  /\ comm' = [comm EXCEPT !.message = IF @ = "" THEN "texto" ELSE ""]
  /\ UNCHANGED <<log, events, hist>>

HandleSubmit ==
  /\ CommentsShown /\ CanSubmit /\ ~submitting
  /\ Len(log) < MaxEvents
  /\ comm' = [comm EXCEPT !.phase = "create", !.answer = NoAnswer, !.sent = 0]
  /\ UNCHANGED <<log, events, hist>>

Saved ==
  /\ log' = Append(log, "comentario")
  /\ events' = events \cup {Len(log) + 1}

(* POST /v1/tickets/:id/comments; a call that fails may have saved it. *)
ServeComment ==
  /\ comm.mounted /\ comm.phase = "create" /\ comm.answer = NoAnswer
  /\ Len(log) < MaxEvents
  /\ \/ /\ Saved
        /\ comm' = [comm EXCEPT !.answer = [code |-> 200, id |-> Len(log')]]
        /\ UNCHANGED faults
     \/ /\ comm' = [comm EXCEPT !.answer = [code |-> 500]]
        /\ Fault
        /\ Saved \/ UNCHANGED <<log, events>>
  /\ UNCHANGED <<row, made, role, changes, hist>>

ServeComments ==
  /\ comm.mounted /\ comm.phase \in {"load", "reload"} /\ comm.answer = NoAnswer
  /\ \/ /\ comm' = [comm EXCEPT !.answer = EventsPage(NoCursor, CommentsPage)]
        /\ UNCHANGED faults
     \/ comm' = [comm EXCEPT !.answer = [code |-> 500]] /\ Fault
  /\ UNCHANGED <<row, made, role, changes, log, events, hist>>

(* The submission without its second load. *)
CommentSavedUnseen ==
  /\ comm.mounted /\ comm.phase = "create" /\ comm.answer.code = 200
  /\ comm' = [comm EXCEPT !.message = "", !.phase = "none",
                         !.sent = comm.answer.id]
  /\ UNCHANGED <<log, events, hist>>

(* The comment is saved: the text goes, and the events are read again. *)
CommentSaved ==
  /\ comm.mounted /\ comm.phase = "create" /\ comm.answer.code = 200
  /\ comm' = [comm EXCEPT !.message = "", !.phase = "reload",
                         !.answer = NoAnswer, !.sent = comm.answer.id]
  /\ UNCHANGED <<log, events, hist>>

CommentFails ==
  /\ comm.mounted /\ comm.phase = "create" /\ comm.answer.code = 500
  /\ comm' = [comm EXCEPT !.phase = "none"]
  /\ UNCHANGED <<log, events, hist>>

(* loadComments after its await; a failure is shown as one of the submission. *)
CommentsArrive ==
  /\ comm.mounted /\ comm.phase \in {"load", "reload"} /\ comm.answer # NoAnswer
  /\ comm' = IF comm.answer.code = 200
             THEN [comm EXCEPT !.phase = "none", !.events = comm.answer.items]
             ELSE [comm EXCEPT !.phase = "none", !.sent = 0]
  /\ UNCHANGED <<log, events, hist>>

-----------------------------------------------------------------------------
(* The tabs of the page of a ticket, of which one is mounted. *)

TabsOpened ==
  log = <<"otro">> /\ events = {1} /\ hist = HistoryMounted /\ comm = NotMounted

TabsOff == log = <<>> /\ events = {} /\ hist = NotMounted /\ comm = NotMounted

TabsMount ==
  log' = <<"otro">> /\ events' = {1} /\ hist' = HistoryMounted /\ comm' = NotMounted

TabsUnmount ==
  log' = <<>> /\ events' = {} /\ hist' = NotMounted /\ comm' = NotMounted

TabHistorial ==
  /\ comm.mounted
  /\ hist' = HistoryMounted /\ comm' = NotMounted
  /\ UNCHANGED <<log, events>>

TabComentarios ==
  /\ hist.mounted
  /\ hist' = NotMounted /\ comm' = CommentsMounted
  /\ UNCHANGED <<log, events>>

TabsUser ==
  \/ TabHistorial
  \/ TabComentarios
  \/ HandleLoadMore
  \/ \E type \in EventTypes : ToggleType(type)
  \/ TypeMessage
  \/ HandleSubmit

TabsArrival == PageArrives \/ CommentSaved \/ CommentFails \/ CommentsArrive

TabsServe == ServePage \/ ServeComment \/ ServeComments

TabsStep ==
  \/ TabsUser /\ UNCHANGED apiVars
  \/ TabsArrival /\ UNCHANGED apiVars
  \/ TabsServe
  \/ (EventBegins \/ EventCommits) /\ UNCHANGED apiVars
=============================================================================
