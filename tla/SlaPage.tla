------------------------------ MODULE SlaPage ------------------------------
(***************************************************************************)
(* The board of overdue and escalated tickets (SlaPage.tsx, slaData.ts).   *)
(* A load walks two lists at once, that of the open tickets and that of    *)
(* the tickets in progress, page by page; it starts when the page is       *)
(* mounted, every minute, and after an assignment, unless one is running.  *)
(***************************************************************************)
EXTENDS TicketApi

CONSTANTS
  SlaLimit,     \* PAGE_LIMIT
  MAX_TICKETS   \* a walk goes no further

ASSUME SlaAssumption == SlaLimit \in Nat \ {0} /\ MAX_TICKETS \in Nat \ {0}

VARIABLES
  sla,         \* the state of the page
  slaLoad,     \* the load that runs, or NoLoad
  slaAssign    \* the assign call in flight, or NoCall

slaVars == <<sla, slaLoad, slaAssign>>

NoLoad == [on |-> FALSE]
NoCall == [on |-> FALSE]

Unresolved == {"abierto", "en_progreso"}

SlaNotMounted == [mounted |-> FALSE]

(* failed is not in the code: whether the last load that ended has failed, *)
(* and no other has begun.                                                 *)
SlaMounted ==
  [mounted |-> TRUE, tickets |-> <<>>, loaded |-> FALSE, assigning |-> FALSE,
   failed |-> FALSE]

(***************************************************************************)
(* fetchUnresolvedTickets begins: two walks at their first page.  awaited  *)
(* tells whether handleAssignMe waits for the load.  from and there are    *)
(* not in the code: the status of every ticket, and which were made, at    *)
(* this instant.                                                           *)
(***************************************************************************)
NewLoad(awaited) ==
  [on |-> TRUE, awaited |-> awaited,
   walk |-> [s \in Unresolved |-> [items |-> <<>>, cursor |-> NoCursor,
                                   done |-> FALSE]],
   from |-> [t \in Tickets |-> row[t].status], there |-> made]

SlaOpened == sla = SlaMounted /\ slaLoad = NewLoad(FALSE) /\ slaAssign = NoCall

SlaMount == sla' = SlaMounted /\ slaLoad' = NewLoad(FALSE) /\ slaAssign' = NoCall

SlaOff == sla = SlaNotMounted /\ slaLoad = NoLoad /\ slaAssign = NoCall

SlaUnmount == sla' = SlaNotMounted /\ slaLoad' = NoLoad /\ slaAssign' = NoCall

(* The interval; load returns at once when one is running. *)
Interval ==
  /\ sla.mounted
  /\ ~slaLoad.on
  /\ slaLoad' = NewLoad(FALSE)
  /\ sla' = [sla EXCEPT !.failed = FALSE]
  /\ UNCHANGED slaAssign

-----------------------------------------------------------------------------
(* A load *)

(* The walk without its limit of safety, and with one round too few. *)
FetchAllOnePage(w, page) ==
  [items |-> w.items \o page.items, cursor |-> page.nextCursor, done |-> TRUE]

(* A round of the loop of fetchAllByStatus. *)
FetchAllByStatus(w, page) ==
  LET items == w.items \o page.items
  IN [items |-> items, cursor |-> page.nextCursor,
      done |-> page.nextCursor = NoCursor \/ Len(items) >= MAX_TICKETS]

Walk(s) ==
  /\ slaLoad.on /\ ~slaLoad.walk[s].done
  /\ slaLoad' = [slaLoad EXCEPT !.walk[s] =
       FetchAllByStatus(@, Page(WithStatus(s), @.cursor, SlaLimit))]
  /\ UNCHANGED <<sla, slaAssign>>

(* handleAssignMe goes on once its load is over, well or not. *)
LoadOver(page) ==
  /\ sla' = [page EXCEPT !.assigning = @ /\ ~slaLoad.awaited]
  /\ slaLoad' = NoLoad
  /\ UNCHANGED slaAssign

(* A page fails: Promise.all rejects, and the rows on show stay. *)
LoadFails ==
  /\ slaLoad.on /\ Fault
  /\ \E s \in Unresolved : ~slaLoad.walk[s].done
  /\ LoadOver([sla EXCEPT !.failed = TRUE])

LoadSucceeds ==
  /\ slaLoad.on
  /\ \A s \in Unresolved : slaLoad.walk[s].done
  /\ LoadOver([sla EXCEPT !.loaded = TRUE,
                          !.tickets = slaLoad.walk["abierto"].items
                                        \o slaLoad.walk["en_progreso"].items])

-----------------------------------------------------------------------------
(* The board *)

IsOverdue(r) == r.id \in Overdue

Relevant(r) == IsOverdue(r) \/ r.level > 0

(* The places of the rows on the board. *)
relevant == {i \in DOMAIN sla.tickets : Relevant(sla.tickets[i])}

CountLevel(level) == Cardinality({i \in relevant : sla.tickets[i].level = level})

OverdueNotEscalated ==
  Cardinality({i \in DOMAIN sla.tickets :
                 IsOverdue(sla.tickets[i]) /\ sla.tickets[i].level = 0})

(* The button of the row that shows r. *)
SlaAssignOffered(r) ==
  /\ sla.loaded /\ role # "reportante"
  /\ r.assignee # Me
  /\ ~sla.assigning

SlaHandleAssignMe(r) ==
  /\ SlaAssignOffered(r)
  /\ MayChange
  /\ slaAssign' = [on |-> TRUE, id |-> r.id, version |-> r.version, code |-> 0]
  /\ sla' = [sla EXCEPT !.assigning = TRUE]
  /\ UNCHANGED slaLoad

ServeSlaAssign ==
  /\ slaAssign.on /\ slaAssign.code = 0
  /\ \E code \in Codes :
       /\ ServeAssign(slaAssign.id, slaAssign.version, code)
       /\ slaAssign' = [slaAssign EXCEPT !.code = code]
  /\ UNCHANGED <<sla, slaLoad>>

(***************************************************************************)
(* The answer: after a success or a conflict the board is loaded again, or *)
(* not, when a load that may be older than the change is still running.    *)
(***************************************************************************)
SlaAssignArrives ==
  /\ slaAssign.on /\ slaAssign.code # 0
  /\ slaAssign' = NoCall
  /\ IF slaAssign.code \in {200, 409} /\ ~slaLoad.on
     THEN slaLoad' = NewLoad(TRUE) /\ sla' = [sla EXCEPT !.failed = FALSE]
     ELSE sla' = [sla EXCEPT !.assigning = FALSE] /\ UNCHANGED slaLoad

-----------------------------------------------------------------------------
SlaLoading ==
  \/ Interval /\ UNCHANGED apiVars
  \/ (\E s \in Unresolved : Walk(s)) /\ UNCHANGED apiVars
  \/ LoadSucceeds /\ UNCHANGED apiVars
  \/ LoadFails /\ UNCHANGED <<row, made, role, changes>>

SlaAnswer == ServeSlaAssign \/ (SlaAssignArrives /\ UNCHANGED apiVars)

SlaStep ==
  \/ SlaLoading
  \/ SlaAnswer
  \/ /\ sla.mounted
     /\ \E i \in relevant : SlaHandleAssignMe(sla.tickets[i])
     /\ UNCHANGED apiVars
=============================================================================
