---------------------------- MODULE TicketStore ----------------------------
(***************************************************************************)
(* The two tables every writer of the system shares: `tickets` and the     *)
(* append-only `ticket_events`, with the roles of `users` and the pure     *)
(* state machine that says which moves a ticket may make.                  *)
(*                                                                         *)
(* A ticket starts here as POST /v1/tickets leaves it; `events` is the     *)
(* history that follows its `ticket_creado` event, in insertion order      *)
(* (GET /v1/tickets/:id/events orders by created_at, id).                  *)
(***************************************************************************)
EXTENDS Integers, Sequences

CONSTANTS
  Tickets,     \* ids of the rows of `tickets`
  NoTicket,    \* an id that names no ticket
  Agents,      \* users whose role is agente
  Admins,      \* users whose role is administrador
  Reporters,   \* users whose role is reportante
  NoUser,      \* null in assignee_id
  Requests,    \* invocations of the API's mutating handlers
  Guessing,    \* those whose client may send a version it was never shown
  NoRequest,   \* null in root_cause / solution / resolved_at
  Sweeps       \* invocations of the escalation worker that may overlap

Staff == Agents \cup Admins
Users == Staff \cup Reporters

ASSUME StoreAssumption ==
  /\ Agents \cap Admins = {}
  /\ Reporters \cap Staff = {}
  /\ NoTicket \notin Tickets
  /\ NoUser \notin Users
  /\ NoRequest \notin Requests
  /\ Requests \cap Sweeps = {}
  /\ Guessing \subseteq Requests

VARIABLES
  row,      \* tickets: one row per ticket
  events    \* ticket_events: the history of each ticket, oldest first

storeVars == <<row, events>>

TicketStatus == {"abierto", "en_progreso", "resuelto"}

MAX_LEVEL == 2

(***************************************************************************)
(* root_cause, solution and resolved_at are written together, by the       *)
(* request that resolves the ticket: `solution` names that request.        *)
(***************************************************************************)
Ticket ==
  [status   : TicketStatus,
   assignee : Staff \cup {NoUser},
   version  : Nat,
   level    : 0 .. MAX_LEVEL,
   solution : Requests \cup {NoRequest}]

NewTicket ==
  [status |-> "abierto", assignee |-> NoUser, version |-> 0,
   level |-> 0, solution |-> NoRequest]

(***************************************************************************)
(* actor is actor_id; `by`, which the table does not hold, tells which     *)
(* invocation inserted the event.                                          *)
(***************************************************************************)
TicketEvent ==
       [kind : {"asignacion"}, by : Requests, actor : Users,
        from : Staff \cup {NoUser}, to : Staff]
  \cup [kind : {"cambio_estado", "resolucion"}, by : Requests, actor : Users,
        from : TicketStatus, to : TicketStatus]
  \cup [kind : {"comentario"}, by : Requests, actor : Users]
  \cup [kind : {"escalamiento"}, by : Sweeps,
        from : 0 .. MAX_LEVEL, to : 0 .. MAX_LEVEL]

(* The state machine if a resolved ticket could be worked on again. *)
canTransitionReopening(current, next, actor) ==
  \/ current # next /\ actor \in Admins
  \/ current = "abierto"     /\ next = "en_progreso" /\ actor \in Staff
  \/ current = "en_progreso" /\ next = "resuelto"    /\ actor \in Staff

(* The state machine without its first test, that the state changes. *)
canTransitionToSelf(current, next, actor) ==
  \/ current = next /\ actor \in Staff
  \/ current = "abierto" /\ actor \in Admins
  \/ current = "en_progreso" /\ next = "resuelto" /\ actor \in Staff

(***************************************************************************)
(* The state machine of state-machine.ts: who may move a ticket whence and *)
(* whither.  Every pair it does not list is refused.                       *)
(***************************************************************************)
canTransition(current, next, actor) ==
  \/ current = "abierto"     /\ next = "en_progreso" /\ actor \in Staff
  \/ current = "en_progreso" /\ next = "resuelto"    /\ actor \in Staff
  \/ current = "abierto"     /\ next = "resuelto"    /\ actor \in Admins

(* The SET clauses of the two UPDATEs: both increment the version. *)
Assigned(x, a) == [x EXCEPT !.assignee = a, !.version = x.version + 1]

Moved(x, next, by) ==
  [x EXCEPT !.status = next,
            !.version = x.version + 1,
            !.solution = IF next = "resuelto" THEN by ELSE x.solution]

(* One INSERT into ticket_events: it lands at the end of the history. *)
InsertEvent(t, e) == events' = [events EXCEPT ![t] = Append(@, e)]

StoreInit ==
  /\ row = [t \in Tickets |-> NewTicket]
  /\ events = [t \in Tickets |-> <<>>]

StoreTypeOK ==
  /\ row \in [Tickets -> Ticket]
  /\ events \in [Tickets -> Seq(TicketEvent)]
=============================================================================
