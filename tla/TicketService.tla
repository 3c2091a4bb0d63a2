--------------------------- MODULE TicketService ---------------------------
(***************************************************************************)
(* The handlers of TicketsService that change a ticket: assign,            *)
(* changeState and addComment.  A handler is a sequence of database calls  *)
(* with an await between any two of them, so other requests and the        *)
(* escalation worker run in between:                                       *)
(*                                                                         *)
(*   idle --read--> update --UPDATE--> event --INSERT--> notify --> done   *)
(*                                                                         *)
(* assign and changeState guard the row by compare-and-set: the UPDATE     *)
(* names the version the client expects and touches no row, answering 409, *)
(* when it moved.  The UPDATE and the INSERT of its event are two          *)
(* statements outside any transaction, and the process may die at any      *)
(* await.                                                                  *)
(***************************************************************************)
EXTENDS TicketStore

CONSTANTS
  ReporterOf,   \* reporter_id of each ticket
  Ahead         \* bound: how far beyond the row the version of a guess may be

ASSUME ServiceAssumption == ReporterOf \in [Tickets -> Users] /\ Ahead \in Nat

VARIABLES
  req,     \* the invocation of a handler: its place and its local variables
  sent     \* messages handed to the notification queue

serviceVars == <<req, sent>>

(* What the handler keeps of the row that findUnique returned. *)
Snapshot(t) ==
  [status |-> row[t].status, assignee |-> row[t].assignee,
   version |-> row[t].version]

NoSnapshot == [status |-> "abierto", assignee |-> NoUser, version |-> 0]

Blank ==
  [pc |-> "idle", alive |-> TRUE, op |-> "none", actor |-> NoUser,
   ticket |-> NoTicket, arg |-> NoUser, exp |-> 0, snap |-> NoSnapshot,
   out |-> "none"]

Notification ==
  [type : {"ticket.assigned", "ticket.resolved", "ticket.commented"},
   ticket : Tickets, by : Requests]

Running(r, pc, op) ==
  /\ req[r].alive
  /\ req[r].pc = pc
  /\ req[r].op = op

Idle(r) == Running(r, "idle", "none")

GoTo(r, pc) == req' = [req EXCEPT ![r].pc = pc]

(* An early return: the handler answers with an error and has written      *)
(* nothing.                                                                *)
Answer(r, code) ==
  req' = [req EXCEPT ![r] = [Blank EXCEPT !.pc = "done", !.out = code]]

Begin(r, pc, op, u, t, arg, exp) ==
  req' = [req EXCEPT ![r] =
            [pc |-> pc, alive |-> TRUE, op |-> op, actor |-> u, ticket |-> t,
             arg |-> arg, exp |-> exp, snap |-> Snapshot(t), out |-> "none"]]

-----------------------------------------------------------------------------
(* assign *)

(* assign without its 422 for an assignee who is not staff. *)
AssignReadAnyAssignee(r, u, t, assignee, expected) ==
  /\ Idle(r)
  /\ Begin(r, "update", "assign", u, t, assignee, expected)
  /\ UNCHANGED <<row, events, sent>>

(***************************************************************************)
(* The role guard lets only staff through.  findUnique reads the ticket,   *)
(* users.findById the assignee, whose row never changes here.              *)
(***************************************************************************)
AssignRead(r, u, t, assignee, expected) ==
  /\ Idle(r)
  /\ IF assignee \in Staff
       THEN Begin(r, "update", "assign", u, t, assignee, expected)
       ELSE Answer(r, "unprocessable")
  /\ UNCHANGED <<row, events, sent>>

(* The UPDATE of assign with its version as a lower bound only. *)
AssignMatchesAnyVersion(q) == row[q.ticket].version >= q.exp

(* The same with the ticket being open in its WHERE. *)
AssignMatchesOpen(q) ==
  row[q.ticket].version = q.exp /\ row[q.ticket].status # "resuelto"

(* UPDATE ... SET assignee_id, version + 1 WHERE id AND version = expected. *)
AssignMatches(q) == row[q.ticket].version = q.exp

(* assign if its UPDATE forgot to increment the version. *)
AssignUpdateSameVersion(r) ==
  LET q == req[r] IN
  /\ Running(r, "update", "assign")
  /\ IF AssignMatches(q)
       THEN /\ row' = [row EXCEPT ![q.ticket].assignee = q.arg]
            /\ GoTo(r, "event")
       ELSE /\ req' = [req EXCEPT ![r].pc = "done", ![r].out = "conflict"]
            /\ UNCHANGED row
  /\ UNCHANGED <<events, sent>>

AssignUpdate(r) ==
  LET q == req[r] IN
  /\ Running(r, "update", "assign")
  /\ IF AssignMatches(q)
       THEN /\ row' = [row EXCEPT ![q.ticket] = Assigned(@, q.arg)]
            /\ GoTo(r, "event")
       ELSE /\ req' = [req EXCEPT ![r].pc = "done", ![r].out = "conflict"]
            /\ UNCHANGED row
  /\ UNCHANGED <<events, sent>>

(* The event if its payload were built from the row as it is by now. *)
AssignEventFromUpdatedRow(r) ==
  LET q == req[r] IN
  /\ Running(r, "event", "assign")
  /\ InsertEvent(q.ticket, [kind |-> "asignacion", by |-> r, actor |-> q.actor,
                            from |-> row[q.ticket].assignee, to |-> q.arg])
  /\ GoTo(r, "notify")
  /\ UNCHANGED <<row, sent>>

(* The event takes `from` from the row read before the UPDATE. *)
AssignEvent(r) ==
  LET q == req[r] IN
  /\ Running(r, "event", "assign")
  /\ InsertEvent(q.ticket, [kind |-> "asignacion", by |-> r, actor |-> q.actor,
                            from |-> q.snap.assignee, to |-> q.arg])
  /\ GoTo(r, "notify")
  /\ UNCHANGED <<row, sent>>

-----------------------------------------------------------------------------
(* changeState *)

(* changeState without the 403 for who is neither assignee nor admin. *)
StateVerdictAnyStaff(s, u, next, complete) ==
  IF next = "resuelto" /\ ~complete THEN "badRequest"
  ELSE IF \/ next = "en_progreso" /\ s.assignee = NoUser
          \/ ~canTransition(s.status, next, u) THEN "unprocessable"
  ELSE "proceed"

(***************************************************************************)
(* The early returns of changeState, in the order of the code; all of them *)
(* look at the row as it was read.  `complete` says whether the body       *)
(* carries root_cause and solution.                                        *)
(***************************************************************************)
StateVerdict(s, u, next, complete) ==
  IF next = "resuelto" /\ ~complete THEN "badRequest"
  ELSE IF u \notin Admins /\ s.assignee # u THEN "forbidden"
  ELSE IF \/ next = "en_progreso" /\ s.assignee = NoUser
          \/ ~canTransition(s.status, next, u) THEN "unprocessable"
  ELSE "proceed"

StateRead(r, u, t, next, complete, expected) ==
  LET verdict == StateVerdict(Snapshot(t), u, next, complete) IN
  /\ Idle(r)
  /\ IF verdict = "proceed"
       THEN Begin(r, "update", "state", u, t, next, expected)
       ELSE Answer(r, verdict)
  /\ UNCHANGED <<row, events, sent>>

(* UPDATE ... WHERE id AND version = expected AND status = the status read. *)
StateMatches(q) ==
  /\ row[q.ticket].version = q.exp
  /\ row[q.ticket].status = q.snap.status

StateUpdate(r) ==
  LET q == req[r] IN
  /\ Running(r, "update", "state")
  /\ IF StateMatches(q)
       THEN /\ row' = [row EXCEPT ![q.ticket] = Moved(@, q.arg, r)]
            /\ GoTo(r, "event")
       ELSE /\ req' = [req EXCEPT ![r].pc = "done", ![r].out = "conflict"]
            /\ UNCHANGED row
  /\ UNCHANGED <<events, sent>>

(* Only a resolution goes on to notify the reporter. *)
StateEvent(r) ==
  LET q == req[r]
      resolves == q.arg = "resuelto"
  IN
  /\ Running(r, "event", "state")
  /\ InsertEvent(q.ticket,
       [kind |-> IF resolves THEN "resolucion" ELSE "cambio_estado",
        by |-> r, actor |-> q.actor, from |-> q.snap.status, to |-> q.arg])
  /\ IF resolves
       THEN GoTo(r, "notify")
       ELSE req' = [req EXCEPT ![r].pc = "done", ![r].out = "ok"]
  /\ UNCHANGED <<row, sent>>

-----------------------------------------------------------------------------
(* addComment *)

(* A reportante comments only on a ticket of their own; staff on any. *)
CommentRead(r, u, t) ==
  /\ Idle(r)
  /\ IF u \in Reporters /\ ReporterOf[t] # u
       THEN Answer(r, "forbidden")
       ELSE Begin(r, "event", "comment", u, t, NoUser, 0)
  /\ UNCHANGED <<row, events, sent>>

CommentEvent(r) ==
  LET q == req[r] IN
  /\ Running(r, "event", "comment")
  /\ InsertEvent(q.ticket, [kind |-> "comentario", by |-> r, actor |-> q.actor])
  /\ GoTo(r, "notify")
  /\ UNCHANGED <<row, sent>>

-----------------------------------------------------------------------------
(***************************************************************************)
(* notifyReporter is best effort: the message is enqueued, or the reporter *)
(* took no e-mail, or the call failed and was logged.  The handler answers *)
(* 200 in every case.                                                      *)
(***************************************************************************)
NotifyType(op) ==
  CASE op = "assign"  -> "ticket.assigned"
    [] op = "state"   -> "ticket.resolved"
    [] op = "comment" -> "ticket.commented"

NotifyReporter(r) ==
  LET q == req[r] IN
  /\ q.alive
  /\ q.pc = "notify"
  /\ \/ sent' = sent \cup {[type |-> NotifyType(q.op), ticket |-> q.ticket,
                            by |-> r]}
     \/ UNCHANGED sent
  /\ req' = [req EXCEPT ![r].pc = "done", ![r].out = "ok"]
  /\ UNCHANGED <<row, events>>

(* No row with that id: every handler answers 404. *)
NotFound(r) ==
  /\ Idle(r)
  /\ Answer(r, "notFound")
  /\ UNCHANGED <<row, events, sent>>

(* The process, or its database connection, dies at an await: what is      *)
(* written stays, the rest of the handler never runs.  Nothing remains of  *)
(* one that had written nothing.                                           *)
Crash(r) ==
  /\ req[r].alive
  /\ req[r].pc \in {"update", "event", "notify"}
  /\ req' = [req EXCEPT ![r] =
               IF @.pc = "update" THEN [Blank EXCEPT !.alive = FALSE]
                                  ELSE [@ EXCEPT !.alive = FALSE]]
  /\ UNCHANGED <<row, events, sent>>

ServiceInit ==
  /\ req = [r \in Requests |-> Blank]
  /\ sent = {}

(***************************************************************************)
(* expectedVersion is any integer from 0 on (assign-ticket.dto.ts,         *)
(* change-state.dto.ts).  A client sends one it was shown, no later than   *)
(* the row's, or guesses, and the row may get there only after the read.   *)
(***************************************************************************)
Expectable(r, t) ==
  0 .. row[t].version + (IF r \in Guessing THEN Ahead ELSE 0)

AssignSome(r) ==
  \E u \in Staff, t \in Tickets, a \in Users \cup {NoUser} :
    \E v \in Expectable(r, t) : AssignRead(r, u, t, a, v)

StateSome(r) ==
  \E u \in Staff, t \in Tickets,
     next \in {"en_progreso", "resuelto"}, complete \in BOOLEAN :
    \E v \in Expectable(r, t) : StateRead(r, u, t, next, complete, v)

CommentSome(r) ==
  \E u \in Users, t \in Tickets : CommentRead(r, u, t)

(* What a handler that has begun does next. *)
Step(r) ==
  \/ AssignUpdate(r)
  \/ AssignEvent(r)
  \/ StateUpdate(r)
  \/ StateEvent(r)
  \/ CommentEvent(r)
  \/ NotifyReporter(r)

ServiceNext ==
  \E r \in Requests :
    \/ AssignSome(r)
    \/ StateSome(r)
    \/ CommentSome(r)
    \/ NotFound(r)
    \/ Step(r)
    \/ Crash(r)

Request ==
  [pc     : {"idle", "update", "event", "notify", "done"},
   alive  : BOOLEAN,
   op     : {"none", "assign", "state", "comment"},
   actor  : Users \cup {NoUser},
   ticket : Tickets \cup {NoTicket},
   arg    : Staff \cup {NoUser} \cup TicketStatus,
   exp    : Nat,
   snap   : [status : TicketStatus, assignee : Staff \cup {NoUser},
             version : Nat],
   out    : {"none", "ok", "conflict", "notFound", "badRequest",
             "forbidden", "unprocessable"}]

ServiceTypeOK ==
  /\ req \in [Requests -> Request]
  /\ sent \subseteq Notification
=============================================================================
