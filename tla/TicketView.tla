----------------------------- MODULE TicketView -----------------------------
(***************************************************************************)
(* The tables of TicketSystem as the browser of one user is shown them,    *)
(* and the handlers as TicketApi tells them to the pages: calls decided at *)
(* one instant, each against the row as it is there and then.              *)
(***************************************************************************)
EXTENDS TicketSystem

CONSTANTS
  Me,         \* the user of the browser, any one of them
  Another     \* anyone else of the staff, to whom the pages show a ticket

ASSUME ViewAssumption == Me \in Users /\ Another \notin Users \cup {NoUser}

(* The role in the session of Me. *)
RoleOfMe ==
  CASE Me \in Admins    -> "administrador"
    [] Me \in Agents    -> "agente"
    [] Me \in Reporters -> "reportante"

(* The pages of Me tell Me from the others, and from nobody. *)
ShownAs(a) == IF a \in {Me, NoUser} THEN a ELSE Another

Shown(x) ==
  [version |-> x.version, status |-> x.status,
   assignee |-> ShownAs(x.assignee), level |-> x.level]

View == [t \in Tickets |-> Shown(row[t])]

Api ==
  INSTANCE TicketApi
    WITH Other <- Another, row <- View, role <- RoleOfMe,
         Own <- {t \in Tickets : ReporterOf[t] = Me}, Overdue <- Tickets,
         TextMatches <- {}, Roles <- {}, StartRows <- {},
         StartMade <- {}, made <- Tickets,
         changes <- 0, faults <- 0, MaxChanges <- 0, MaxFaults <- 0

(* What the handler of q answers by where its step has left it. *)
CodeOf(q) ==
  CASE q.pc \in {"event", "notify"} -> 200
    [] q.out = "conflict"           -> 409
    [] q.out = "forbidden"          -> 403
    [] q.out = "unprocessable"      -> 422

(* Me hands the ticket over to Me: the pages offer nothing else. *)
AssignIsDecided(r) ==
  AssignUpdate(r) /\ req[r].actor = Me /\ req[r].arg = Me =>
    Api!AssignDecided(req[r].ticket, req[r].exp, CodeOf(req'[r]))

MoveIsDecided(r) ==
  StateUpdate(r) /\ req[r].actor = Me =>
    Api!MoveDecided(req[r].ticket, req[r].arg, req[r].exp, CodeOf(req'[r]))

(* The handler returns early, by the row it has just read. *)
RefusalIsDecided(r) ==
  \A t \in Tickets, next \in {"en_progreso", "resuelto"} :
    \A v \in 0 .. row[t].version :
      StateRead(r, Me, t, next, TRUE, v) /\ req'[r].pc = "done" =>
        Api!MoveDecided(t, next, v, CodeOf(req'[r]))

(***************************************************************************)
(* A handler reads, awaits, judges and writes; the pages are told of one   *)
(* instant.  There is such an instant: the read where it refuses with 403  *)
(* or 422, the UPDATE where it succeeds or answers 409, and the row then   *)
(* gives that answer to a call judged at once, whatever ran in between.    *)
(* The pages send only versions they were shown.                           *)
(***************************************************************************)
CallsAreDecidedAtOnce ==
  [][\A r \in Requests \ Guessing :
       AssignIsDecided(r) /\ MoveIsDecided(r) /\ RefusalIsDecided(r)]_vars

(***************************************************************************)
(* Whatever the handlers and the sweeps do, the pages see a ticket change  *)
(* in one of the ways TicketApi lists, at one instant, or see nothing      *)
(* change.                                                                 *)
(***************************************************************************)
ChangesAreTheApis ==
  [][\E t \in Tickets : Api!SomeChange(t) \/ Api!Raised(t)]_View
=============================================================================
