--------------------------- MODULE TicketRegister ---------------------------
(***************************************************************************)
(* What the ticket tables promise, with no handlers, no awaits and no      *)
(* crashes: a ticket is an atomic register.  Every change is judged        *)
(* against the row as it is at that instant, and the history `events`      *)
(* receives, in the same step, the change with the value it replaced.      *)
(* This is the contract of RFC Q8; TicketSystem is shown to implement it   *)
(* with the history it could reconstruct in the place of `events`.         *)
(*                                                                         *)
(* Who guesses a version loses one thing only: the change is judged with   *)
(* an assignee the ticket has, or had at some time before.                 *)
(*                                                                         *)
(* Escalation changes only `level`, which has no place in the versioned    *)
(* history.                                                                *)
(***************************************************************************)
EXTENDS TicketStore

(* The requests that have changed ticket t. *)
Appliers(t) == {events[t][i].by : i \in DOMAIN events[t]}

(* Who has ever held t, and nobody, who held it at first. *)
Holders(t) ==
  {NoUser} \cup {events[t][i].to : i \in {j \in DOMAIN events[t] :
                                            events[t][j].kind = "asignacion"}}

(* Whom a change may take for the assignee of t. *)
TakenForAssignee(t, by) ==
  IF by \in Guessing THEN Holders(t) ELSE {row[t].assignee}

(* A request changes one ticket once. *)
Fresh(by) == \A t \in Tickets : by \notin Appliers(t)

(* Staff hand a ticket to one of their own, in any state of the ticket. *)
Reassign(t, a) ==
  /\ row' = [row EXCEPT ![t] = Assigned(@, a)]
  /\ \E u \in Staff, by \in {r \in Requests : Fresh(r)} :
       \E holder \in TakenForAssignee(t, by) :
         InsertEvent(t, [kind |-> "asignacion", by |-> by, actor |-> u,
                         from |-> holder, to |-> a])

(* The assignee, or an admin, moves a ticket along its life cycle. *)
Move(t, next) ==
  \E by \in Requests :
    /\ row' = [row EXCEPT ![t] = Moved(@, next, by)]
    /\ Fresh(by)
    /\ \E u \in Staff, holder \in TakenForAssignee(t, by) :
         /\ canTransition(row[t].status, next, u)
         /\ u \in Admins \/ holder = u
         /\ next = "en_progreso" => holder # NoUser
         /\ InsertEvent(t, [kind |-> IF next = "resuelto" THEN "resolucion"
                                                      ELSE "cambio_estado",
                         by |-> by, actor |-> u, from |-> row[t].status, to |-> next])

(* The worker raises an open ticket. *)
Raise(t, level) ==
  /\ row[t].status # "resuelto"
  /\ level > row[t].level
  /\ row' = [row EXCEPT ![t].level = level]
  /\ UNCHANGED events

Next ==
  \E t \in Tickets :
    \/ \E a \in Staff : Reassign(t, a)
    \/ \E next \in {"en_progreso", "resuelto"} : Move(t, next)
    \/ \E level \in 1 .. MAX_LEVEL : Raise(t, level)

Spec == StoreInit /\ [][Next]_storeVars
=============================================================================
