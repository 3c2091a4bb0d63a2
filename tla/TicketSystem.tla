---------------------------- MODULE TicketSystem ----------------------------
(***************************************************************************)
(* The API's ticket handlers and the escalation worker over one database:  *)
(* every await of a request and of a sweep is a place where any other may  *)
(* run.                                                                    *)
(***************************************************************************)
EXTENDS TicketService, Escalation

vars == <<row, events, req, sent, now, sweep, deaths>>

Init == StoreInit /\ ServiceInit /\ EscalationInit

Next ==
  \/ ServiceNext /\ UNCHANGED escalationVars
  \/ EscalationNext /\ UNCHANGED serviceVars

Spec == Init /\ [][Next]_vars

(***************************************************************************)
(* Fairness for liveness: the clock runs, the scheduler keeps invoking     *)
(* every sweep and a sweep that does not die goes on to its end.  Nothing  *)
(* obliges a user to send a request or a crashed one to come back.         *)
(***************************************************************************)
Fairness ==
  /\ WF_vars(Tick /\ UNCHANGED serviceVars)
  /\ \A s \in Sweeps : WF_vars(SweepStep(s) /\ UNCHANGED serviceVars)
  /\ \A r \in Requests : WF_vars(Step(r) /\ UNCHANGED escalationVars)

FairSpec == Spec /\ Fairness

TypeOK == StoreTypeOK /\ ServiceTypeOK /\ EscalationTypeOK

-----------------------------------------------------------------------------
(* The changes a request has made. *)

(* r changed its ticket: it is past its UPDATE, alive or not. *)
Committed(r) ==
  /\ req[r].op \in {"assign", "state"}
  /\ req[r].pc \in {"event", "notify"} \/ req[r].out = "ok"

CommittedOn(t) == {r \in Requests : Committed(r) /\ req[r].ticket = t}

(* The event r inserted, or has yet to insert, or died before inserting. *)
ChangeOf(r) ==
  LET q == req[r] IN
  IF q.op = "assign"
    THEN [kind |-> "asignacion", by |-> r, actor |-> q.actor,
          from |-> q.snap.assignee, to |-> q.arg]
    ELSE [kind |-> IF q.arg = "resuelto" THEN "resolucion"
                                         ELSE "cambio_estado",
          by |-> r, actor |-> q.actor, from |-> q.snap.status, to |-> q.arg]

(* The history of t in the order of the versions its changes produced. *)
Ledger ==
  [t \in Tickets |->
     [v \in 1 .. row[t].version |->
        ChangeOf(CHOOSE r \in CommittedOn(t) : req[r].exp = v - 1)]]

Register == INSTANCE TicketRegister WITH events <- Ledger

-----------------------------------------------------------------------------
(* Properties. *)

(***************************************************************************)
(* The handlers judge a change against a row read earlier and let the      *)
(* client's version decide at the UPDATE; the worker does not touch the    *)
(* version at all.  Still every change is one the atomic register allows:  *)
(* its author was the assignee, or an admin, when the row changed, the     *)
(* transition was legal from the status it replaced, and the from-values   *)
(* of the audit events, put in version order, are the values replaced.     *)
(* A guessed version leaves all of that but for the assignee, who may be   *)
(* one the ticket no longer has.                                           *)
(***************************************************************************)
ImplementsRegister == Register!Spec

(***************************************************************************)
(* A handler is about to write on the strength of a row it read some       *)
(* awaits ago, and the client of a version it saw even earlier.  If that   *)
(* version is still the one in the table, the row read is the row there:   *)
(* nothing that was checked can have changed without a new version.  This  *)
(* needs no guess: a version that the row reaches after the read matches   *)
(* although the row has changed.                                           *)
(***************************************************************************)
SnapshotIsCurrent ==
  \A r \in Requests \ Guessing :
    req[r].pc = "update" =>
      LET t == req[r].ticket IN
      /\ req[r].exp <= row[t].version
      /\ req[r].exp = row[t].version => req[r].snap = Snapshot(t)

(***************************************************************************)
(* "version final coherente con el número de updates exitosos" (RFC Q8):   *)
(* the changes of a ticket are numbered by the versions their requests     *)
(* expected, 0 .. version - 1, one request each: no update is lost and no  *)
(* version is won twice, whoever crashes in between.                       *)
(***************************************************************************)
EveryVersionHasOneWinner ==
  \A t \in Tickets :
    /\ {req[r].exp : r \in CommittedOn(t)} = 0 .. row[t].version - 1
    /\ \A r1, r2 \in CommittedOn(t) : req[r1].exp = req[r2].exp => r1 = r2

(***************************************************************************)
(* A 409 is always somebody else's success: the version the loser expected *)
(* was consumed by another request.  Of N requests that expect the same    *)
(* version, then, one wins and the others conflict, and an escalation in   *)
(* between makes nobody lose.  Only a guess may lose to nobody, as long as *)
(* the ticket has not gone beyond the version guessed.                     *)
(***************************************************************************)
ConflictHasAWinner ==
  \A r \in Requests :
    req[r].out = "conflict" =>
      \/ \E w \in CommittedOn(req[r].ticket) : req[w].exp = req[r].exp
      \/ r \in Guessing /\ row[req[r].ticket].version <= req[r].exp

(***************************************************************************)
(* ticket_events holds no event of a change that did not happen and none   *)
(* twice: the events of a request are exactly one, equal to its change,    *)
(* once it is past the INSERT, and none before, nor ever if it died or     *)
(* lost the race.                                                          *)
(***************************************************************************)
AuditTellsTheTruth ==
  \A t \in Tickets, r \in Requests :
    LET mine == {i \in DOMAIN events[t] : events[t][i].by = r}
        recorded == /\ r \in CommittedOn(t)
                    /\ req[r].pc \in {"notify", "done"}
    IN /\ \A i \in mine :
            \/ recorded /\ events[t][i] = ChangeOf(r)
            \/ req[r].op = "comment" /\ req[r].pc # "event"
       /\ \A i, j \in mine : i = j
       /\ recorded => mine # {}

(***************************************************************************)
(* A resolution is final: whatever else is in flight (a sweep that read    *)
(* the ticket while it was open, a handler that read it in progress, a     *)
(* reassignment after the fact), nobody reopens the ticket, rewrites its   *)
(* solution or raises its level any more.                                  *)
(***************************************************************************)
ResolutionIsFinal ==
  [][\A t \in Tickets :
       row[t].status = "resuelto" =>
         /\ row'[t].status = "resuelto"
         /\ row'[t].solution = row[t].solution
         /\ row'[t].level = row[t].level]_vars

(***************************************************************************)
(* Sweeps overlap and repeat, and two of them may have read the same row:  *)
(* a ticket still climbs each step once.  The escalation events of a       *)
(* ticket cover disjoint ranges of levels, all of them up to its level.    *)
(***************************************************************************)
EachLevelIsRaisedOnce ==
  \A t \in Tickets :
    LET raises == {i \in DOMAIN events[t] :
                     events[t][i].kind = "escalamiento"}
    IN \A i \in raises :
         /\ events[t][i].from < events[t][i].to
         /\ events[t][i].to <= row[t].level
         /\ \A j \in raises \ {i} :
              \/ events[t][i].to <= events[t][j].from
              \/ events[t][j].to <= events[t][i].from

(***************************************************************************)
(* The reporter is told of a resolution at most once per ticket, by the    *)
(* request whose solution the row holds, and only after the history says   *)
(* so.                                                                     *)
(***************************************************************************)
OneResolutionMail ==
  \A m \in sent :
    m.type = "ticket.resolved" =>
      /\ row[m.ticket].solution = m.by
      /\ \E i \in DOMAIN events[m.ticket] :
           /\ events[m.ticket][i].kind = "resolucion"
           /\ events[m.ticket][i].by = m.by

(***************************************************************************)
(* Self-healing of ADR 0006: an overdue ticket reaches the top level, or   *)
(* is resolved, although sweeps die and requests change the row under      *)
(* them, because every sweep re-reads all the candidates.                  *)
(***************************************************************************)
OverdueIsRaised ==
  \A t \in RuledTickets :
    (now >= L2Due[t]) ~> (row[t].level = 2 \/ row[t].status = "resuelto")

-----------------------------------------------------------------------------
(* The inductive invariant behind the safety properties. *)

(* What the place of a request says of its local variables. *)
WellShaped(q) ==
  /\ q.pc = "idle" => q.op = "none"
  /\ q.pc # "done" => q.out = "none"
  /\ q.op = "none" => q.pc \in {"idle", "done"} /\ q.out # "ok"
  /\ q.op # "none" => q.ticket \in Tickets /\ q.actor \in Users
  /\ q.out = "conflict" => q.op \in {"assign", "state"}
  /\ q.op = "comment" => q.pc # "update"

RequestShape == \A r \in Requests : WellShaped(req[r])

(* What changeState and assign checked before they came to the UPDATE. *)
Judged(q) ==
  /\ q.op = "assign" => q.arg \in Staff /\ q.actor \in Staff
  /\ q.op = "state" =>
       /\ q.actor \in Admins \/ q.snap.assignee = q.actor
       /\ q.arg = "en_progreso" => q.snap.assignee # NoUser
       /\ canTransition(q.snap.status, q.arg, q.actor)

RequestIsJudged == \A r \in Requests : Judged(req[r])

(* Who has been given ticket t, and nobody, who had it at first. *)
Held(t) ==
  {NoUser} \cup {req[w].arg : w \in {x \in CommittedOn(t) : req[x].op = "assign"}}

(* An assignee, of the row or read from it, was given the ticket, and      *)
(* nobody takes it from everybody again.                                   *)
AssigneesAreHeld ==
  /\ \A t \in Tickets :
       /\ row[t].assignee \in Held(t)
       /\ row[t].assignee = NoUser => Held(t) = {NoUser}
  /\ \A r \in Requests :
       req[r].op \in {"assign", "state"} => req[r].snap.assignee \in Held(req[r].ticket)

(* A sweep in the loop raises a ticket it names, above the level it read. *)
SweepShape ==
  \A s \in Sweeps :
    /\ sweep[s].pc = "event" => sweep[s].cur \in Tickets
    /\ sweep[s].pc \in {"loop", "event"} =>
         \A t \in sweep[s].todo : Target(s, t) > sweep[s].seen[t]

IInv ==
  /\ TypeOK
  /\ RequestShape
  /\ RequestIsJudged
  /\ SnapshotIsCurrent
  /\ EveryVersionHasOneWinner
  /\ ConflictHasAWinner
  /\ AssigneesAreHeld
  /\ SweepShape

-----------------------------------------------------------------------------
(* A statement of the documents that the code does not keep. *)

Changes(t) ==
  {i \in DOMAIN events[t] :
     events[t][i].kind \in {"asignacion", "cambio_estado", "resolucion"}}

(***************************************************************************)
(* RFC Q8: the event of a change is inserted in the transaction of its     *)
(* UPDATE.  Whenever no living request is between the two, then, the       *)
(* history holds a change for every version.                               *)
(***************************************************************************)
EventInSameTransaction ==
  (\A r \in Requests : req[r].alive => req[r].pc # "event") =>
    \A t \in Tickets : \A v \in 1 .. row[t].version :
      \E i \in Changes(t) : events[t][i] = Ledger[t][v]
=============================================================================
