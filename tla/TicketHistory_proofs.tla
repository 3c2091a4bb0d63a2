------------------------ MODULE TicketHistory_proofs ------------------------
(***************************************************************************)
(* Proofs about the history of a ticket in TicketSystem: its audit events  *)
(* are true, its levels are raised once each and its resolution is mailed  *)
(* once, for any tickets, users, requests and sweeps.                      *)
(*                                                                         *)
(* The history of its changes is that of TicketRegister, which             *)
(* TicketSystem implements: the handlers of TicketsService, with their     *)
(* stale reads, their races and their crashes, and the sweeps change a     *)
(* ticket as an atomic register would.  A step that commits a change maps  *)
(* to the step that makes it and appends it to the history, a raise to a   *)
(* raise, every other step to a stutter.                                   *)
(***************************************************************************)
EXTENDS TicketSystem_proofs, TicketView, SequenceTheorems

-----------------------------------------------------------------------------
(* The invariants. *)

(* q has changed its ticket and recorded the change. *)
IsRecorded(q) ==
  /\ q.op \in {"assign", "state"}
  /\ q.pc = "notify" \/ (q.pc = "done" /\ q.out = "ok")

IsCommented(q) == q.op = "comment" /\ q.pc # "event"

(* The row holds the solution of every request that resolved it. *)
Resolves(q) ==
  /\ q.op = "state"
  /\ q.arg = "resuelto"
  /\ q.pc \in {"event", "notify"} \/ q.out = "ok"

SolutionsStay ==
  \A r \in Requests :
    Resolves(req[r]) => /\ row[req[r].ticket].status = "resuelto"
                        /\ row[req[r].ticket].solution = r

OnlyResolutionsNotify ==
  \A r \in Requests :
    req[r].pc = "notify" /\ req[r].op = "state" => req[r].arg = "resuelto"

(* A mail that went out is of the resolution the row and the history hold. *)
MailsAreOfResolutions ==
  \A m \in sent :
    m.type = "ticket.resolved" =>
      /\ row[m.ticket].status = "resuelto"
      /\ row[m.ticket].solution = m.by
      /\ \E i \in DOMAIN events[m.ticket] :
           /\ events[m.ticket][i].kind = "resolucion"
           /\ events[m.ticket][i].by = m.by

(* s raised t, and has yet to record it. *)
Pending(s, t) == sweep[s].pc = "event" /\ sweep[s].cur = t

Raises(t) ==
  {i \in DOMAIN events[t] : events[t][i].kind = "escalamiento"}

Apart(from1, to1, from2, to2) == to1 <= from2 \/ to2 <= from1

(* The raises that are recorded and those that are not yet lie apart, at   *)
(* or below the level of the row.                                          *)
RaisesLieApart ==
  \A t \in Tickets :
    /\ \A i \in Raises(t) :
         /\ events[t][i].from < events[t][i].to
         /\ events[t][i].to <= row[t].level
         /\ \A j \in Raises(t) \ {i} :
              Apart(events[t][i].from, events[t][i].to,
                    events[t][j].from, events[t][j].to)
         /\ \A s \in Sweeps :
              Pending(s, t) =>
                Apart(events[t][i].from, events[t][i].to,
                      sweep[s].seen[t], Target(s, t))
    /\ \A s \in Sweeps :
         Pending(s, t) =>
           /\ sweep[s].seen[t] < Target(s, t)
           /\ Target(s, t) <= row[t].level
           /\ \A z \in Sweeps \ {s} :
                Pending(z, t) =>
                  Apart(sweep[s].seen[t], Target(s, t),
                        sweep[z].seen[t], Target(z, t))

HistoryInv ==
  /\ AuditTellsTheTruth
  /\ SolutionsStay
  /\ OnlyResolutionsNotify
  /\ MailsAreOfResolutions
  /\ RaisesLieApart

-----------------------------------------------------------------------------
(* What a step does to the histories. *)

LEMMA AppendAt ==
  ASSUME NEW S, NEW q \in Seq(S), NEW e \in S
  PROVE  /\ DOMAIN q = 1 .. Len(q) /\ Len(q) \in Nat
         /\ DOMAIN Append(q, e) = 1 .. Len(q) + 1
         /\ \A i \in DOMAIN q : Append(q, e)[i] = q[i]
         /\ Append(q, e)[Len(q) + 1] = e
OBVIOUS

(* e is the one event the step adds, to the history of t. *)
Adds(t, e) ==
  /\ DOMAIN events'[t] = DOMAIN events[t] \cup {Len(events[t]) + 1}
  /\ Len(events[t]) + 1 \notin DOMAIN events[t]
  /\ \A i \in DOMAIN events[t] : events'[t][i] = events[t][i]
  /\ events'[t][Len(events[t]) + 1] = e
  /\ \A x \in Tickets \ {t} : events'[x] = events[x]

LEMMA InsertAdds ==
  ASSUME StoreTypeOK, NEW t \in Tickets, NEW e \in TicketEvent,
         InsertEvent(t, e)
  PROVE  Adds(t, e)
<1>1. events[t] \in Seq(TicketEvent)
  BY DEF StoreTypeOK
<1>2. /\ events'[t] = Append(events[t], e)
      /\ \A x \in Tickets \ {t} : events'[x] = events[x]
  BY DEF StoreTypeOK, InsertEvent
<1>3. /\ DOMAIN events[t] = 1 .. Len(events[t]) /\ Len(events[t]) \in Nat
      /\ DOMAIN events'[t] = 1 .. Len(events[t]) + 1
      /\ \A i \in DOMAIN events[t] : events'[t][i] = events[t][i]
      /\ events'[t][Len(events[t]) + 1] = e
  BY <1>1, <1>2, AppendAt
<1>4. \A n \in Nat : 1 .. n + 1 = (1 .. n) \cup {n + 1} /\ n + 1 \notin 1 .. n
  OBVIOUS
<1> QED BY <1>2, <1>3, <1>4 DEF Adds

(* What q says of its change when it replaces p. *)
Alike(p, q) ==
  /\ IsRecorded(p) <=> IsRecorded(q)
  /\ IsCommented(p) => IsCommented(q)
  /\ IsRecorded(p) => /\ q.op = p.op /\ q.arg = p.arg
                      /\ q.actor = p.actor /\ q.snap = p.snap
                      /\ q.ticket = p.ticket

Quiet == UNCHANGED events /\ \A x \in Requests : Alike(req[x], req'[x])

(* r records what it did. *)
Records(r) ==
  /\ req[r].pc = "event"
  /\ req[r].op \in {"assign", "state", "comment"}
  /\ req[r].ticket \in Tickets
  /\ req'[r].op = req[r].op /\ req'[r].arg = req[r].arg
  /\ req'[r].actor = req[r].actor /\ req'[r].snap = req[r].snap
  /\ req'[r].ticket = req[r].ticket
  /\ req'[r].pc = "notify" \/ (req'[r].pc = "done" /\ req'[r].out = "ok")
  /\ \A x \in Requests \ {r} : req'[x] = req[x]
  /\ \E e \in TicketEvent :
       /\ Adds(req[r].ticket, e)
       /\ e.by = r
       /\ e.kind # "escalamiento"
       /\ req[r].op # "comment" => e = ChangeOf(r)

(* s records what it raised. *)
Escalates(s) ==
  /\ UNCHANGED <<req, row>>
  /\ sweep[s].pc = "event" /\ sweep[s].cur \in Tickets
  /\ sweep'[s].pc = "loop"
  /\ \A z \in Sweeps \ {s} : sweep'[z] = sweep[z]
  /\ Adds(sweep[s].cur,
          [kind |-> "escalamiento", by |-> s,
           from |-> sweep[s].seen[sweep[s].cur],
           to |-> Target(s, sweep[s].cur)])

LEMMA OneAlike ==
  ASSUME ServiceTypeOK, NEW r \in Requests, NEW q,
         req' = [req EXCEPT ![r] = q], Alike(req[r], q), UNCHANGED events
  PROVE  Quiet
<1>1. \A x \in Requests : req'[x] = IF x = r THEN q ELSE req[x]
  BY DEF ServiceTypeOK
<1>2. \A p : Alike(p, p)
  BY DEF Alike
<1> QED BY <1>1, <1>2 DEF Quiet

LEMMA ReadIsQuiet ==
  ASSUME IInv, NEW r \in Requests,
         \/ \E u \in Staff, t \in Tickets, a \in Users \cup {NoUser} :
              \E v \in Expectable(r, t) : AssignRead(r, u, t, a, v)
         \/ \E u \in Staff, t \in Tickets,
               next \in {"en_progreso", "resuelto"}, complete \in BOOLEAN :
              \E v \in Expectable(r, t) :
                StateRead(r, u, t, next, complete, v)
         \/ \E u \in Users, t \in Tickets : CommentRead(r, u, t)
         \/ NotFound(r)
  PROVE  Quiet
<1>1. UNCHANGED events /\ req[r].op = "none" /\ ServiceTypeOK
  BY DEF AssignRead, StateRead, CommentRead, NotFound, Idle, Running, IInv,
         TypeOK
<1>2. ASSUME NEW code, Answer(r, code)
      PROVE  Quiet
  <2> DEFINE q == [Blank EXCEPT !.pc = "done", !.out = code]
  <2>1. q.op = "none"
    BY DEF Blank
  <2>2. req' = [req EXCEPT ![r] = q]
    BY <1>2 DEF Answer
  <2> HIDE DEF q
  <2> QED BY <1>1, <2>1, <2>2, OneAlike DEF Alike, IsRecorded, IsCommented
<1>3. ASSUME NEW pc, NEW op, NEW u, NEW t, NEW arg, NEW exp,
             pc \in {"update", "event"},
             Begin(r, pc, op, u, t, arg, exp)
      PROVE  Quiet
  <2> DEFINE q == [pc |-> pc, alive |-> TRUE, op |-> op, actor |-> u,
                   ticket |-> t, arg |-> arg, exp |-> exp,
                   snap |-> Snapshot(t), out |-> "none"]
  <2>1. q.pc = pc
    OBVIOUS
  <2>2. req' = [req EXCEPT ![r] = q]
    BY <1>3 DEF Begin
  <2> HIDE DEF q
  <2> QED BY <1>1, <1>3, <2>1, <2>2, OneAlike
             DEF Alike, IsRecorded, IsCommented
<1> QED BY <1>2, <1>3 DEF AssignRead, StateRead, CommentRead, NotFound

LEMMA UpdateIsQuiet ==
  ASSUME IInv, NEW r \in Requests, AssignUpdate(r) \/ StateUpdate(r)
  PROVE  Quiet
<1>1. /\ UNCHANGED events /\ ServiceTypeOK /\ req[r] \in Request
      /\ req[r].pc = "update" /\ req[r].op \in {"assign", "state"}
  BY DEF AssignUpdate, StateUpdate, Running, IInv, TypeOK, ServiceTypeOK
<1>2. \/ req' = [req EXCEPT ![r] = [req[r] EXCEPT !.pc = "event"]]
      \/ req' = [req EXCEPT ![r] =
                   [req[r] EXCEPT !.pc = "done", !.out = "conflict"]]
  BY DEF AssignUpdate, StateUpdate, GoTo
<1>3. /\ Alike(req[r], [req[r] EXCEPT !.pc = "event"])
      /\ Alike(req[r], [req[r] EXCEPT !.pc = "done", !.out = "conflict"])
  BY <1>1 DEF Alike, IsRecorded, IsCommented, Request
<1> QED BY <1>1, <1>2, <1>3, OneAlike

LEMMA EndIsQuiet ==
  ASSUME IInv, NEW r \in Requests, NotifyReporter(r) \/ Crash(r)
  PROVE  Quiet
<1>1. /\ UNCHANGED events /\ ServiceTypeOK /\ req[r] \in Request
      /\ WellShaped(req[r])
  BY DEF NotifyReporter, Crash, IInv, TypeOK, ServiceTypeOK, RequestShape
<1>2. CASE NotifyReporter(r)
  <2>1. req' = [req EXCEPT ![r] = [req[r] EXCEPT !.pc = "done", !.out = "ok"]]
    BY <1>2 DEF NotifyReporter
  <2>2. Alike(req[r], [req[r] EXCEPT !.pc = "done", !.out = "ok"])
    BY <1>1, <1>2 DEF Alike, IsRecorded, IsCommented, Request, NotifyReporter
  <2> QED BY <1>1, <2>1, <2>2, OneAlike
<1>3. CASE Crash(r) /\ req[r].pc = "update"
  <2>1. req' = [req EXCEPT ![r] = [Blank EXCEPT !.alive = FALSE]]
    BY <1>3 DEF Crash
  <2>2. Alike(req[r], [Blank EXCEPT !.alive = FALSE])
    BY <1>1, <1>3 DEF Alike, IsRecorded, IsCommented, Blank, WellShaped
  <2> QED BY <1>1, <2>1, <2>2, OneAlike
<1>4. CASE Crash(r) /\ req[r].pc # "update"
  <2>1. req' = [req EXCEPT ![r] = [req[r] EXCEPT !.alive = FALSE]]
    BY <1>4 DEF Crash
  <2>2. Alike(req[r], [req[r] EXCEPT !.alive = FALSE])
    BY <1>1 DEF Alike, IsRecorded, IsCommented, Request
  <2> QED BY <1>1, <2>1, <2>2, OneAlike
<1> QED BY <1>2, <1>3, <1>4

LEMMA EventRecords ==
  ASSUME IInv, NEW r \in Requests,
         AssignEvent(r) \/ StateEvent(r) \/ CommentEvent(r)
  PROVE  Records(r)
<1>1. /\ ServiceTypeOK /\ StoreTypeOK /\ req[r] \in Request
      /\ WellShaped(req[r]) /\ Judged(req[r])
      /\ req[r].pc = "event" /\ req[r].op \in {"assign", "state", "comment"}
  BY DEF AssignEvent, StateEvent, CommentEvent, Running, IInv, TypeOK,
         ServiceTypeOK, RequestShape, RequestIsJudged
<1>2. req[r].ticket \in Tickets /\ req[r].actor \in Users
  BY <1>1 DEF WellShaped
<1>3. \/ req' = [req EXCEPT ![r] = [req[r] EXCEPT !.pc = "notify"]]
      \/ req' = [req EXCEPT ![r] =
                   [req[r] EXCEPT !.pc = "done", !.out = "ok"]]
  BY DEF AssignEvent, StateEvent, CommentEvent, GoTo
<1>4. /\ req'[r].op = req[r].op /\ req'[r].arg = req[r].arg
      /\ req'[r].actor = req[r].actor /\ req'[r].snap = req[r].snap
      /\ req'[r].ticket = req[r].ticket
      /\ req'[r].pc = "notify" \/ (req'[r].pc = "done" /\ req'[r].out = "ok")
      /\ \A x \in Requests \ {r} : req'[x] = req[x]
  <2> DEFINE Moves(q) ==
        /\ q.op = req[r].op /\ q.arg = req[r].arg
        /\ q.actor = req[r].actor /\ q.snap = req[r].snap
        /\ q.ticket = req[r].ticket
        /\ q.pc = "notify" \/ (q.pc = "done" /\ q.out = "ok")
  <2>1. /\ Moves([req[r] EXCEPT !.pc = "notify"])
        /\ Moves([req[r] EXCEPT !.pc = "done", !.out = "ok"])
    BY <1>1 DEF Request
  <2>2. \E q : Moves(q) /\ req' = [req EXCEPT ![r] = q]
    <3> HIDE DEF Moves
    <3> QED BY <1>3, <2>1
  <2> QED BY <1>1, <2>2 DEF ServiceTypeOK
<1>5. \E e \in TicketEvent :
        /\ InsertEvent(req[r].ticket, e)
        /\ e.by = r
        /\ e.kind # "escalamiento"
        /\ req[r].op # "comment" => e = ChangeOf(r)
  <2>1. CASE AssignEvent(r)
    <3> DEFINE e == [kind |-> "asignacion", by |-> r, actor |-> req[r].actor,
                     from |-> req[r].snap.assignee, to |-> req[r].arg]
    <3>1. /\ req[r].op = "assign" /\ InsertEvent(req[r].ticket, e)
          /\ req[r].arg \in Staff
          /\ req[r].snap.assignee \in Staff \cup {NoUser}
      BY <1>1, <2>1 DEF AssignEvent, Running, Judged, Request
    <3>2. e \in TicketEvent
      BY <1>2, <3>1, EventTypes
    <3>3. e = ChangeOf(r) /\ e.by = r /\ e.kind # "escalamiento"
      BY <3>1 DEF ChangeOf
    <3> HIDE DEF e
    <3> QED BY <3>1, <3>2, <3>3
  <2>2. CASE StateEvent(r)
    <3> DEFINE e == [kind |-> IF req[r].arg = "resuelto" THEN "resolucion"
                                                       ELSE "cambio_estado",
                     by |-> r, actor |-> req[r].actor,
                     from |-> req[r].snap.status, to |-> req[r].arg]
    <3>1. /\ req[r].op = "state" /\ InsertEvent(req[r].ticket, e)
          /\ req[r].arg \in TicketStatus
          /\ req[r].snap.status \in TicketStatus
      BY <1>1, <2>2, StatusOfTransition
         DEF StateEvent, Running, Judged, TicketStatus
    <3>2. e \in TicketEvent
      BY <1>2, <3>1, EventTypes
    <3>3. e = ChangeOf(r) /\ e.by = r /\ e.kind # "escalamiento"
      BY <3>1 DEF ChangeOf
    <3> HIDE DEF e
    <3> QED BY <3>1, <3>2, <3>3
  <2>3. CASE CommentEvent(r)
    <3> DEFINE e == [kind |-> "comentario", by |-> r, actor |-> req[r].actor]
    <3>1. req[r].op = "comment" /\ InsertEvent(req[r].ticket, e)
      BY <2>3 DEF CommentEvent, Running
    <3>2. e \in TicketEvent
      BY <1>2, EventTypes
    <3>3. e.by = r /\ e.kind # "escalamiento"
      OBVIOUS
    <3> HIDE DEF e
    <3> QED BY <3>1, <3>2, <3>3
  <2> QED BY <2>1, <2>2, <2>3
<1> QED BY <1>1, <1>2, <1>4, <1>5, InsertAdds DEF Records

LEMMA EscalateEventAdds ==
  ASSUME IInv, NEW s \in Sweeps, EscalateEvent(s), UNCHANGED serviceVars
  PROVE  Escalates(s)
<1>1. sweep[s].cur \in Tickets /\ StoreTypeOK /\ EscalationTypeOK
  BY DEF EscalateEvent, IInv, TypeOK, SweepShape
<1>2. sweep[s].seen[sweep[s].cur] \in 0 .. MAX_LEVEL
  BY <1>1 DEF EscalationTypeOK, Sweep
<1>3. [kind |-> "escalamiento", by |-> s,
       from |-> sweep[s].seen[sweep[s].cur], to |-> Target(s, sweep[s].cur)]
        \in TicketEvent
  BY <1>1, <1>2, TargetType, EventTypes
<1>4. /\ sweep'[s].pc = "loop"
      /\ \A z \in Sweeps \ {s} : sweep'[z] = sweep[z]
  BY <1>1 DEF EscalateEvent, EscalationTypeOK, Sweep
<1> QED BY <1>1, <1>3, <1>4, InsertAdds
           DEF EscalateEvent, Escalates, serviceVars

LEMMA HistorySteps ==
  ASSUME IInv, [Next]_vars
  PROVE  \/ Quiet
         \/ \E r \in Requests : Records(r)
         \/ \E s \in Sweeps : Escalates(s)
<1>1. ASSUME UNCHANGED <<events, req>>
      PROVE  Quiet
  BY <1>1 DEF Quiet, Alike
<1>2. CASE Next
  BY <1>1, <1>2, NextCases, ReadIsQuiet, UpdateIsQuiet, EndIsQuiet,
     EventRecords, EscalateEventAdds
     DEF SweepStart, SweepScan, EscalateUpdate, SweepReturn, SweepDie, Tick,
         serviceVars
<1>3. CASE UNCHANGED vars
  BY <1>1, <1>3 DEF vars
<1> QED BY <1>2, <1>3

-----------------------------------------------------------------------------
(* The audit trail. *)

(* What the history of t may hold of r, given what r has done. *)
Truth(h, t, q, c, r) ==
  /\ \A i \in DOMAIN h :
       h[i].by = r =>
         \/ IsRecorded(q) /\ q.ticket = t /\ h[i] = c
         \/ IsCommented(q)
  /\ \A i, j \in DOMAIN h : h[i].by = r /\ h[j].by = r => i = j
  /\ IsRecorded(q) /\ q.ticket = t => \E i \in DOMAIN h : h[i].by = r

LEMMA AuditIsTruth ==
  AuditTellsTheTruth <=>
    \A t \in Tickets, r \in Requests :
      Truth(events[t], t, req[r], ChangeOf(r), r)
<1>1. \A r \in Requests, t \in Tickets :
        (r \in CommittedOn(t) /\ req[r].pc \in {"notify", "done"})
          <=> (IsRecorded(req[r]) /\ req[r].ticket = t)
  BY DEF CommittedOn, Committed, IsRecorded
<1> QED BY <1>1 DEF AuditTellsTheTruth, Truth, IsCommented

LEMMA ChangeKept ==
  ASSUME NEW r \in Requests,
         req'[r].op = req[r].op, req'[r].arg = req[r].arg,
         req'[r].actor = req[r].actor, req'[r].snap = req[r].snap
  PROVE  ChangeOf(r)' = ChangeOf(r)
BY DEF ChangeOf

(* An event of somebody else changes nothing. *)
LEMMA TruthOfOthers ==
  ASSUME NEW t0 \in Tickets, NEW e, Adds(t0, e), NEW t \in Tickets,
         NEW x, e.by # x, NEW q, NEW c, Truth(events[t], t, q, c, x)
  PROVE  Truth(events'[t], t, q, c, x)
<1>1. CASE t # t0
  BY <1>1 DEF Adds
<1>2. CASE t = t0
  <2>1. \A i \in DOMAIN events'[t] :
          events'[t][i].by = x =>
            i \in DOMAIN events[t] /\ events'[t][i] = events[t][i]
    BY <1>2 DEF Adds
  <2>2. \A i \in DOMAIN events[t] :
          i \in DOMAIN events'[t] /\ events'[t][i] = events[t][i]
    BY <1>2 DEF Adds
  <2> QED BY <2>1, <2>2 DEF Truth
<1> QED BY <1>1, <1>2

LEMMA TruthOfQuiet ==
  ASSUME Quiet, NEW t \in Tickets, NEW r \in Requests,
         Truth(events[t], t, req[r], ChangeOf(r), r)
  PROVE  Truth(events'[t], t, req'[r], ChangeOf(r)', r)
<1>1. events' = events /\ Alike(req[r], req'[r])
  BY DEF Quiet
<1>2. IsRecorded(req[r]) => ChangeOf(r)' = ChangeOf(r)
  BY <1>1, ChangeKept DEF Alike
<1> QED BY <1>1, <1>2 DEF Truth, Alike

LEMMA TruthOfRecord ==
  ASSUME NEW r \in Requests, Records(r), NEW t \in Tickets,
         Truth(events[t], t, req[r], ChangeOf(r), r)
  PROVE  Truth(events'[t], t, req'[r], ChangeOf(r)', r)
<1>1. PICK e \in TicketEvent :
        /\ Adds(req[r].ticket, e)
        /\ e.by = r
        /\ req[r].op # "comment" => e = ChangeOf(r)
  BY DEF Records
<1>2. \A i \in DOMAIN events[t] : events[t][i].by # r
  BY DEF Truth, Records, IsRecorded, IsCommented
<1>3. ChangeOf(r)' = ChangeOf(r)
  BY ChangeKept DEF Records
<1>4. /\ IsRecorded(req'[r]) <=> req[r].op # "comment"
      /\ IsCommented(req'[r]) <=> req[r].op = "comment"
      /\ req'[r].ticket = req[r].ticket
  BY DEF Records, IsRecorded, IsCommented
<1>5. CASE t # req[r].ticket
  <2>1. events'[t] = events[t]
    BY <1>1, <1>5 DEF Adds
  <2> QED BY <1>2, <1>4, <1>5, <2>1 DEF Truth
<1>6. CASE t = req[r].ticket
  <2> DEFINE n == Len(events[t]) + 1
  <2>1. /\ n \in DOMAIN events'[t] /\ events'[t][n] = e
        /\ \A i \in DOMAIN events'[t] : events'[t][i].by = r <=> i = n
    BY <1>1, <1>2, <1>6 DEF Adds
  <2> HIDE DEF n
  <2> QED BY <1>1, <1>3, <1>4, <1>6, <2>1 DEF Truth
<1> QED BY <1>5, <1>6

LEMMA AuditStep ==
  ASSUME IInv, AuditTellsTheTruth,
         \/ Quiet
         \/ \E r \in Requests : Records(r)
         \/ \E s \in Sweeps : Escalates(s)
  PROVE  AuditTellsTheTruth'
<1>1. \A t \in Tickets, r \in Requests :
        Truth(events[t], t, req[r], ChangeOf(r), r)
  BY AuditIsTruth
<1> SUFFICES ASSUME NEW t \in Tickets, NEW r \in Requests
             PROVE  Truth(events'[t], t, req'[r], ChangeOf(r)', r)
  <2>1. \A x \in Requests, y \in Tickets :
          (x \in CommittedOn(y) /\ req[x].pc \in {"notify", "done"})'
            <=> (IsRecorded(req'[x]) /\ req'[x].ticket = y)
    BY DEF CommittedOn, Committed, IsRecorded
  <2> QED BY <2>1 DEF AuditTellsTheTruth, Truth, IsCommented
<1>2. CASE Quiet
  BY <1>1, <1>2, TruthOfQuiet
<1>3. ASSUME NEW x \in Requests, Records(x)
      PROVE  Truth(events'[t], t, req'[r], ChangeOf(r)', r)
  <2>1. CASE x = r
    BY <1>1, <1>3, <2>1, TruthOfRecord
  <2>2. CASE x # r
    <3>1. req'[r] = req[r] /\ ChangeOf(r)' = ChangeOf(r)
      BY <1>3, <2>2 DEF Records, ChangeOf
    <3>2. PICK e \in TicketEvent : Adds(req[x].ticket, e) /\ e.by = x
      BY <1>3 DEF Records
    <3>3. req[x].ticket \in Tickets
      BY <1>3 DEF Records
    <3> QED BY <1>1, <2>2, <3>1, <3>2, <3>3, TruthOfOthers
  <2> QED BY <2>1, <2>2
<1>4. ASSUME NEW s \in Sweeps, Escalates(s)
      PROVE  Truth(events'[t], t, req'[r], ChangeOf(r)', r)
  <2>1. req'[r] = req[r] /\ ChangeOf(r)' = ChangeOf(r)
    BY <1>4 DEF Escalates, ChangeOf
  <2>2. s # r
    BY StoreAssumption
  <2> DEFINE e == [kind |-> "escalamiento", by |-> s,
                   from |-> sweep[s].seen[sweep[s].cur],
                   to |-> Target(s, sweep[s].cur)]
  <2>3. Adds(sweep[s].cur, e) /\ sweep[s].cur \in Tickets /\ e.by # r
    BY <1>4, <2>2 DEF Escalates
  <2> HIDE DEF e
  <2> QED BY <1>1, <2>1, <2>3, TruthOfOthers
<1> QED BY <1>2, <1>3, <1>4

-----------------------------------------------------------------------------
(* Resolutions and their mails. *)

(* q, which replaces p, resolves nothing that p did not. *)
Settles(p, q) ==
  /\ Resolves(q) => Resolves(p) /\ q.ticket = p.ticket
  /\ q.pc = "notify" /\ q.op = "state" =>
       \/ q.arg = "resuelto"
       \/ p.pc = "notify" /\ p.op = "state" /\ q.arg = p.arg

(* The row of x holds its solution. *)
IsSolvedBy(x) ==
  /\ row[req[x].ticket].status = "resuelto"
  /\ row[req[x].ticket].solution = x

LEMMA OneSettles ==
  ASSUME ServiceTypeOK, NEW r \in Requests, NEW q,
         req' = [req EXCEPT ![r] = q], Settles(req[r], q)
  PROVE  \A x \in Requests : Settles(req[x], req'[x])
<1>1. \A x \in Requests : req'[x] = IF x = r THEN q ELSE req[x]
  BY DEF ServiceTypeOK
<1>2. \A p : Settles(p, p)
  BY DEF Settles
<1> QED BY <1>1, <1>2

LEMMA ReadSettles ==
  ASSUME IInv, NEW r \in Requests,
         \/ \E u \in Staff, t \in Tickets, a \in Users \cup {NoUser} :
              \E v \in Expectable(r, t) : AssignRead(r, u, t, a, v)
         \/ \E u \in Staff, t \in Tickets,
               next \in {"en_progreso", "resuelto"}, complete \in BOOLEAN :
              \E v \in Expectable(r, t) :
                StateRead(r, u, t, next, complete, v)
         \/ \E u \in Users, t \in Tickets : CommentRead(r, u, t)
         \/ NotFound(r)
  PROVE  \A x \in Requests : Settles(req[x], req'[x])
<1>1. ServiceTypeOK
  BY DEF IInv, TypeOK
<1>2. ASSUME NEW code, Answer(r, code)
      PROVE  \A x \in Requests : Settles(req[x], req'[x])
  <2> DEFINE q == [Blank EXCEPT !.pc = "done", !.out = code]
  <2>1. q.op = "none"
    BY DEF Blank
  <2>2. req' = [req EXCEPT ![r] = q]
    BY <1>2 DEF Answer
  <2> HIDE DEF q
  <2> QED BY <1>1, <2>1, <2>2, OneSettles DEF Settles, Resolves
<1>3. ASSUME NEW pc, NEW op, NEW u, NEW t, NEW arg, NEW exp,
             pc = "update" \/ op = "comment",
             Begin(r, pc, op, u, t, arg, exp)
      PROVE  \A x \in Requests : Settles(req[x], req'[x])
  <2> DEFINE q == [pc |-> pc, alive |-> TRUE, op |-> op, actor |-> u,
                   ticket |-> t, arg |-> arg, exp |-> exp,
                   snap |-> Snapshot(t), out |-> "none"]
  <2>1. q.pc = pc /\ q.op = op /\ q.out = "none"
    OBVIOUS
  <2>2. req' = [req EXCEPT ![r] = q]
    BY <1>3 DEF Begin
  <2> HIDE DEF q
  <2> QED BY <1>1, <1>3, <2>1, <2>2, OneSettles DEF Settles, Resolves
<1> QED BY <1>2, <1>3 DEF AssignRead, StateRead, CommentRead, NotFound

LEMMA UpdateSettles ==
  ASSUME IInv, NEW r \in Requests, AssignUpdate(r) \/ StateUpdate(r),
         NEW x \in Requests
  PROVE  \/ Settles(req[x], req'[x])
         \/ /\ req'[x].pc = "event"
            /\ req'[x].arg = "resuelto" => IsSolvedBy(x)'
<1>1. /\ ServiceTypeOK /\ StoreTypeOK /\ req[r] \in Request
      /\ WellShaped(req[r])
      /\ req[r].pc = "update" /\ req[r].op \in {"assign", "state"}
  BY DEF AssignUpdate, StateUpdate, Running, IInv, TypeOK, ServiceTypeOK,
         RequestShape
<1>2. req[r].ticket \in Tickets
  BY <1>1 DEF WellShaped
<1>3. CASE req' = [req EXCEPT ![r] =
                     [req[r] EXCEPT !.pc = "done", !.out = "conflict"]]
  <2>1. Settles(req[r], [req[r] EXCEPT !.pc = "done", !.out = "conflict"])
    BY <1>1 DEF Settles, Resolves, Request
  <2> QED BY <1>1, <1>3, <2>1, OneSettles
<1>4. CASE /\ AssignUpdate(r)
           /\ req' = [req EXCEPT ![r] = [req[r] EXCEPT !.pc = "event"]]
  <2>1. Settles(req[r], [req[r] EXCEPT !.pc = "event"])
    BY <1>1, <1>4 DEF Settles, Resolves, Request, AssignUpdate, Running
  <2> QED BY <1>1, <1>4, <2>1, OneSettles
<1>5. CASE /\ req' = [req EXCEPT ![r] = [req[r] EXCEPT !.pc = "event"]]
           /\ row' = [row EXCEPT ![req[r].ticket] =
                         Moved(row[req[r].ticket], req[r].arg, r)]
  <2>1. /\ req'[r].pc = "event" /\ req'[r].arg = req[r].arg
        /\ req'[r].ticket = req[r].ticket
        /\ \A y \in Requests \ {r} : req'[y] = req[y]
    BY <1>1, <1>5 DEF ServiceTypeOK, Request
  <2>2. req[r].arg = "resuelto" =>
          /\ Moved(row[req[r].ticket], req[r].arg, r).status = "resuelto"
          /\ Moved(row[req[r].ticket], req[r].arg, r).solution = r
    <3>1. row[req[r].ticket] \in Ticket
      BY <1>1, <1>2 DEF StoreTypeOK
    <3> QED BY <3>1 DEF Moved, Ticket
  <2>3. row'[req[r].ticket] = Moved(row[req[r].ticket], req[r].arg, r)
    BY <1>1, <1>2, <1>5 DEF StoreTypeOK
  <2>4. CASE x = r
    BY <2>1, <2>2, <2>3, <2>4 DEF IsSolvedBy
  <2>5. CASE x # r
    BY <2>1, <2>5 DEF Settles
  <2> QED BY <2>4, <2>5
<1> QED BY <1>3, <1>4, <1>5 DEF AssignUpdate, StateUpdate, GoTo

LEMMA EventSettles ==
  ASSUME IInv, NEW r \in Requests,
         \/ AssignEvent(r) \/ StateEvent(r) \/ CommentEvent(r)
         \/ NotifyReporter(r) \/ Crash(r)
  PROVE  \A x \in Requests : Settles(req[x], req'[x])
<1>1. ServiceTypeOK /\ req[r] \in Request /\ WellShaped(req[r])
  BY DEF IInv, TypeOK, ServiceTypeOK, RequestShape
<1>2. CASE AssignEvent(r) \/ CommentEvent(r)
  <2>1. req' = [req EXCEPT ![r] = [req[r] EXCEPT !.pc = "notify"]]
    BY <1>2 DEF AssignEvent, CommentEvent, GoTo
  <2>2. Settles(req[r], [req[r] EXCEPT !.pc = "notify"])
    BY <1>1, <1>2 DEF Settles, Resolves, Request, AssignEvent, CommentEvent,
                      Running
  <2> QED BY <1>1, <2>1, <2>2, OneSettles
<1>3. CASE StateEvent(r) /\ req[r].arg = "resuelto"
  <2>1. req' = [req EXCEPT ![r] = [req[r] EXCEPT !.pc = "notify"]]
    BY <1>3 DEF StateEvent, GoTo
  <2>2. Settles(req[r], [req[r] EXCEPT !.pc = "notify"])
    BY <1>1, <1>3 DEF Settles, Resolves, Request, StateEvent, Running
  <2> QED BY <1>1, <2>1, <2>2, OneSettles
<1>4. CASE \/ StateEvent(r) /\ req[r].arg # "resuelto"
           \/ NotifyReporter(r)
  <2>1. req' = [req EXCEPT ![r] = [req[r] EXCEPT !.pc = "done", !.out = "ok"]]
    BY <1>4 DEF StateEvent, NotifyReporter
  <2>2. Settles(req[r], [req[r] EXCEPT !.pc = "done", !.out = "ok"])
    BY <1>1, <1>4 DEF Settles, Resolves, Request, StateEvent, NotifyReporter,
                      Running
  <2> QED BY <1>1, <2>1, <2>2, OneSettles
<1>5. CASE Crash(r) /\ req[r].pc = "update"
  <2>1. req' = [req EXCEPT ![r] = [Blank EXCEPT !.alive = FALSE]]
    BY <1>5 DEF Crash
  <2>2. Settles(req[r], [Blank EXCEPT !.alive = FALSE])
    BY DEF Settles, Resolves, Blank
  <2> QED BY <1>1, <2>1, <2>2, OneSettles
<1>6. CASE Crash(r) /\ req[r].pc # "update"
  <2>1. req' = [req EXCEPT ![r] = [req[r] EXCEPT !.alive = FALSE]]
    BY <1>6 DEF Crash
  <2>2. Settles(req[r], [req[r] EXCEPT !.alive = FALSE])
    BY <1>1 DEF Settles, Resolves, Request
  <2> QED BY <1>1, <2>1, <2>2, OneSettles
<1> QED BY <1>2, <1>3, <1>4, <1>5, <1>6

LEMMA SettleSteps ==
  ASSUME IInv, [Next]_vars, NEW x \in Requests
  PROVE  \/ Settles(req[x], req'[x])
         \/ /\ req'[x].pc = "event"
            /\ req'[x].arg = "resuelto" => IsSolvedBy(x)'
<1>1. ASSUME UNCHANGED req
      PROVE  Settles(req[x], req'[x])
  BY <1>1 DEF Settles
<1>2. CASE Next
  BY <1>1, <1>2, NextCases, ReadSettles, UpdateSettles, EventSettles
     DEF serviceVars
<1>3. CASE UNCHANGED vars
  BY <1>1, <1>3 DEF vars
<1> QED BY <1>2, <1>3

LEMMA SolutionStep ==
  ASSUME IInv, SolutionsStay, OnlyResolutionsNotify, [Next]_vars
  PROVE  SolutionsStay' /\ OnlyResolutionsNotify'
<1>1. ASSUME NEW x \in Requests, Resolves(req'[x])
      PROVE  IsSolvedBy(x)'
  <2>1. CASE Settles(req[x], req'[x])
    <3>1. Resolves(req[x]) /\ req'[x].ticket = req[x].ticket
      BY <1>1, <2>1 DEF Settles
    <3>2. req[x].ticket \in Tickets
      BY <3>1 DEF Resolves, IInv, RequestShape, WellShaped
    <3>3. row[req[x].ticket].status = "resuelto"
          /\ row[req[x].ticket].solution = x
      BY <3>1 DEF SolutionsStay
    <3> QED BY <3>1, <3>2, <3>3, RowFields DEF IsSolvedBy
  <2> QED BY <1>1, <2>1, SettleSteps DEF Resolves
<1>2. ASSUME NEW x \in Requests,
             req'[x].pc = "notify" /\ req'[x].op = "state"
      PROVE  req'[x].arg = "resuelto"
  BY <1>2, SettleSteps DEF Settles, OnlyResolutionsNotify
<1> QED BY <1>1, <1>2 DEF SolutionsStay, OnlyResolutionsNotify, IsSolvedBy

(* Histories are append only. *)
LEMMA HistoriesGrow ==
  ASSUME IInv, [Next]_vars, NEW t \in Tickets, NEW i \in DOMAIN events[t]
  PROVE  i \in DOMAIN events'[t] /\ events'[t][i] = events[t][i]
<1>1. ASSUME NEW t0 \in Tickets, NEW e, Adds(t0, e)
      PROVE  i \in DOMAIN events'[t] /\ events'[t][i] = events[t][i]
  BY <1>1 DEF Adds
<1>2. CASE Quiet
  BY <1>2 DEF Quiet
<1> QED BY <1>1, <1>2, HistorySteps DEF Records, Escalates

LEMMA SentSteps ==
  ASSUME [Next]_vars
  PROVE  sent' = sent \/ \E r \in Requests : NotifyReporter(r)
<1>1. CASE Next
  <2>1. ASSUME NEW r \in Requests, NEW u \in Staff, NEW t \in Tickets,
               NEW a \in Users \cup {NoUser}, NEW v \in Expectable(r, t),
               AssignRead(r, u, t, a, v)
        PROVE  sent' = sent
    BY <2>1 DEF AssignRead
  <2>2. ASSUME NEW r \in Requests, NEW u \in Staff, NEW t \in Tickets,
               NEW next \in {"en_progreso", "resuelto"}, NEW complete \in BOOLEAN,
               NEW v \in Expectable(r, t), StateRead(r, u, t, next, complete, v)
        PROVE  sent' = sent
    BY <2>2 DEF StateRead
  <2>3. ASSUME NEW r \in Requests, NEW u \in Users, NEW t \in Tickets,
               CommentRead(r, u, t)
        PROVE  sent' = sent
    BY <2>3 DEF CommentRead
  <2>4. ASSUME NEW r \in Requests,
               \/ AssignUpdate(r) \/ AssignEvent(r) \/ StateUpdate(r) \/ StateEvent(r)
               \/ CommentEvent(r) \/ NotFound(r) \/ Crash(r)
        PROVE  sent' = sent
    BY <2>4 DEF AssignUpdate, AssignEvent, StateUpdate, StateEvent, CommentEvent,
                NotFound, Crash
  <2>5. UNCHANGED serviceVars => sent' = sent
    BY DEF serviceVars
  <2> QED BY <1>1, NextCases, <2>1, <2>2, <2>3, <2>4, <2>5
<1>2. CASE UNCHANGED vars
  BY <1>2 DEF vars
<1> QED BY <1>1, <1>2

(* What is mailed of a ticket: the row and the history tell of it. *)
IsResolutionMail(m) ==
  /\ row[m.ticket].status = "resuelto"
  /\ row[m.ticket].solution = m.by
  /\ \E i \in DOMAIN events[m.ticket] :
       /\ events[m.ticket][i].kind = "resolucion"
       /\ events[m.ticket][i].by = m.by

LEMMA MailStays ==
  ASSUME IInv, [Next]_vars, NEW m, m.ticket \in Tickets, IsResolutionMail(m)
  PROVE  IsResolutionMail(m)'
<1>1. PICK i \in DOMAIN events[m.ticket] :
        /\ events[m.ticket][i].kind = "resolucion"
        /\ events[m.ticket][i].by = m.by
  BY DEF IsResolutionMail
<1>2. i \in DOMAIN events'[m.ticket]
      /\ events'[m.ticket][i] = events[m.ticket][i]
  BY HistoriesGrow
<1>3. /\ row'[m.ticket].status = "resuelto"
      /\ row'[m.ticket].solution = m.by
  BY RowFields DEF IsResolutionMail
<1> QED BY <1>1, <1>2, <1>3 DEF IsResolutionMail

LEMMA NewMail ==
  ASSUME IInv, AuditTellsTheTruth, SolutionsStay, OnlyResolutionsNotify,
         NEW r \in Requests, NotifyReporter(r), NEW m,
         m = [type |-> NotifyType(req[r].op), ticket |-> req[r].ticket,
              by |-> r],
         m.type = "ticket.resolved"
  PROVE  m.ticket \in Tickets /\ IsResolutionMail(m)
<1>1. /\ req[r].pc = "notify"
      /\ req[r].op \in {"assign", "state", "comment"}
      /\ req[r].ticket \in Tickets
  BY DEF NotifyReporter, IInv, TypeOK, ServiceTypeOK, Request, RequestShape,
         WellShaped
<1>2. req[r].op = "state" /\ req[r].arg = "resuelto"
  BY <1>1 DEF NotifyType, OnlyResolutionsNotify
<1>3. Resolves(req[r]) /\ IsRecorded(req[r]) /\ ~IsCommented(req[r])
  BY <1>1, <1>2 DEF Resolves, IsRecorded, IsCommented
<1>4. Truth(events[req[r].ticket], req[r].ticket, req[r], ChangeOf(r), r)
  BY <1>1, AuditIsTruth
<1>5. PICK i \in DOMAIN events[req[r].ticket] :
        /\ events[req[r].ticket][i].by = r
        /\ events[req[r].ticket][i] = ChangeOf(r)
  BY <1>3, <1>4 DEF Truth
<1>6. ChangeOf(r).kind = "resolucion"
  BY <1>2 DEF ChangeOf
<1> QED BY <1>1, <1>3, <1>5, <1>6 DEF SolutionsStay, IsResolutionMail

LEMMA MailStep ==
  ASSUME IInv, AuditTellsTheTruth, SolutionsStay, OnlyResolutionsNotify,
         MailsAreOfResolutions, [Next]_vars
  PROVE  MailsAreOfResolutions'
<1> SUFFICES ASSUME NEW m \in sent', m.type = "ticket.resolved"
             PROVE  IsResolutionMail(m)'
  BY DEF MailsAreOfResolutions, IsResolutionMail
<1>1. CASE m \in sent
  <2>1. m.ticket \in Tickets
    BY <1>1 DEF IInv, TypeOK, ServiceTypeOK, Notification
  <2>2. IsResolutionMail(m)
    BY <1>1 DEF MailsAreOfResolutions, IsResolutionMail
  <2> QED BY <2>1, <2>2, MailStays
<1>2. CASE m \notin sent
  <2>1. PICK r \in Requests : NotifyReporter(r)
    BY <1>2, SentSteps
  <2>2. m = [type |-> NotifyType(req[r].op), ticket |-> req[r].ticket,
             by |-> r]
    BY <1>2, <2>1 DEF NotifyReporter
  <2>3. m.ticket \in Tickets /\ IsResolutionMail(m)
    BY <2>1, <2>2, NewMail
  <2> QED BY <2>3, MailStays
<1> QED BY <1>1, <1>2

-----------------------------------------------------------------------------
(* Levels. *)

LEMMA RaiseTypes ==
  ASSUME StoreTypeOK, NEW t \in Tickets, NEW i \in Raises(t)
  PROVE  events[t][i].from \in 0 .. MAX_LEVEL
         /\ events[t][i].to \in 0 .. MAX_LEVEL
<1>1. events[t] \in Seq(TicketEvent) /\ i \in DOMAIN events[t]
  BY DEF StoreTypeOK, Raises
<1>2. events[t][i] \in TicketEvent /\ events[t][i].kind = "escalamiento"
  BY <1>1 DEF Raises
<1> QED BY <1>2 DEF TicketEvent

SameLevels == \A t \in Tickets : row'[t].level = row[t].level

SameRaises ==
  \A t \in Tickets :
    /\ Raises(t)' = Raises(t)
    /\ \A i \in Raises(t) : events'[t][i] = events[t][i]

FewerPending ==
  \A s \in Sweeps, t \in Tickets :
    Pending(s, t)' => /\ Pending(s, t)
                      /\ sweep'[s].seen[t] = sweep[s].seen[t]
                      /\ Target(s, t)' = Target(s, t)

LEMMA CalmStep ==
  ASSUME RaisesLieApart, SameLevels, SameRaises, FewerPending
  PROVE  RaisesLieApart'
BY DEF RaisesLieApart, SameLevels, SameRaises, FewerPending

LEMMA RequestKeepsLevels ==
  ASSUME StoreTypeOK, RequestShape, NEW r \in Requests,
         UNCHANGED row \/ AssignUpdate(r) \/ StateUpdate(r)
  PROVE  SameLevels
<1>1. CASE UNCHANGED row
  BY <1>1 DEF SameLevels
<1>2. CASE AssignUpdate(r) \/ StateUpdate(r)
  <2>1. req[r].ticket \in Tickets
    BY <1>2 DEF AssignUpdate, StateUpdate, Running, RequestShape, WellShaped
  <2> DEFINE x == row[req[r].ticket]
  <2>2. x \in Ticket
    BY <2>1 DEF StoreTypeOK
  <2>3. /\ Assigned(x, req[r].arg).level = x.level
        /\ Moved(x, req[r].arg, r).level = x.level
    BY <2>2 DEF Assigned, Moved, Ticket
  <2>4. \/ row' = row
        \/ row' = [row EXCEPT ![req[r].ticket] = Assigned(x, req[r].arg)]
        \/ row' = [row EXCEPT ![req[r].ticket] = Moved(x, req[r].arg, r)]
    BY <1>2 DEF AssignUpdate, StateUpdate
  <2> HIDE DEF x
  <2>5. \A t \in Tickets :
          \/ row'[t] = row[t]
          \/ /\ t = req[r].ticket
             /\ \/ row'[t] = Assigned(x, req[r].arg)
                \/ row'[t] = Moved(x, req[r].arg, r)
    BY <2>4 DEF StoreTypeOK
  <2> QED BY <2>3, <2>5 DEF SameLevels, x
<1> QED BY <1>1, <1>2

LEMMA QuietRaises ==
  ASSUME Quiet \/ \E r \in Requests : Records(r)
  PROVE  SameRaises
<1>1. CASE Quiet
  BY <1>1 DEF Quiet, SameRaises, Raises
<1>2. ASSUME NEW r \in Requests, Records(r)
      PROVE  SameRaises
  <2>1. PICK e \in TicketEvent :
          Adds(req[r].ticket, e) /\ e.kind # "escalamiento"
    BY <1>2 DEF Records
  <2>2. ASSUME NEW t \in Tickets
        PROVE  /\ Raises(t)' = Raises(t)
               /\ \A i \in Raises(t) : events'[t][i] = events[t][i]
    <3>1. CASE t = req[r].ticket
      BY <2>1, <3>1 DEF Adds, Raises
    <3>2. CASE t # req[r].ticket
      BY <2>1, <3>2 DEF Adds, Raises
    <3> QED BY <3>1, <3>2
  <2> QED BY <2>2 DEF SameRaises
<1> QED BY <1>1, <1>2

LEMMA SamePending ==
  ASSUME UNCHANGED sweep
  PROVE  FewerPending
BY DEF FewerPending, Pending, Target

LEMMA LetGoPending ==
  ASSUME EscalationTypeOK, NEW s \in Sweeps,
         SweepStart(s) \/ SweepScan(s) \/ SweepReturn(s) \/ SweepDie(s)
  PROVE  FewerPending
<1>1. /\ sweep'[s].pc # "event"
      /\ \A z \in Sweeps \ {s} : sweep'[z] = sweep[z]
  <2>1. \E q : q.pc # "event" /\ sweep' = [sweep EXCEPT ![s] = q]
    <3>1. CASE SweepStart(s)
      <4> DEFINE q == [sweep[s] EXCEPT !.pc = "scan", !.at = now]
      <4>1. q.pc = "scan"
        BY DEF EscalationTypeOK, Sweep
      <4>2. sweep' = [sweep EXCEPT ![s] = q]
        BY <3>1 DEF SweepStart
      <4> HIDE DEF q
      <4> QED BY <4>1, <4>2
    <3>2. CASE SweepScan(s)
      <4> DEFINE todo == {t \in Candidates \cap RuledTickets :
                            decideEscalationLevel(t, sweep[s].at)
                              > row[t].level}
                 seen == [t \in Tickets |-> row[t].level]
                 q == [sweep[s] EXCEPT !.pc = "loop", !.todo = todo,
                                       !.seen = seen]
      <4>1. sweep' = [sweep EXCEPT ![s] = q]
        BY <3>2 DEF SweepScan
      <4> HIDE DEF todo, seen
      <4>2. q.pc = "loop"
        BY DEF EscalationTypeOK, Sweep
      <4> HIDE DEF q
      <4> QED BY <4>1, <4>2
    <3>3. CASE SweepReturn(s) \/ SweepDie(s)
      <4>1. AtRest.pc = "idle"
        BY DEF AtRest
      <4> QED BY <3>3, <4>1 DEF SweepReturn, SweepDie
    <3> QED BY <3>1, <3>2, <3>3
  <2> QED BY <2>1 DEF EscalationTypeOK
<1> QED BY <1>1 DEF FewerPending, Pending, Target

(* A raise that wins begins where all earlier ones have ended. *)
LEMMA RaiseStep ==
  ASSUME IInv, RaisesLieApart, NEW s \in Sweeps, NEW u \in Tickets,
         EscalateUpdate(s, u)
  PROVE  RaisesLieApart'
<1>1. /\ StoreTypeOK /\ EscalationTypeOK /\ UNCHANGED events
      /\ sweep[s].pc = "loop" /\ u \in sweep[s].todo
  BY DEF IInv, TypeOK, EscalateUpdate
<1>2. SameRaises
  BY <1>1 DEF SameRaises, Raises
<1>3. \A z \in Sweeps \ {s} : sweep'[z] = sweep[z]
  BY <1>1 DEF EscalateUpdate, EscalationTypeOK
<1>4. CASE ~EscalateMatches(s, u)
  <2>1. SameLevels
    BY <1>4 DEF EscalateUpdate, SameLevels
  <2>2. sweep'[s].pc = "loop"
    BY <1>1, <1>4 DEF EscalateUpdate, EscalationTypeOK, Sweep
  <2>3. FewerPending
    BY <1>3, <2>2 DEF FewerPending, Pending, Target
  <2> QED BY <1>2, <2>1, <2>3, CalmStep
<1>5. CASE EscalateMatches(s, u)
  <2>1. /\ sweep'[s].pc = "event" /\ sweep'[s].cur = u
        /\ sweep'[s].seen = sweep[s].seen /\ sweep'[s].at = sweep[s].at
    BY <1>1, <1>5 DEF EscalateUpdate, EscalationTypeOK, Sweep
  <2>2. /\ row[u].level \in 0 .. MAX_LEVEL
        /\ Target(s, u) \in 0 .. MAX_LEVEL
        /\ sweep[s].seen[u] = row[u].level
        /\ sweep[s].seen[u] < Target(s, u)
    <3>1. Target(s, u) > sweep[s].seen[u]
      BY <1>1 DEF IInv, SweepShape
    <3>2. row[u].level \in 0 .. MAX_LEVEL
      BY <1>1 DEF StoreTypeOK, Ticket
    <3> QED BY <1>1, <1>5, <3>1, <3>2, TargetType DEF EscalateMatches
  <2>3. /\ row'[u].level = Target(s, u)
        /\ \A t \in Tickets \ {u} : row'[t] = row[t]
    <3>1. row[u] \in Ticket
      BY <1>1 DEF StoreTypeOK
    <3>2. [row[u] EXCEPT !.level = Target(s, u)].level = Target(s, u)
      BY <3>1 DEF Ticket
    <3>3. row' = [row EXCEPT ![u] = [row[u] EXCEPT !.level = Target(s, u)]]
      BY <1>5 DEF EscalateUpdate
    <3> QED BY <1>1, <3>2, <3>3 DEF StoreTypeOK
  <2>4. \A z \in Sweeps, t \in Tickets :
          Target(z, t)' = Target(z, t) /\ sweep'[z].seen[t] = sweep[z].seen[t]
    BY <1>3, <2>1 DEF Target, decideEscalationLevel
  <2>5. \A z \in Sweeps, t \in Tickets :
          Pending(z, t)' <=> Pending(z, t) \/ (z = s /\ t = u)
    BY <1>1, <1>3, <2>1 DEF Pending
  <2>6. /\ \A t \in Tickets : \A i \in Raises(t) :
             events[t][i].from \in Nat /\ events[t][i].to \in Nat
        /\ \A z \in Sweeps, t \in Tickets : Target(z, t) \in Nat
    BY <1>1, RaiseTypes, TargetType DEF MAX_LEVEL
  <2>7. ASSUME NEW t \in Tickets, NEW i \in Raises(t)
        PROVE  /\ events[t][i].to <= row'[t].level
               /\ \A z \in Sweeps :
                    Pending(z, t)' =>
                      Apart(events[t][i].from, events[t][i].to,
                            sweep[z].seen[t], Target(z, t))
    <3>1. /\ events[t][i].to <= row[t].level
          /\ \A z \in Sweeps :
               Pending(z, t) => Apart(events[t][i].from, events[t][i].to,
                                      sweep[z].seen[t], Target(z, t))
      BY DEF RaisesLieApart
    <3>2. CASE t # u
      BY <2>3, <2>5, <3>1, <3>2
    <3>3. CASE t = u
      <4>1. events[t][i].to <= row'[t].level
        BY <2>2, <2>3, <2>6, <3>1, <3>3 DEF MAX_LEVEL
      <4>2. events[t][i].to <= sweep[s].seen[t]
        BY <2>2, <3>1, <3>3
      <4> QED BY <2>5, <3>1, <4>1, <4>2 DEF Apart
    <3> QED BY <3>2, <3>3
  <2>8. ASSUME NEW z \in Sweeps, NEW t \in Tickets, Pending(z, t)'
        PROVE  /\ sweep[z].seen[t] < Target(z, t)
               /\ Target(z, t) <= row'[t].level
               /\ \A y \in Sweeps \ {z} :
                    Pending(y, t)' =>
                      Apart(sweep[z].seen[t], Target(z, t),
                            sweep[y].seen[t], Target(y, t))
    <3>1. \A y \in Sweeps :
            Pending(y, t) =>
              /\ sweep[y].seen[t] < Target(y, t)
              /\ Target(y, t) <= row[t].level
              /\ \A x \in Sweeps \ {y} :
                   Pending(x, t) => Apart(sweep[y].seen[t], Target(y, t),
                                          sweep[x].seen[t], Target(x, t))
      BY DEF RaisesLieApart
    <3>2. CASE t # u
      BY <2>3, <2>5, <2>8, <3>1, <3>2
    <3>3. CASE t = u /\ z = s
      <4>1. \A y \in Sweeps \ {s} : Pending(y, t)' => Pending(y, t)
        BY <2>5
      <4>2. \A y \in Sweeps \ {s} :
              Pending(y, t)' => Target(y, t) <= sweep[s].seen[t]
        BY <2>2, <3>1, <3>3, <4>1
      <4>3. Target(s, t) <= row'[t].level
        BY <2>3, <2>6, <3>3
      <4> QED BY <2>2, <3>3, <4>2, <4>3 DEF Apart
    <3>4. CASE t = u /\ z # s
      <4>1. Pending(z, t)
        BY <2>5, <2>8, <3>4
      <4>2. Target(z, t) <= sweep[s].seen[t]
        BY <2>2, <3>1, <3>4, <4>1
      <4>3. Target(z, t) <= row'[t].level
        BY <2>2, <2>3, <2>6, <3>4, <4>2 DEF MAX_LEVEL
      <4>4. \A y \in Sweeps \ {z} :
              Pending(y, t)' => y = s \/ Pending(y, t)
        BY <2>5
      <4> QED BY <3>1, <4>1, <4>2, <4>3, <4>4 DEF Apart
    <3> QED BY <3>2, <3>3, <3>4
  <2>9. \A t \in Tickets :
          /\ Raises(t)' = Raises(t)
          /\ events' = events
    BY <1>1, <1>2 DEF SameRaises
  <2>10. \A t \in Tickets : \A i \in Raises(t) :
           /\ events[t][i].from < events[t][i].to
           /\ \A j \in Raises(t) \ {i} :
                Apart(events[t][i].from, events[t][i].to,
                      events[t][j].from, events[t][j].to)
    BY DEF RaisesLieApart
  <2> HIDE DEF Raises, Pending, Target, Apart
  <2> QED BY <2>4, <2>7, <2>8, <2>9, <2>10 DEF RaisesLieApart
<1> QED BY <1>4, <1>5

(* What was pending is recorded as it was. *)
LEMMA RecordRaiseStep ==
  ASSUME IInv, RaisesLieApart, NEW s \in Sweeps, EscalateEvent(s),
         UNCHANGED serviceVars
  PROVE  RaisesLieApart'
<1>1. Escalates(s)
  BY EscalateEventAdds
<1> DEFINE u == sweep[s].cur
           n == Len(events[u]) + 1
           e == [kind |-> "escalamiento", by |-> s,
                 from |-> sweep[s].seen[u], to |-> Target(s, u)]
<1>2. u \in Tickets /\ Pending(s, u) /\ Adds(u, e) /\ UNCHANGED row
  BY <1>1 DEF Escalates, Pending
<1>3. e.kind = "escalamiento" /\ e.from = sweep[s].seen[u]
      /\ e.to = Target(s, u)
  OBVIOUS
<1> HIDE DEF e
<1>4. \A z \in Sweeps, t \in Tickets :
        /\ Pending(z, t)' <=> Pending(z, t) /\ z # s
        /\ Pending(z, t)' => /\ sweep'[z].seen[t] = sweep[z].seen[t]
                             /\ Target(z, t)' = Target(z, t)
  BY <1>1 DEF Escalates, Pending, Target
<1>5. \A t \in Tickets \ {u} : events'[t] = events[t] /\ Raises(t)' = Raises(t)
  BY <1>2 DEF Adds, Raises
<1>10. /\ DOMAIN events'[u] = DOMAIN events[u] \cup {n}
       /\ n \notin DOMAIN events[u] /\ events'[u][n] = e
       /\ \A i \in DOMAIN events[u] : events'[u][i] = events[u][i]
  BY <1>2 DEF Adds
<1> HIDE DEF n
<1>6. \A t \in Tickets :
        t = u => /\ Raises(t)' = Raises(u) \cup {n} /\ n \notin Raises(u)
                 /\ events'[t][n] = e
                 /\ \A i \in Raises(u) : events'[t][i] = events[u][i]
  BY <1>3, <1>10 DEF Raises
<1>7. /\ e.from < e.to /\ e.to <= row[u].level
      /\ \A i \in Raises(u) : Apart(events[u][i].from, events[u][i].to,
                                    e.from, e.to)
      /\ \A z \in Sweeps \ {s} :
           Pending(z, u) => Apart(e.from, e.to, sweep[z].seen[u], Target(z, u))
  BY <1>2, <1>3 DEF RaisesLieApart
<1>8. ASSUME NEW t \in Tickets, NEW i \in Raises(t)'
      PROVE  /\ events'[t][i].from < events'[t][i].to
             /\ events'[t][i].to <= row'[t].level
             /\ \A j \in Raises(t)' \ {i} :
                  Apart(events'[t][i].from, events'[t][i].to,
                        events'[t][j].from, events'[t][j].to)
             /\ \A z \in Sweeps :
                  Pending(z, t)' =>
                    Apart(events'[t][i].from, events'[t][i].to,
                          sweep'[z].seen[t], Target(z, t)')
  <2>1. CASE t # u
    BY <1>2, <1>4, <1>5, <1>8, <2>1 DEF RaisesLieApart
  <2>2. CASE t = u /\ i = n
    <3>1. events'[t][i] = e
      BY <1>6, <2>2
    <3>2. \A j \in Raises(t)' \ {i} :
            j \in Raises(u) /\ events'[t][j] = events[u][j]
      BY <1>6, <2>2
    <3>3. \A j \in Raises(t)' \ {i} :
            Apart(e.from, e.to, events'[t][j].from, events'[t][j].to)
      BY <1>7, <3>2 DEF Apart
    <3> QED BY <1>2, <1>4, <1>7, <2>2, <3>1, <3>3
  <2>3. CASE t = u /\ i # n
    <3>1. i \in Raises(u) /\ events'[t][i] = events[u][i]
      BY <1>6, <1>8, <2>3
    <3>2. \A j \in Raises(t)' \ {i} :
            \/ events'[t][j] = e
            \/ j \in Raises(u) /\ events'[t][j] = events[u][j]
      BY <1>6, <2>3
    <3>3. \A j \in Raises(t)' \ {i} :
            Apart(events'[t][i].from, events'[t][i].to,
                  events'[t][j].from, events'[t][j].to)
      BY <1>2, <1>7, <3>1, <3>2 DEF RaisesLieApart
    <3> QED BY <1>2, <1>4, <2>3, <3>1, <3>3 DEF RaisesLieApart
  <2> QED BY <2>1, <2>2, <2>3
<1>9. ASSUME NEW z \in Sweeps, NEW t \in Tickets, Pending(z, t)'
      PROVE  /\ sweep'[z].seen[t] < Target(z, t)'
             /\ Target(z, t)' <= row'[t].level
             /\ \A y \in Sweeps \ {z} :
                  Pending(y, t)' =>
                    Apart(sweep'[z].seen[t], Target(z, t)',
                          sweep'[y].seen[t], Target(y, t)')
  BY <1>2, <1>4, <1>9 DEF RaisesLieApart
<1> QED BY <1>8, <1>9 DEF RaisesLieApart

LEMMA LevelStep ==
  ASSUME IInv, RaisesLieApart, [Next]_vars
  PROVE  RaisesLieApart'
<1>0. StoreTypeOK /\ EscalationTypeOK /\ RequestShape
  BY DEF IInv, TypeOK
<1>1. ASSUME UNCHANGED <<row, events>>, FewerPending
      PROVE  RaisesLieApart'
  <2>1. SameLevels /\ SameRaises
    BY <1>1 DEF SameLevels, SameRaises, Raises
  <2> QED BY <1>1, <2>1, CalmStep
<1>2. ASSUME NEW r \in Requests, UNCHANGED escalationVars,
             UNCHANGED row \/ AssignUpdate(r) \/ StateUpdate(r),
             Quiet \/ Records(r)
      PROVE  RaisesLieApart'
  <2>1. SameLevels
    BY <1>0, <1>2, RequestKeepsLevels
  <2>2. SameRaises
    BY <1>2, QuietRaises
  <2>3. FewerPending
    BY <1>2, SamePending DEF escalationVars
  <2> QED BY <2>1, <2>2, <2>3, CalmStep
<1>3. CASE Next
  <2>1. ASSUME NEW r \in Requests, UNCHANGED escalationVars,
               \/ \E u \in Staff, t \in Tickets, a \in Users \cup {NoUser} :
                    \E v \in Expectable(r, t) : AssignRead(r, u, t, a, v)
               \/ \E u \in Staff, t \in Tickets,
                     next \in {"en_progreso", "resuelto"},
                     complete \in BOOLEAN :
                    \E v \in Expectable(r, t) :
                      StateRead(r, u, t, next, complete, v)
               \/ \E u \in Users, t \in Tickets : CommentRead(r, u, t)
               \/ NotFound(r)
        PROVE  RaisesLieApart'
    BY <1>2, <2>1, ReadIsQuiet DEF AssignRead, StateRead, CommentRead, NotFound
  <2>2. ASSUME NEW r \in Requests, UNCHANGED escalationVars,
               \/ AssignUpdate(r) \/ StateUpdate(r)
               \/ NotifyReporter(r) \/ Crash(r)
        PROVE  RaisesLieApart'
    BY <1>2, <2>2, UpdateIsQuiet, EndIsQuiet DEF NotifyReporter, Crash
  <2>3. ASSUME NEW r \in Requests, UNCHANGED escalationVars,
               AssignEvent(r) \/ StateEvent(r) \/ CommentEvent(r)
        PROVE  RaisesLieApart'
    BY <1>2, <2>3, EventRecords DEF AssignEvent, StateEvent, CommentEvent
  <2>4. ASSUME NEW s \in Sweeps, UNCHANGED serviceVars,
               SweepStart(s) \/ SweepScan(s) \/ SweepReturn(s) \/ SweepDie(s)
        PROVE  RaisesLieApart'
    BY <1>0, <1>1, <2>4, LetGoPending
       DEF SweepStart, SweepScan, SweepReturn, SweepDie
  <2>5. CASE Tick
    BY <1>1, <2>5, SamePending DEF Tick
  <2> QED BY <1>3, <2>1, <2>2, <2>3, <2>4, <2>5, NextCases, RaiseStep,
             RecordRaiseStep
<1>4. CASE UNCHANGED vars
  BY <1>1, <1>4, SamePending DEF vars
<1> QED BY <1>3, <1>4

-----------------------------------------------------------------------------
(* The theorems. *)

LEMMA InitHistoryInv ==
  ASSUME Init
  PROVE  HistoryInv
<1> USE DEF Init, StoreInit, ServiceInit, EscalationInit
<1>1. AuditTellsTheTruth
  BY DEF AuditTellsTheTruth, CommittedOn, Committed, Blank
<1>2. SolutionsStay /\ OnlyResolutionsNotify /\ MailsAreOfResolutions
  BY DEF SolutionsStay, OnlyResolutionsNotify, MailsAreOfResolutions,
         Resolves, Blank
<1>3. RaisesLieApart
  <2>1. ASSUME NEW t \in Tickets
        PROVE  Raises(t) = {}
    <3>1. events[t] = <<>> /\ DOMAIN <<>> = {}
      OBVIOUS
    <3>2. DOMAIN events[t] = {}
      BY <3>1
    <3> QED BY <3>2 DEF Raises
  <2>2. \A s \in Sweeps, t \in Tickets : ~Pending(s, t)
    BY DEF Pending, AtRest
  <2> QED BY <2>1, <2>2 DEF RaisesLieApart
<1> QED BY <1>1, <1>2, <1>3 DEF HistoryInv

LEMMA NextHistoryInv ==
  ASSUME IInv, HistoryInv, [Next]_vars
  PROVE  HistoryInv'
<1>1. AuditTellsTheTruth'
  BY HistorySteps, AuditStep DEF HistoryInv
<1>2. SolutionsStay' /\ OnlyResolutionsNotify'
  BY SolutionStep DEF HistoryInv
<1>3. MailsAreOfResolutions'
  BY MailStep DEF HistoryInv
<1>4. RaisesLieApart'
  BY LevelStep DEF HistoryInv
<1> QED BY <1>1, <1>2, <1>3, <1>4 DEF HistoryInv

(***************************************************************************)
(* The invariants of the history hold in every reachable state.            *)
(***************************************************************************)
THEOREM HistoryInvariance == Spec => []HistoryInv
<1>1. Init => HistoryInv
  BY InitHistoryInv
<1>2. IInv /\ HistoryInv /\ [Next]_vars => HistoryInv'
  BY NextHistoryInv
<1> QED BY <1>1, <1>2, Invariance, PTL DEF Spec

(***************************************************************************)
(* ticket_events tells the truth: one event, and the right one, for every  *)
(* change whose handler came past its INSERT, none for any other.          *)
(***************************************************************************)
THEOREM AuditsAreTrue == Spec => []AuditTellsTheTruth
<1>1. HistoryInv => AuditTellsTheTruth
  BY DEF HistoryInv
<1> QED BY <1>1, HistoryInvariance, PTL

(***************************************************************************)
(* However many sweeps overlap and die, the raises a ticket's history      *)
(* records cover disjoint ranges of levels, up to the level of the row.    *)
(***************************************************************************)
THEOREM LevelsAreRaisedOnce == Spec => []EachLevelIsRaisedOnce
<1>1. HistoryInv => EachLevelIsRaisedOnce
  BY DEF HistoryInv, RaisesLieApart, EachLevelIsRaisedOnce, Raises, Apart
<1> QED BY <1>1, HistoryInvariance, PTL

(***************************************************************************)
(* notifyReporter mails a resolution at most once per ticket: of the       *)
(* request whose solution the row holds, after the history says so.        *)
(***************************************************************************)
THEOREM ResolutionsAreMailedOnce == Spec => []OneResolutionMail
<1>1. HistoryInv => OneResolutionMail
  BY DEF HistoryInv, MailsAreOfResolutions, OneResolutionMail
<1> QED BY <1>1, HistoryInvariance, PTL

-----------------------------------------------------------------------------
(* The refinement of TicketRegister. *)

LEMMA InitRegister ==
  ASSUME Init
  PROVE  Register!StoreInit
<1>1. row = [t \in Tickets |-> NewTicket]
  BY DEF Init, StoreInit
<1>2. ASSUME NEW t \in Tickets
      PROVE  Ledger[t] = <<>>
  <2>1. row[t].version = 0
    BY <1>1 DEF NewTicket
  <2>2. 1 .. row[t].version = {}
    BY <2>1
  <2>3. Ledger[t] = [v \in {} |-> ChangeOf(CHOOSE r \in CommittedOn(t) :
                                              req[r].exp = v - 1)]
    BY <2>2 DEF Ledger
  <2> QED BY <2>3
<1>3. Ledger = [t \in Tickets |-> <<>>]
  BY <1>2 DEF Ledger
<1> QED BY <1>1, <1>3 DEF Register!StoreInit, Register!NewTicket, NewTicket

-----------------------------------------------------------------------------
(* Changes that were made stay as they were made. *)

(* q, which replaces p, tells of the same change. *)
SameChange(p, q) ==
  /\ q.op = p.op /\ q.arg = p.arg /\ q.actor = p.actor
  /\ q.snap = p.snap /\ q.ticket = p.ticket /\ q.exp = p.exp

ChangesStay ==
  \A x \in Requests : Committed(x) => SameChange(req[x], req'[x])

LEMMA OneChanges ==
  ASSUME ServiceTypeOK, NEW r \in Requests, NEW q,
         req' = [req EXCEPT ![r] = q],
         Committed(r) => SameChange(req[r], q)
  PROVE  ChangesStay
<1>1. \A x \in Requests : req'[x] = IF x = r THEN q ELSE req[x]
  BY DEF ServiceTypeOK
<1> QED BY <1>1 DEF ChangesStay, SameChange

LEMMA SameChangeOf ==
  ASSUME NEW x \in Requests, SameChange(req[x], req'[x])
  PROVE  ChangeOf(x)' = ChangeOf(x)
BY DEF SameChange, ChangeOf

LEMMA ChangeSteps ==
  ASSUME IInv, [Next]_vars
  PROVE  ChangesStay
<1>0. ServiceTypeOK
  BY DEF IInv, TypeOK
<1>1. ASSUME UNCHANGED req
      PROVE  ChangesStay
  BY <1>1 DEF ChangesStay, SameChange
<1>2. ASSUME NEW r \in Requests, ~Committed(r),
             \E q : req' = [req EXCEPT ![r] = q]
      PROVE  ChangesStay
  BY <1>0, <1>2, OneChanges
<1>3. ASSUME NEW r \in Requests,
             \/ \E u \in Staff, t \in Tickets, a \in Users \cup {NoUser} :
                  \E v \in Expectable(r, t) : AssignRead(r, u, t, a, v)
             \/ \E u \in Staff, t \in Tickets,
                   next \in {"en_progreso", "resuelto"}, complete \in BOOLEAN :
                  \E v \in Expectable(r, t) :
                    StateRead(r, u, t, next, complete, v)
             \/ \E u \in Users, t \in Tickets : CommentRead(r, u, t)
             \/ NotFound(r)
      PROVE  ChangesStay
  <2>1. ~Committed(r)
    BY <1>3 DEF AssignRead, StateRead, CommentRead, NotFound, Idle, Running,
                Committed
  <2>2. \E q : req' = [req EXCEPT ![r] = q]
    BY <1>3 DEF AssignRead, StateRead, CommentRead, NotFound, Answer, Begin
  <2> QED BY <1>2, <2>1, <2>2
<1>4. ASSUME NEW r \in Requests,
             AssignUpdate(r) \/ StateUpdate(r)
               \/ (Crash(r) /\ req[r].pc = "update")
      PROVE  ChangesStay
  <2>1. req[r].pc = "update" /\ req[r].out = "none"
    BY <1>4 DEF AssignUpdate, StateUpdate, Running, IInv, RequestShape,
                WellShaped
  <2>2. ~Committed(r)
    BY <2>1 DEF Committed
  <2>3. \/ req' = [req EXCEPT ![r] = [req[r] EXCEPT !.pc = "event"]]
        \/ req' = [req EXCEPT ![r] =
                     [req[r] EXCEPT !.pc = "done", !.out = "conflict"]]
        \/ req' = [req EXCEPT ![r] = [Blank EXCEPT !.alive = FALSE]]
    BY <1>4 DEF AssignUpdate, StateUpdate, Crash, GoTo
  <2> QED BY <1>2, <2>2, <2>3
<1>5. ASSUME NEW r \in Requests,
             \/ AssignEvent(r) \/ StateEvent(r) \/ CommentEvent(r)
             \/ NotifyReporter(r) \/ (Crash(r) /\ req[r].pc # "update")
      PROVE  ChangesStay
  <2>1. req[r] \in Request
    BY <1>0 DEF ServiceTypeOK
  <2>2. /\ SameChange(req[r], [req[r] EXCEPT !.pc = "notify"])
        /\ SameChange(req[r], [req[r] EXCEPT !.pc = "done", !.out = "ok"])
        /\ SameChange(req[r], [req[r] EXCEPT !.alive = FALSE])
    BY <2>1 DEF SameChange, Request
  <2>3. \/ req' = [req EXCEPT ![r] = [req[r] EXCEPT !.pc = "notify"]]
        \/ req' = [req EXCEPT ![r] =
                     [req[r] EXCEPT !.pc = "done", !.out = "ok"]]
        \/ req' = [req EXCEPT ![r] = [req[r] EXCEPT !.alive = FALSE]]
    BY <1>5 DEF AssignEvent, StateEvent, CommentEvent, NotifyReporter, Crash,
                GoTo
  <2> QED BY <1>0, <2>2, <2>3, OneChanges
<1>6. CASE Next
  BY <1>6, <1>1, <1>3, <1>4, <1>5, NextCases DEF serviceVars
<1>7. CASE UNCHANGED vars
  BY <1>1, <1>7 DEF vars
<1> QED BY <1>6, <1>7

-----------------------------------------------------------------------------
(* The ledger. *)

(* Who made version v of t. *)
Author(t, v) == CHOOSE r \in CommittedOn(t) : req[r].exp = v - 1

LEMMA LedgerOf ==
  ASSUME NEW t \in Tickets
  PROVE  Ledger[t] = [v \in 1 .. row[t].version |-> ChangeOf(Author(t, v))]
BY DEF Ledger, Author

LEMMA Authors ==
  ASSUME TypeOK, EveryVersionHasOneWinner,
         NEW t \in Tickets, NEW v \in 1 .. row[t].version
  PROVE  /\ Author(t, v) \in CommittedOn(t)
         /\ req[Author(t, v)].exp = v - 1
         /\ \A r \in CommittedOn(t) : req[r].exp = v - 1 => r = Author(t, v)
<1>1. row[t].version \in Nat
  BY DEF TypeOK, StoreTypeOK, Ticket
<1>2. v - 1 \in 0 .. row[t].version - 1
  BY <1>1
<1>3. \E r \in CommittedOn(t) : req[r].exp = v - 1
  BY <1>2 DEF EveryVersionHasOneWinner
<1>4. Author(t, v) \in CommittedOn(t) /\ req[Author(t, v)].exp = v - 1
  BY <1>3 DEF Author
<1> QED BY <1>4 DEF EveryVersionHasOneWinner

(* Versions that stay keep their authors. *)
LEMMA AuthorStays ==
  ASSUME IInv, IInv', [Next]_vars, NEW t \in Tickets,
         NEW v \in 1 .. row[t].version, v \in 1 .. row'[t].version,
         CommittedOn(t) \subseteq CommittedOn(t)'
  PROVE  Author(t, v)' = Author(t, v) /\ ChangeOf(Author(t, v))' = ChangeOf(Author(t, v))
<1> DEFINE a == Author(t, v)
<1>1. a \in CommittedOn(t) /\ req[a].exp = v - 1
  BY Authors DEF IInv
<1>2. \A r \in CommittedOn(t)' : req'[r].exp = v - 1 => r = Author(t, v)'
  <2>1. (TypeOK /\ EveryVersionHasOneWinner)'
    BY DEF IInv
  <2>2. \A r \in CommittedOn(t) \cup CommittedOn(t)' : r \in Requests
    BY DEF CommittedOn
  <2>3. row'[t].version \in Nat
    BY <2>1 DEF TypeOK, StoreTypeOK, Ticket
  <2>4. v - 1 \in 0 .. row'[t].version - 1
    BY <2>3
  <2>5. \E r \in CommittedOn(t)' : req'[r].exp = v - 1
    BY <2>1, <2>4 DEF EveryVersionHasOneWinner
  <2>6. Author(t, v)' \in CommittedOn(t)' /\ req'[Author(t, v)'].exp = v - 1
    BY <2>5 DEF Author
  <2> QED BY <2>1, <2>6 DEF EveryVersionHasOneWinner
<1>3. a \in Requests /\ Committed(a)
  BY <1>1 DEF CommittedOn
<1>4. SameChange(req[a], req'[a])
  BY <1>3, ChangeSteps DEF ChangesStay
<1> QED BY <1>1, <1>2, <1>3, <1>4, SameChangeOf DEF SameChange

(* The author of every entry has committed. *)
LEMMA LedgerEntries ==
  ASSUME TypeOK, EveryVersionHasOneWinner, NEW t \in Tickets
  PROVE  /\ Ledger[t] \in Seq({ChangeOf(r) : r \in CommittedOn(t)})
         /\ Len(Ledger[t]) = row[t].version
<1> DEFINE S == {ChangeOf(r) : r \in CommittedOn(t)}
           n == row[t].version
<1>1. n \in Nat
  BY DEF TypeOK, StoreTypeOK, Ticket
<1>2. \A v \in 1 .. n : ChangeOf(Author(t, v)) \in S
  BY Authors
<1>3. Ledger[t] \in [1 .. n -> S]
  BY <1>2, LedgerOf
<1> HIDE DEF S, n
<1>4. Ledger[t] \in Seq(S) /\ Len(Ledger[t]) = n
  BY <1>1, <1>3
<1> QED BY <1>4 DEF S, n

LEMMA NewEntry ==
  ASSUME NEW S, NEW f \in Seq(S), NEW e, NEW g,
         g = [i \in 1 .. Len(f) + 1 |-> IF i <= Len(f) THEN f[i] ELSE e]
  PROVE  g = Append(f, e)
<1>1. f \in Seq(S \cup {e}) /\ Len(f) \in Nat
  OBVIOUS
<1>2. \A i \in 1 .. Len(f) : f[i] \in S \cup {e}
  BY <1>1
<1>3. g \in [1 .. Len(f) + 1 -> S \cup {e}]
  BY <1>1, <1>2
<1>4. g \in Seq(S \cup {e}) /\ Len(g) = Len(f) + 1
  BY <1>1, <1>3
<1>5. Append(f, e) \in Seq(S \cup {e}) /\ Len(Append(f, e)) = Len(f) + 1
  BY <1>1
<1>6. \A i \in 1 .. Len(f) + 1 : g[i] = Append(f, e)[i]
  BY <1>1
<1> QED BY <1>4, <1>5, <1>6, SeqEqual

(* A ticket none of whose changes is new keeps its ledger. *)
LEMMA LedgerStays ==
  ASSUME IInv, IInv', [Next]_vars, NEW t \in Tickets,
         row'[t].version = row[t].version,
         CommittedOn(t) \subseteq CommittedOn(t)'
  PROVE  Ledger'[t] = Ledger[t]
<1>1. Ledger'[t] = [v \in 1 .. row'[t].version |-> ChangeOf(Author(t, v))']
  BY DEF Ledger, Author
<1>2. \A v \in 1 .. row[t].version :
         ChangeOf(Author(t, v))' = ChangeOf(Author(t, v))
  BY AuthorStays
<1> QED BY <1>1, <1>2, LedgerOf

LEMMA QuietLedger ==
  ASSUME IInv, IInv', [Next]_vars, SameVersions, SameCommits
  PROVE  UNCHANGED Ledger
<1>1. \A t \in Tickets : CommittedOn(t) \subseteq CommittedOn(t)'
  BY DEF SameCommits, CommittedOn
<1>2. \A t \in Tickets : Ledger'[t] = Ledger[t]
  BY <1>1, LedgerStays DEF SameVersions
<1> QED BY <1>2 DEF Ledger

(* A change that commits goes to the end of the ledger of its ticket. *)
LEMMA CommitLedger ==
  ASSUME IInv, IInv', [Next]_vars, NEW r \in Requests, Commits(r),
         NEW t \in Tickets, t = req[r].ticket
  PROVE  Ledger' = [Ledger EXCEPT ![t] = Append(@, ChangeOf(r)')]
<1> PICK n \in Nat : n = row[t].version
  BY DEF IInv, TypeOK, StoreTypeOK, Ticket
<1>0. row'[t].version = n + 1
  BY DEF Commits, IInv, TypeOK, StoreTypeOK, Ticket
<1>1. \A u \in Tickets : CommittedOn(u) \subseteq CommittedOn(u)'
  <2>1. ~Committed(r)
    BY DEF Commits, Committed, IInv, RequestShape, WellShaped
  <2>2. \A x \in Requests : Committed(x) => req'[x] = req[x]
    BY <2>1 DEF Commits
  <2> QED BY <2>2 DEF CommittedOn, Committed
<1>2. \A u \in Tickets \ {t} : Ledger'[u] = Ledger[u]
  BY <1>1, LedgerStays DEF Commits
<1>3. \A v \in 1 .. n : ChangeOf(Author(t, v))' = ChangeOf(Author(t, v))
  BY <1>0, <1>1, AuthorStays
<1>4. Author(t, n + 1)' = r
  <2>1. (TypeOK /\ EveryVersionHasOneWinner)'
    BY DEF IInv
  <2>2. r \in CommittedOn(t)' /\ req'[r].exp = n
    BY DEF Commits, CommittedOn, Committed
  <2>3. Author(t, n + 1)' \in CommittedOn(t)' /\ req'[Author(t, n + 1)'].exp = n
    BY <1>0, <2>2 DEF Author
  <2> QED BY <1>0, <2>1, <2>2, <2>3 DEF EveryVersionHasOneWinner
<1>5. Ledger[t] \in Seq({ChangeOf(x) : x \in CommittedOn(t)})
      /\ Len(Ledger[t]) = n
  BY <1>0, LedgerEntries DEF IInv
<1>6. Ledger'[t] = Append(Ledger[t], ChangeOf(r)')
  <2>1. Ledger'[t] = [v \in 1 .. n + 1 |-> ChangeOf(Author(t, v))']
    BY <1>0 DEF Ledger, Author
  <2>2. \A v \in 1 .. n : Ledger[t][v] = ChangeOf(Author(t, v))
    BY <1>0, LedgerOf
  <2> QED BY <1>0, <1>3, <1>4, <1>5, <2>1, <2>2, NewEntry
<1> QED BY <1>0, <1>2, <1>6 DEF Ledger

-----------------------------------------------------------------------------
(* The steps. *)

(* Whoever is about to change a ticket is not in any ledger yet. *)
LEMMA NewApplier ==
  ASSUME IInv, NEW r \in Requests, req[r].pc = "update"
  PROVE  Register!Fresh(r)
<1>1. ~Committed(r)
  BY DEF Committed, IInv, RequestShape, WellShaped
<1>2. ASSUME NEW t \in Tickets, r \in Register!Appliers(t)
      PROVE  FALSE
  <2>1. PICK i \in DOMAIN Ledger[t] : Ledger[t][i].by = r
    BY <1>2 DEF Register!Appliers
  <2>2. i \in 1 .. row[t].version /\ Ledger[t][i] = ChangeOf(Author(t, i))
    BY <2>1, LedgerOf
  <2>3. Author(t, i) \in CommittedOn(t)
    BY <2>2, Authors DEF IInv
  <2>4. ChangeOf(Author(t, i)).by = Author(t, i)
    BY DEF ChangeOf
  <2> QED BY <1>1, <2>1, <2>2, <2>3, <2>4 DEF CommittedOn
<1> QED BY <1>2 DEF Register!Fresh

(* The ledger names everybody who was given the ticket. *)
LEMMA HeldAreHolders ==
  ASSUME IInv, NEW t \in Tickets
  PROVE  Held(t) \subseteq Register!Holders(t)
<1> SUFFICES ASSUME NEW w \in CommittedOn(t), req[w].op = "assign"
             PROVE  req[w].arg \in Register!Holders(t)
  BY DEF Held, Register!Holders
<1> PICK n \in Nat : n = row[t].version
  BY DEF IInv, TypeOK, StoreTypeOK, Ticket
<1>1. req[w].exp \in 0 .. n - 1
  BY DEF IInv, EveryVersionHasOneWinner
<1> PICK i \in 1 .. row[t].version : i = req[w].exp + 1
  BY <1>1
<1>2. Author(t, i) = w
  <2>1. req[w].exp = i - 1
    BY <1>1
  <2>2. TypeOK /\ EveryVersionHasOneWinner
    BY DEF IInv
  <2> QED BY <2>1, <2>2, Authors
<1>3. i \in DOMAIN Ledger[t] /\ Ledger[t][i] = ChangeOf(w)
  BY <1>2, LedgerOf
<1>4. ChangeOf(w).kind = "asignacion" /\ ChangeOf(w).to = req[w].arg
  BY DEF ChangeOf
<1> QED BY <1>3, <1>4 DEF Register!Holders

(* The assignee a handler read is one the register may take. *)
LEMMA ReadIsTaken ==
  ASSUME IInv, NEW r \in Requests, NEW t \in Tickets, t = req[r].ticket,
         req[r].pc = "update", req[r].op \in {"assign", "state"},
         req[r].exp = row[t].version
  PROVE  req[r].snap.assignee \in Register!TakenForAssignee(t, r)
<1>1. CASE r \notin Guessing
  <2>1. req[r].snap = Snapshot(t)
    BY <1>1 DEF IInv, SnapshotIsCurrent
  <2> QED BY <1>1, <2>1 DEF Snapshot, Register!TakenForAssignee
<1>2. CASE r \in Guessing
  <2>1. req[r].snap.assignee \in Held(t)
    BY DEF IInv, AssigneesAreHeld
  <2> QED BY <1>2, <2>1, HeldAreHolders DEF Register!TakenForAssignee
<1> QED BY <1>1, <1>2

(* assign: the compare-and-set that matches hands the ticket over. *)
LEMMA AssignCommits ==
  ASSUME IInv, IInv', [Next]_vars, NEW r \in Requests, AssignUpdate(r),
         AssignMatches(req[r])
  PROVE  Register!Next
<1> PICK t \in Tickets : t = req[r].ticket
  BY DEF AssignUpdate, Running, IInv, RequestShape, WellShaped
<1>1. /\ req[r].pc = "update" /\ req[r].op = "assign"
      /\ req[r].exp = row[t].version
      /\ row' = [row EXCEPT ![t] = Assigned(@, req[r].arg)]
      /\ GoTo(r, "event")
  BY DEF AssignUpdate, AssignMatches, Running
<1>2. req[r].arg \in Staff /\ req[r].actor \in Staff
  BY <1>1 DEF IInv, RequestIsJudged, Judged
<1> PICK holder : holder = req[r].snap.assignee
  OBVIOUS
<1>3. holder \in Register!TakenForAssignee(t, r)
  BY <1>1, ReadIsTaken
<1>4. Commits(r)
  <2>1. row[t] \in Ticket
    BY DEF IInv, TypeOK, StoreTypeOK
  <2>2. /\ Assigned(row[t], req[r].arg).version = row[t].version + 1
        /\ Assigned(row[t], req[r].arg).assignee = req[r].arg
    BY <2>1 DEF Assigned, Ticket
  <2> QED BY <1>1, <2>2, UpdateCommits DEF IInv
<1>5. ChangeOf(r)' = [kind |-> "asignacion", by |-> r, actor |-> req[r].actor,
                      from |-> holder, to |-> req[r].arg]
  <2>1. req[r] \in Request
    BY DEF IInv, TypeOK, ServiceTypeOK
  <2>2. req'[r] = [req[r] EXCEPT !.pc = "event"]
    BY <1>1 DEF GoTo, IInv, TypeOK, ServiceTypeOK
  <2> QED BY <1>1, <2>1, <2>2 DEF ChangeOf, Request
<1>6. Register!Fresh(r)
  BY <1>1, NewApplier
<1>7. Register!InsertEvent(t, [kind |-> "asignacion", by |-> r,
                               actor |-> req[r].actor, from |-> holder,
                               to |-> req[r].arg])
  BY <1>4, <1>5, CommitLedger DEF Register!InsertEvent
<1>8. Register!Reassign(t, req[r].arg)
  BY <1>1, <1>2, <1>3, <1>6, <1>7
     DEF Register!Reassign, Register!Assigned, Assigned, Register!Staff, Staff
<1> QED BY <1>2, <1>8 DEF Register!Next, Register!Staff, Staff

(* changeState: the compare-and-set that matches moves the ticket. *)
LEMMA StateCommits ==
  ASSUME IInv, IInv', [Next]_vars, NEW r \in Requests, StateUpdate(r),
         StateMatches(req[r])
  PROVE  Register!Next
<1> PICK t \in Tickets : t = req[r].ticket
  BY DEF StateUpdate, Running, IInv, RequestShape, WellShaped
<1>1. /\ req[r].pc = "update" /\ req[r].op = "state"
      /\ req[r].exp = row[t].version
      /\ row[t].status = req[r].snap.status
      /\ row' = [row EXCEPT ![t] = Moved(@, req[r].arg, r)]
      /\ GoTo(r, "event")
  BY DEF StateUpdate, StateMatches, Running
<1> PICK holder : holder = req[r].snap.assignee
  OBVIOUS
<1>2. holder \in Register!TakenForAssignee(t, r)
  BY <1>1, ReadIsTaken
<1>3. /\ req[r].actor \in Admins \/ holder = req[r].actor
      /\ req[r].arg = "en_progreso" => holder # NoUser
      /\ canTransition(row[t].status, req[r].arg, req[r].actor)
  BY <1>1 DEF IInv, RequestIsJudged, Judged
<1>4. req[r].actor \in Staff /\ req[r].arg \in {"en_progreso", "resuelto"}
  BY <1>3 DEF canTransition, Staff
<1>5. Commits(r)
  <2>1. row[t] \in Ticket
    BY DEF IInv, TypeOK, StoreTypeOK
  <2>2. /\ Moved(row[t], req[r].arg, r).version = row[t].version + 1
        /\ Moved(row[t], req[r].arg, r).assignee = row[t].assignee
    BY <2>1 DEF Moved, Ticket
  <2> QED BY <1>1, <2>2, UpdateCommits DEF IInv
<1>6. ChangeOf(r)' = [kind |-> IF req[r].arg = "resuelto" THEN "resolucion"
                                                     ELSE "cambio_estado",
                      by |-> r, actor |-> req[r].actor,
                      from |-> row[t].status, to |-> req[r].arg]
  <2>1. req[r] \in Request
    BY DEF IInv, TypeOK, ServiceTypeOK
  <2>2. req'[r] = [req[r] EXCEPT !.pc = "event"]
    BY <1>1 DEF GoTo, IInv, TypeOK, ServiceTypeOK
  <2> QED BY <1>1, <2>1, <2>2 DEF ChangeOf, Request
<1>7. Register!Fresh(r)
  BY <1>1, NewApplier
<1>8. Register!InsertEvent(t,
        [kind |-> IF req[r].arg = "resuelto" THEN "resolucion"
                                             ELSE "cambio_estado",
         by |-> r, actor |-> req[r].actor, from |-> row[t].status,
         to |-> req[r].arg])
  BY <1>5, <1>6, CommitLedger DEF Register!InsertEvent
<1>9. Register!Move(t, req[r].arg)
  BY <1>1, <1>2, <1>3, <1>4, <1>7, <1>8
     DEF Register!Move, Register!Moved, Moved, Register!canTransition,
         canTransition, Register!Staff, Staff
<1> QED BY <1>4, <1>9 DEF Register!Next

(* escalateOne: the compare-and-set that matches raises the ticket. *)
LEMMA EscalateRaises ==
  ASSUME IInv, IInv', [Next]_vars, NEW s \in Sweeps, NEW t \in Tickets,
         EscalateUpdate(s, t), EscalateMatches(s, t), UNCHANGED serviceVars
  PROVE  Register!Next
<1>1. /\ row[t].status # "resuelto"
      /\ row' = [row EXCEPT ![t].level = Target(s, t)]
  BY DEF EscalateUpdate, EscalateMatches
<1>2. row[t] \in Ticket
  BY DEF IInv, TypeOK, StoreTypeOK
<1>3. Target(s, t) > row[t].level
  BY DEF EscalateUpdate, EscalateMatches, IInv, SweepShape
<1>4. Target(s, t) \in 1 .. MAX_LEVEL
  BY <1>2, <1>3, TargetType DEF IInv, TypeOK, Ticket, MAX_LEVEL
<1>5. SameVersions /\ SameCommits
  <2>1. /\ [row[t] EXCEPT !.level = Target(s, t)].version = row[t].version
        /\ [row[t] EXCEPT !.level = Target(s, t)].assignee = row[t].assignee
    BY <1>2 DEF Ticket
  <2> QED BY <1>1, <2>1 DEF SameVersions, SameCommits, Committed, serviceVars,
                   IInv, TypeOK, StoreTypeOK
<1>6. UNCHANGED Ledger
  BY <1>5, QuietLedger
<1> QED BY <1>1, <1>3, <1>4, <1>6
           DEF Register!Next, Register!Raise, Register!MAX_LEVEL, MAX_LEVEL

LEMMA QuietStep ==
  ASSUME IInv, IInv', [Next]_vars, UNCHANGED row
  PROVE  UNCHANGED <<row, Ledger>>
<1>1. SameVersions
  BY DEF SameVersions
<1>2. ASSUME NEW r \in Requests PROVE ~Commits(r)
  BY DEF Commits, IInv, TypeOK, StoreTypeOK, Ticket
<1> QED BY <1>1, <1>2, VersionSteps, QuietLedger

LEMMA RegisterStep ==
  ASSUME IInv, IInv', [Next]_vars
  PROVE  [Register!Next]_(Register!storeVars)
<1>1. ASSUME UNCHANGED row
      PROVE  [Register!Next]_(Register!storeVars)
  BY <1>1, QuietStep DEF Register!storeVars
<1>2. ASSUME NEW r \in Requests, AssignUpdate(r)
      PROVE  [Register!Next]_(Register!storeVars)
  BY <1>1, <1>2, AssignCommits DEF AssignUpdate
<1>3. ASSUME NEW r \in Requests, StateUpdate(r)
      PROVE  [Register!Next]_(Register!storeVars)
  BY <1>1, <1>3, StateCommits DEF StateUpdate
<1>4. ASSUME NEW s \in Sweeps, NEW t \in Tickets, EscalateUpdate(s, t),
             UNCHANGED serviceVars
      PROVE  [Register!Next]_(Register!storeVars)
  BY <1>1, <1>4, EscalateRaises DEF EscalateUpdate
<1>5. CASE Next
  BY <1>5, RowChanges, <1>1, <1>2, <1>3, <1>4
<1>6. CASE UNCHANGED vars
  BY <1>1, <1>6 DEF vars
<1> QED BY <1>5, <1>6

(***************************************************************************)
(* The handlers and the worker implement the atomic register: every change *)
(* any interleaving makes is one the register allows at that instant, made *)
(* once by a request of its own, and the events of the changes, put in the *)
(* order of their versions, are the history it would have kept.            *)
(***************************************************************************)
THEOREM HandlersImplementTheRegister == Spec => ImplementsRegister
<1>1. Init => Register!StoreInit
  BY InitRegister
<1>2. IInv /\ IInv' /\ [Next]_vars => [Register!Next]_(Register!storeVars)
  BY RegisterStep
<1> QED BY <1>1, <1>2, Invariance, PTL
           DEF Spec, ImplementsRegister, Register!Spec

-----------------------------------------------------------------------------
(* What the pages are shown. *)

LEMMA ShownType ==
  ASSUME NEW x \in Ticket
  PROVE  Shown(x) \in Api!Ticket
BY ViewAssumption
   DEF Shown, ShownAs, Ticket, Api!Ticket, TicketStatus, Api!TicketStatus,
       MAX_LEVEL, Api!MAX_LEVEL

LEMMA ViewType ==
  ASSUME StoreTypeOK
  PROVE  View \in [Tickets -> Api!Ticket]
BY ShownType DEF StoreTypeOK, View

(* One row changes, and the pages see that one change. *)
LEMMA ShowChange ==
  ASSUME StoreTypeOK, NEW t \in Tickets, NEW x, row' = [row EXCEPT ![t] = x]
  PROVE  View' = [View EXCEPT ![t] = Shown(x)]
<1>1. View' = [z \in Tickets |-> Shown(row'[z])]
  BY DEF View, Shown, ShownAs
<1>2. \A z \in Tickets : row'[z] = IF z = t THEN x ELSE row[z]
  BY DEF StoreTypeOK
<1>3. View = [z \in Tickets |-> Shown(row[z])]
  BY DEF View
<1> QED BY <1>1, <1>2, <1>3

LEMMA ShowNothing ==
  ASSUME UNCHANGED row
  PROVE  View' = View
BY DEF View, Shown, ShownAs

(* Fields of one entry, set one by one or together. *)
LEMMA SetFields ==
  ASSUME NEW S, NEW f \in [S -> Api!Ticket], NEW t \in S, NEW y \in Api!Ticket,
         y.version = f[t].version + 1, y.level = f[t].level
  PROVE  [f EXCEPT ![t].status = y.status, ![t].assignee = y.assignee,
                   ![t].version = @ + 1]
         = [f EXCEPT ![t] = y]
<1> DEFINE g == [f EXCEPT ![t].status = y.status, ![t].assignee = y.assignee,
                          ![t].version = @ + 1]
<1>1. \A x \in Api!Ticket :
         /\ x.version + 1 = y.version
         /\ x.level = y.level
         => [x EXCEPT !.status = y.status, !.assignee = y.assignee,
                      !.version = @ + 1] = y
  BY DEF Api!Ticket
<1>2. g = [f EXCEPT ![t] = [f[t] EXCEPT !.status = y.status,
                                        !.assignee = y.assignee,
                                        !.version = @ + 1]]
  OBVIOUS
<1> QED BY <1>1, <1>2

(* The new version of a row, as the pages see it. *)
LEMMA ApiChange ==
  ASSUME StoreTypeOK, NEW t \in Tickets, NEW x \in Ticket,
         row' = [row EXCEPT ![t] = x],
         x.version = row[t].version + 1, x.level = row[t].level
  PROVE  Api!Changed(t, x.status, ShownAs(x.assignee))
<1>1. View' = [View EXCEPT ![t] = Shown(x)]
  BY ShowChange
<1>2. PICK y \in Api!Ticket : y = Shown(x)
  BY ShownType
<1>3. /\ y.version = View[t].version + 1 /\ y.level = View[t].level
      /\ y.status = x.status /\ y.assignee = ShownAs(x.assignee)
  BY <1>2 DEF View, Shown
<1>4. [View EXCEPT ![t].status = y.status, ![t].assignee = y.assignee,
                   ![t].version = @ + 1]
      = [View EXCEPT ![t] = y]
  BY <1>3, ViewType, SetFields
<1> QED BY <1>1, <1>2, <1>3, <1>4 DEF Api!Changed

LEMMA RoleOfStaff ==
  /\ RoleOfMe = "administrador" <=> Me \in Admins
  /\ RoleOfMe = "agente" <=> Me \in Agents
  /\ RoleOfMe \in Api!Staff <=> Me \in Staff
<1>1. CASE Me \in Admins
  BY <1>1, StoreAssumption DEF RoleOfMe, Api!Staff, Staff
<1>2. CASE Me \in Agents
  BY <1>2, StoreAssumption DEF RoleOfMe, Api!Staff, Staff
<1>3. CASE Me \in Reporters
  BY <1>3, StoreAssumption DEF RoleOfMe, Api!Staff, Staff
<1> QED BY <1>1, <1>2, <1>3, ViewAssumption DEF Users, Staff

(* What the pages see of a row, where a refusal depends on it. *)
LEMMA ShownFields ==
  ASSUME StoreTypeOK, NEW t \in Tickets
  PROVE  /\ View[t].version = row[t].version
         /\ View[t].status = row[t].status
         /\ View[t].level = row[t].level
         /\ View[t].assignee = ShownAs(row[t].assignee)
         /\ View[t].assignee = Me <=> row[t].assignee = Me
         /\ View[t].assignee = NoUser <=> row[t].assignee = NoUser
<1>1. View[t] = Shown(row[t])
  BY DEF View
<1>2. /\ View[t].version = row[t].version
      /\ View[t].status = row[t].status
      /\ View[t].level = row[t].level
      /\ View[t].assignee = ShownAs(row[t].assignee)
  BY <1>1 DEF Shown
<1>3. Me # Another /\ NoUser # Another /\ Me # NoUser
  BY ViewAssumption, StoreAssumption
<1> QED BY <1>2, <1>3 DEF ShownAs

IsMine(t) == Me \in Admins \/ row[t].assignee = Me

IsLegal(t, next) ==
  /\ next = "en_progreso" => row[t].assignee # NoUser
  /\ canTransition(row[t].status, next, Me)

(* The refusals of TicketApi, from the row and not from what is shown. *)
LEMMA Refusals ==
  ASSUME StoreTypeOK, NEW t \in Tickets, NEW next \in {"en_progreso", "resuelto"},
         NEW v
  PROVE  /\ 403 \in Api!MoveRefusals(t, next, v) <=> ~IsMine(t)
         /\ 422 \in Api!MoveRefusals(t, next, v) <=> IsMine(t) /\ ~IsLegal(t, next)
         /\ 409 \in Api!MoveRefusals(t, next, v) <=>
              Me \in Staff /\ row[t].version # v
         /\ Api!MoveRefusals(t, next, v) \subseteq {403, 409, 422}
<1>1. row[t].assignee \in Staff \cup {NoUser}
  BY DEF StoreTypeOK, Ticket
<1> DEFINE mine == \/ RoleOfMe = "administrador"
                   \/ RoleOfMe = "agente" /\ View[t].assignee = Me
           legal == /\ next = "en_progreso" => View[t].assignee # NoUser
                    /\ <<View[t].status, next>> \in Api!Moves
<1>2. mine <=> IsMine(t)
  BY <1>1, RoleOfStaff, ShownFields, ViewAssumption, StoreAssumption
     DEF IsMine, Staff, Users
<1>3. IsMine(t) => Me \in Staff
  BY <1>1, ViewAssumption, StoreAssumption DEF IsMine, Staff, Users
<1>4. Me \in Staff => (legal <=> IsLegal(t, next))
  <2>1. <<row[t].status, next>> \in Api!Moves <=>
          \/ row[t].status = "abierto" /\ next = "en_progreso"
          \/ row[t].status = "en_progreso" /\ next = "resuelto"
          \/ row[t].status = "abierto" /\ next = "resuelto" /\ Me \in Admins
    BY RoleOfStaff DEF Api!Moves
  <2> QED BY <2>1, ShownFields DEF IsLegal, canTransition
<1> DEFINE late == RoleOfMe \in Api!Staff /\ View[t].version # v
<1>5. late <=> Me \in Staff /\ row[t].version # v
  BY RoleOfStaff, ShownFields
<1>6. Api!MoveRefusals(t, next, v) =
        {code \in {403, 409, 422} : /\ code = 403 => ~mine
                                    /\ code = 409 => late
                                    /\ code = 422 => mine /\ ~legal}
  BY DEF Api!MoveRefusals
<1> HIDE DEF mine, legal, late
<1> DEFINE C == Api!MoveRefusals(t, next, v)
<1>7. /\ 403 \in C <=> ~mine
      /\ 409 \in C <=> late
      /\ 422 \in C <=> mine /\ ~legal
      /\ C \subseteq {403, 409, 422}
  BY <1>6
<1> QED BY <1>2, <1>3, <1>4, <1>5, <1>7

(* The codes a handler answers by. *)
LEMMA Codes ==
  ASSUME ServiceTypeOK, NEW r \in Requests, req[r].out = "none"
  PROVE  /\ GoTo(r, "event") => CodeOf(req'[r]) = 200
         /\ req' = [req EXCEPT ![r].pc = "done", ![r].out = "conflict"] =>
              CodeOf(req'[r]) = 409
<1>1. ASSUME GoTo(r, "event")  PROVE CodeOf(req'[r]) = 200
  <2>1. req'[r].pc = "event" /\ req'[r].out = "none"
    BY <1>1 DEF GoTo, ServiceTypeOK, Request
  <2> QED BY <2>1 DEF CodeOf
<1>2. ASSUME req' = [req EXCEPT ![r].pc = "done", ![r].out = "conflict"]
      PROVE  CodeOf(req'[r]) = 409
  <2>1. req'[r].pc = "done" /\ req'[r].out = "conflict"
    BY <1>2 DEF ServiceTypeOK, Request
  <2> QED BY <2>1 DEF CodeOf
<1> QED BY <1>1, <1>2

LEMMA AssignedFields ==
  ASSUME NEW x \in Ticket, NEW a \in Staff
  PROVE  \E y \in Ticket : /\ y = Assigned(x, a)
                           /\ y.version = x.version + 1
                           /\ y.level = x.level
                           /\ y.status = x.status
                           /\ y.assignee = a
<1>1. PICK y \in Ticket : y = Assigned(x, a)
  BY TicketUpdates
<1>2. PICK n \in Nat : n = x.version + 1
  BY DEF Ticket
<1>3. y = [x EXCEPT !.assignee = a, !.version = n]
  BY <1>1, <1>2 DEF Assigned
<1>4. /\ y.version = n /\ y.level = x.level
      /\ y.status = x.status /\ y.assignee = a
  BY <1>3 DEF Ticket
<1> QED BY <1>1, <1>2, <1>4

LEMMA MovedFields ==
  ASSUME NEW x \in Ticket, NEW next \in TicketStatus, NEW r \in Requests
  PROVE  \E y \in Ticket : /\ y = Moved(x, next, r)
                           /\ y.version = x.version + 1
                           /\ y.level = x.level
                           /\ y.status = next
                           /\ y.assignee = x.assignee
<1>1. PICK y \in Ticket : y = Moved(x, next, r)
  BY TicketUpdates
<1>2. PICK n \in Nat : n = x.version + 1
  BY DEF Ticket
<1>3. PICK f : f = IF next = "resuelto" THEN r ELSE x.solution
  OBVIOUS
<1>4. y = [x EXCEPT !.status = next, !.version = n, !.solution = f]
  BY <1>1, <1>2, <1>3 DEF Moved
<1>5. /\ y.version = n /\ y.level = x.level
      /\ y.status = next /\ y.assignee = x.assignee
  BY <1>4 DEF Ticket
<1> QED BY <1>1, <1>2, <1>5

(* assign: the answer is the one a call judged at its UPDATE would get. *)
LEMMA AssignAnswer ==
  ASSUME IInv, NEW r \in Requests
  PROVE  AssignIsDecided(r)
<1> SUFFICES ASSUME AssignUpdate(r), req[r].actor = Me, req[r].arg = Me
             PROVE  Api!AssignDecided(req[r].ticket, req[r].exp, CodeOf(req'[r]))
  BY DEF AssignIsDecided
<1> PICK t \in Tickets : t = req[r].ticket
  BY DEF AssignUpdate, Running, IInv, RequestShape, WellShaped
<1>1. StoreTypeOK /\ ServiceTypeOK
  BY DEF IInv, TypeOK
<1>2. /\ req[r].op = "assign" /\ req[r].pc = "update"
      /\ req[r].out = "none"
  BY DEF AssignUpdate, Running, IInv, RequestShape, WellShaped
<1>3. Me \in Staff
  BY <1>2 DEF IInv, RequestIsJudged, Judged
<1>4. CASE AssignMatches(req[r])
  <2>1. row' = [row EXCEPT ![t] = Assigned(row[t], Me)] /\ GoTo(r, "event")
    BY <1>4 DEF AssignUpdate
  <2>2. PICK x \in Ticket : /\ x = Assigned(row[t], Me)
                            /\ x.version = row[t].version + 1
                            /\ x.level = row[t].level
                            /\ x.status = row[t].status
                            /\ x.assignee = Me
    BY <1>1, <1>3, AssignedFields DEF StoreTypeOK
  <2>3. Api!Changed(t, x.status, ShownAs(x.assignee))
    BY <1>1, <2>1, <2>2, ApiChange
  <2>4. Api!Changed(t, View[t].status, Me)
    BY <1>1, <2>2, <2>3, ShownFields DEF ShownAs
  <2>5. Api!AssignRefusals(t, req[r].exp) = {}
    BY <1>1, <1>3, <1>4, ShownFields, RoleOfStaff
       DEF AssignMatches, Api!AssignRefusals
  <2>6. CodeOf(req'[r]) = 200
    BY <1>1, <1>2, <2>1, Codes
  <2> QED BY <2>4, <2>5, <2>6 DEF Api!AssignDecided, Api!Decided
<1>5. CASE ~AssignMatches(req[r])
  <2>1. /\ req' = [req EXCEPT ![r].pc = "done", ![r].out = "conflict"]
        /\ UNCHANGED row
    BY <1>5 DEF AssignUpdate
  <2>2. CodeOf(req'[r]) = 409
    BY <1>1, <1>2, <2>1, Codes
  <2>3. 409 \in Api!AssignRefusals(t, req[r].exp)
    BY <1>1, <1>3, <1>5, ShownFields, RoleOfStaff
       DEF AssignMatches, Api!AssignRefusals
  <2> QED BY <2>1, <2>2, <2>3, ShowNothing DEF Api!AssignDecided, Api!Decided
<1> QED BY <1>4, <1>5

(* changeState: the same, for the answers its UPDATE decides ... *)
LEMMA MoveAnswer ==
  ASSUME IInv, NEW r \in Requests, r \notin Guessing
  PROVE  MoveIsDecided(r)
<1> SUFFICES ASSUME StateUpdate(r), req[r].actor = Me
             PROVE  Api!MoveDecided(req[r].ticket, req[r].arg, req[r].exp,
                                    CodeOf(req'[r]))
  BY DEF MoveIsDecided
<1> PICK t \in Tickets : t = req[r].ticket
  BY DEF StateUpdate, Running, IInv, RequestShape, WellShaped
<1>1. StoreTypeOK /\ ServiceTypeOK
  BY DEF IInv, TypeOK
<1>2. req[r].op = "state" /\ req[r].pc = "update" /\ req[r].out = "none"
  BY DEF StateUpdate, Running, IInv, RequestShape, WellShaped
<1>3. /\ Me \in Admins \/ req[r].snap.assignee = Me
      /\ req[r].arg = "en_progreso" => req[r].snap.assignee # NoUser
      /\ canTransition(req[r].snap.status, req[r].arg, Me)
  BY <1>2 DEF IInv, RequestIsJudged, Judged
<1>4. PICK next \in {"en_progreso", "resuelto"} : next = req[r].arg
  BY <1>3 DEF canTransition
<1>5. Me \in Staff
  BY <1>3 DEF canTransition, Staff
<1>6. row[t].version = req[r].exp => req[r].snap = Snapshot(t)
  BY <1>2 DEF IInv, SnapshotIsCurrent
<1>7. CASE StateMatches(req[r])
  <2>1. row' = [row EXCEPT ![t] = Moved(row[t], next, r)] /\ GoTo(r, "event")
    BY <1>4, <1>7 DEF StateUpdate
  <2>2. PICK x \in Ticket : /\ x = Moved(row[t], next, r)
                            /\ x.version = row[t].version + 1
                            /\ x.level = row[t].level
                            /\ x.status = next
                            /\ x.assignee = row[t].assignee
    <3>1. row[t] \in Ticket /\ next \in TicketStatus
      BY <1>1 DEF StoreTypeOK, TicketStatus
    <3> QED BY <3>1, MovedFields
  <2>3. Api!Changed(t, next, View[t].assignee)
    <3>1. Api!Changed(t, x.status, ShownAs(x.assignee))
      BY <1>1, <2>1, <2>2, ApiChange
    <3> QED BY <1>1, <2>2, <3>1, ShownFields
  <2>4. IsMine(t) /\ IsLegal(t, next) /\ row[t].version = req[r].exp
    BY <1>3, <1>4, <1>6, <1>7 DEF StateMatches, IsMine, IsLegal, Snapshot
  <2>5. Api!MoveRefusals(t, next, req[r].exp) = {}
    BY <1>1, <2>4, Refusals
  <2>6. CodeOf(req'[r]) = 200
    BY <1>1, <1>2, <2>1, Codes
  <2> QED BY <1>4, <2>3, <2>5, <2>6 DEF Api!MoveDecided, Api!Decided
<1>8. CASE ~StateMatches(req[r])
  <2>1. /\ req' = [req EXCEPT ![r].pc = "done", ![r].out = "conflict"]
        /\ UNCHANGED row
    BY <1>8 DEF StateUpdate
  <2>2. row[t].version # req[r].exp
    BY <1>6, <1>8 DEF StateMatches, Snapshot
  <2>3. CodeOf(req'[r]) = 409
    BY <1>1, <1>2, <2>1, Codes
  <2>4. 409 \in Api!MoveRefusals(t, next, req[r].exp)
    BY <1>1, <1>5, <2>2, Refusals
  <2> QED BY <1>4, <2>1, <2>3, <2>4, ShowNothing DEF Api!MoveDecided, Api!Decided
<1> QED BY <1>7, <1>8

(* ... and for those it gives before, by the row it has just read. *)
LEMMA RefusalAnswer ==
  ASSUME IInv, NEW r \in Requests
  PROVE  RefusalIsDecided(r)
<1> SUFFICES ASSUME NEW t \in Tickets, NEW next \in {"en_progreso", "resuelto"},
                    NEW v \in 0 .. row[t].version,
                    StateRead(r, Me, t, next, TRUE, v), req'[r].pc = "done"
             PROVE  Api!MoveDecided(t, next, v, CodeOf(req'[r]))
  BY DEF RefusalIsDecided
<1>1. StoreTypeOK /\ ServiceTypeOK
  BY DEF IInv, TypeOK
<1>2. PICK verdict : verdict = StateVerdict(Snapshot(t), Me, next, TRUE)
  OBVIOUS
<1>3. verdict # "proceed"
  <2>1. SUFFICES ASSUME verdict = "proceed"  PROVE req'[r].pc = "update"
    OBVIOUS
  <2>2. Begin(r, "update", "state", Me, t, next, v)
    BY <1>2, <2>1 DEF StateRead
  <2> QED BY <1>1, <2>2 DEF Begin, ServiceTypeOK
<1>4. /\ req' = [req EXCEPT ![r] = [Blank EXCEPT !.pc = "done", !.out = verdict]]
      /\ UNCHANGED row
  BY <1>2, <1>3 DEF StateRead, Answer
<1>5. \/ verdict = "forbidden" /\ ~IsMine(t)
      \/ verdict = "unprocessable" /\ IsMine(t) /\ ~IsLegal(t, next)
  BY <1>2, <1>3 DEF StateVerdict, Snapshot, IsMine, IsLegal
<1>6. req'[r].pc = "done" /\ req'[r].out = verdict
  BY <1>1, <1>4 DEF ServiceTypeOK, Blank
<1>7. \/ CodeOf(req'[r]) = 403 /\ ~IsMine(t)
      \/ CodeOf(req'[r]) = 422 /\ IsMine(t) /\ ~IsLegal(t, next)
  BY <1>5, <1>6 DEF CodeOf
<1>8. CodeOf(req'[r]) \in Api!MoveRefusals(t, next, v)
  BY <1>1, <1>7, Refusals
<1> QED BY <1>4, <1>8, ShowNothing DEF Api!MoveDecided, Api!Decided

(***************************************************************************)
(* Every call of any user to change a ticket is decided at one instant,    *)
(* against the row there: a read that awaits end before the UPDATE, races  *)
(* and crashes never show in an answer.                                    *)
(***************************************************************************)
THEOREM CallsDecidedAtOnce == Spec => CallsAreDecidedAtOnce
<1>1. IInv => \A r \in Requests \ Guessing :
                AssignIsDecided(r) /\ MoveIsDecided(r) /\ RefusalIsDecided(r)
  BY AssignAnswer, MoveAnswer, RefusalAnswer
<1> QED BY <1>1, Invariance, PTL DEF CallsAreDecidedAtOnce

-----------------------------------------------------------------------------
(* The changes the pages see. *)

LEMMA AssignShows ==
  ASSUME IInv, NEW r \in Requests, AssignUpdate(r), AssignMatches(req[r])
  PROVE  \E t \in Tickets : Api!SomeChange(t)
<1>1. StoreTypeOK
  BY DEF IInv, TypeOK
<1>2. req[r].ticket \in Tickets /\ req[r].arg \in Staff
  BY DEF AssignUpdate, Running, IInv, RequestShape, WellShaped,
         RequestIsJudged, Judged
<1> PICK t \in Tickets : t = req[r].ticket
  BY <1>2
<1> PICK a \in Staff : a = req[r].arg
  BY <1>2
<1>3. row' = [row EXCEPT ![t] = Assigned(row[t], a)]
  BY DEF AssignUpdate
<1>4. PICK x \in Ticket : /\ x = Assigned(row[t], a)
                          /\ x.version = row[t].version + 1
                          /\ x.level = row[t].level
                          /\ x.status = row[t].status
                          /\ x.assignee = a
  <2>1. row[t] \in Ticket
    BY <1>1 DEF StoreTypeOK
  <2> QED BY <2>1, AssignedFields, Zenon
<1>5. Api!Changed(t, x.status, ShownAs(x.assignee))
  BY <1>1, <1>3, <1>4, ApiChange
<1>6. Api!Changed(t, View[t].status, ShownAs(a))
  BY <1>1, <1>4, <1>5, ShownFields
<1>7. ShownAs(a) \in {Me, Another}
  BY StoreAssumption DEF ShownAs, Users
<1> QED BY <1>6, <1>7 DEF Api!SomeChange

LEMMA MoveShows ==
  ASSUME IInv, NEW r \in Requests, StateUpdate(r), StateMatches(req[r])
  PROVE  \E t \in Tickets : Api!SomeChange(t)
<1>1. StoreTypeOK
  BY DEF IInv, TypeOK
<1>2. /\ req[r].ticket \in Tickets
      /\ req[r].op = "state" /\ req[r].pc = "update"
      /\ req[r].arg = "en_progreso" => req[r].snap.assignee # NoUser
      /\ canTransition(req[r].snap.status, req[r].arg, req[r].actor)
  BY DEF StateUpdate, Running, IInv, RequestShape, WellShaped,
         RequestIsJudged, Judged
<1> PICK t \in Tickets : t = req[r].ticket
  BY <1>2
<1> PICK next \in {"en_progreso", "resuelto"} : next = req[r].arg
  BY <1>2 DEF canTransition
<1>3. row' = [row EXCEPT ![t] = Moved(row[t], next, r)]
  BY DEF StateUpdate
<1>4. row[t].status = req[r].snap.status
  BY DEF StateMatches
<1>5. /\ next = "en_progreso" => /\ row[t].status = "abierto"
                                 /\ row[t].assignee # NoUser
      /\ next = "resuelto" => row[t].status # "resuelto"
  <2>1. /\ req[r].snap.assignee \in Held(t)
        /\ row[t].assignee = NoUser => Held(t) = {NoUser}
    BY <1>2 DEF IInv, AssigneesAreHeld
  <2> QED BY <1>2, <1>4, <2>1 DEF canTransition
<1>6. PICK x \in Ticket : /\ x = Moved(row[t], next, r)
                          /\ x.version = row[t].version + 1
                          /\ x.level = row[t].level
                          /\ x.status = next
                          /\ x.assignee = row[t].assignee
  <2>1. row[t] \in Ticket /\ next \in TicketStatus
    BY <1>1 DEF StoreTypeOK, TicketStatus
  <2> QED BY <2>1, MovedFields
<1>7. Api!Changed(t, x.status, ShownAs(x.assignee))
  BY <1>1, <1>3, <1>6, ApiChange
<1>8. Api!Changed(t, next, View[t].assignee)
  BY <1>1, <1>6, <1>7, ShownFields
<1> QED BY <1>1, <1>5, <1>8, ShownFields DEF Api!SomeChange

LEMMA RaiseShows ==
  ASSUME IInv, NEW s \in Sweeps, NEW t \in Tickets,
         EscalateUpdate(s, t), EscalateMatches(s, t)
  PROVE  Api!Raised(t)
<1>1. StoreTypeOK /\ row[t] \in Ticket
  BY DEF IInv, TypeOK, StoreTypeOK
<1>2. Target(s, t) \in 0 .. MAX_LEVEL
  BY TargetType DEF IInv, TypeOK
<1> PICK l \in 0 .. MAX_LEVEL : l = Target(s, t)
  BY <1>2
<1>3. /\ row[t].status # "resuelto"
      /\ row' = [row EXCEPT ![t] = [row[t] EXCEPT !.level = l]]
  BY DEF EscalateUpdate, EscalateMatches
<1>4. l > row[t].level
  BY DEF EscalateUpdate, EscalateMatches, IInv, SweepShape
<1>5. PICK x \in Ticket : x = [row[t] EXCEPT !.level = l]
  BY <1>1, TicketUpdates
<1>6. View' = [View EXCEPT ![t] = Shown(x)]
  BY <1>1, <1>3, <1>5, ShowChange
<1>7. /\ x.version = row[t].version /\ x.status = row[t].status
      /\ x.assignee = row[t].assignee /\ x.level = l
  BY <1>1, <1>5 DEF Ticket
<1>8. PICK y \in Api!Ticket : y = Shown(x)
  BY ShownType
<1>9. View' = [View EXCEPT ![t].level = l]
  <2>1. PICK z \in Api!Ticket : z = View[t]
    BY <1>1, ViewType
  <2>2. /\ y.version = z.version /\ y.status = z.status
        /\ y.assignee = z.assignee /\ y.level = l
    BY <1>1, <1>7, <1>8, <2>1, ShownFields DEF Shown
  <2>3. y = [z EXCEPT !.level = l]
    BY <2>2 DEF Api!Ticket
  <2> QED BY <1>6, <1>8, <2>1, <2>3
<1>10. /\ View[t].status # "resuelto" /\ View[t].level < MAX_LEVEL
       /\ l \in View[t].level + 1 .. MAX_LEVEL
  BY <1>1, <1>3, <1>4, ShownFields DEF Ticket, MAX_LEVEL
<1> QED BY <1>9, <1>10 DEF Api!Raised, Api!MAX_LEVEL, MAX_LEVEL

LEMMA ShownSteps ==
  ASSUME IInv, [Next]_vars
  PROVE  [\E t \in Tickets : Api!SomeChange(t) \/ Api!Raised(t)]_View
<1> DEFINE Known == \E t \in Tickets : Api!SomeChange(t) \/ Api!Raised(t)
<1>1. ASSUME UNCHANGED row  PROVE View' = View
  BY <1>1, ShowNothing
<1>2. ASSUME NEW r \in Requests, AssignUpdate(r) \/ StateUpdate(r)
      PROVE  Known \/ View' = View
  BY <1>1, <1>2, AssignShows, MoveShows DEF AssignUpdate, StateUpdate
<1>3. ASSUME NEW s \in Sweeps, NEW t \in Tickets, EscalateUpdate(s, t)
      PROVE  Known \/ View' = View
  BY <1>1, <1>3, RaiseShows DEF EscalateUpdate
<1> SUFFICES Known \/ View' = View
  OBVIOUS
<1> HIDE DEF Known
<1>4. CASE Next
  BY <1>1, <1>2, <1>3, <1>4, RowChanges
<1>5. CASE UNCHANGED vars
  BY <1>1, <1>5 DEF vars
<1> QED BY <1>4, <1>5

(***************************************************************************)
(* What the pages are told of a ticket changes only as TicketApi says, for *)
(* any tickets, users, requests and sweeps: each change is one UPDATE.     *)
(***************************************************************************)
THEOREM ChangesAsTheApis == Spec => ChangesAreTheApis
<1>1. IInv /\ [Next]_vars =>
        [\E t \in Tickets : Api!SomeChange(t) \/ Api!Raised(t)]_View
  BY ShownSteps
<1> QED BY <1>1, Invariance, PTL DEF Spec, ChangesAreTheApis

=============================================================================
