------------------------ MODULE TicketSystem_proofs ------------------------
(***************************************************************************)
(* Proofs about TicketSystem: its inductive invariant and the safety       *)
(* properties that follow from it, for any tickets, users, requests and    *)
(* sweeps.                                                                 *)
(***************************************************************************)
EXTENDS TicketSystem, TLAPS

(* The case split every step proof uses. *)
LEMMA NextCases ==
  ASSUME Next
  PROVE  \/ \E r \in Requests :
              /\ UNCHANGED escalationVars
              /\ \/ \E u \in Staff, t \in Tickets, a \in Users \cup {NoUser} :
                      \E v \in Expectable(r, t) : AssignRead(r, u, t, a, v)
                 \/ AssignUpdate(r)
                 \/ AssignEvent(r)
                 \/ \E u \in Staff, t \in Tickets,
                       next \in {"en_progreso", "resuelto"},
                       complete \in BOOLEAN :
                      \E v \in Expectable(r, t) :
                        StateRead(r, u, t, next, complete, v)
                 \/ StateUpdate(r)
                 \/ StateEvent(r)
                 \/ \E u \in Users, t \in Tickets : CommentRead(r, u, t)
                 \/ CommentEvent(r)
                 \/ NotifyReporter(r)
                 \/ NotFound(r)
                 \/ Crash(r)
         \/ \E s \in Sweeps :
              /\ UNCHANGED serviceVars
              /\ \/ SweepStart(s)
                 \/ SweepScan(s)
                 \/ \E t \in Tickets : EscalateUpdate(s, t)
                 \/ EscalateEvent(s)
                 \/ SweepReturn(s)
                 \/ SweepDie(s)
         \/ Tick /\ UNCHANGED serviceVars
BY DEF Next, ServiceNext, EscalationNext, AssignSome, StateSome, CommentSome,
       Step, SweepStep

LEMMA ExpectableNat ==
  ASSUME NEW r, NEW t
  PROVE  Expectable(r, t) \subseteq Nat
BY DEF Expectable

(* The three statements that write to a row. *)
LEMMA RowChanges ==
  ASSUME Next
  PROVE  \/ UNCHANGED row
         \/ \E r \in Requests : AssignUpdate(r) \/ StateUpdate(r)
         \/ \E s \in Sweeps, t \in Tickets :
              EscalateUpdate(s, t) /\ UNCHANGED serviceVars
<1>1. ASSUME NEW r \in Requests, NEW u \in Staff, NEW t \in Tickets,
             NEW a \in Users \cup {NoUser}, NEW v \in Expectable(r, t),
             AssignRead(r, u, t, a, v)
      PROVE  UNCHANGED row
  BY <1>1 DEF AssignRead
<1>2. ASSUME NEW r \in Requests, NEW u \in Staff, NEW t \in Tickets,
             NEW next \in {"en_progreso", "resuelto"}, NEW complete \in BOOLEAN,
             NEW v \in Expectable(r, t), StateRead(r, u, t, next, complete, v)
      PROVE  UNCHANGED row
  BY <1>2 DEF StateRead
<1>3. ASSUME NEW r \in Requests, NEW u \in Users, NEW t \in Tickets, CommentRead(r, u, t)
      PROVE  UNCHANGED row
  BY <1>3 DEF CommentRead
<1>4. ASSUME NEW r \in Requests,
             \/ AssignEvent(r) \/ StateEvent(r) \/ CommentEvent(r)
             \/ NotifyReporter(r) \/ NotFound(r) \/ Crash(r)
      PROVE  UNCHANGED row
  BY <1>4 DEF AssignEvent, StateEvent, CommentEvent, NotifyReporter, NotFound, Crash
<1>5. ASSUME NEW s \in Sweeps,
             SweepStart(s) \/ SweepScan(s) \/ EscalateEvent(s) \/ SweepReturn(s) \/ SweepDie(s)
      PROVE  UNCHANGED row
  BY <1>5 DEF SweepStart, SweepScan, EscalateEvent, SweepReturn, SweepDie
<1>6. Tick => UNCHANGED row
  BY DEF Tick
<1> QED BY NextCases, <1>1, <1>2, <1>3, <1>4, <1>5, <1>6

LEMMA InitIInv ==
  ASSUME Init
  PROVE  IInv
<1> USE DEF Init, StoreInit, ServiceInit, EscalationInit
<1>1. TypeOK
  BY StoreAssumption, EscalationAssumption
     DEF TypeOK, StoreTypeOK, ServiceTypeOK, EscalationTypeOK, Ticket,
         NewTicket, TicketStatus, MAX_LEVEL, Request, Blank, NoSnapshot,
         Notification, Sweep, AtRest
<1>2. RequestShape /\ RequestIsJudged /\ SnapshotIsCurrent /\ ConflictHasAWinner
  BY DEF RequestShape, RequestIsJudged, WellShaped, Judged, SnapshotIsCurrent,
         ConflictHasAWinner, Blank
<1>5. AssigneesAreHeld
  BY DEF AssigneesAreHeld, Held, CommittedOn, Committed, NewTicket, Blank
<1>3. EveryVersionHasOneWinner
  <2>1. \A t \in Tickets : CommittedOn(t) = {}
    BY DEF CommittedOn, Committed, Blank
  <2>2. \A t \in Tickets : row[t].version = 0
    BY DEF NewTicket
  <2>3. 0 .. 0 - 1 = {}
    OBVIOUS
  <2> QED BY <2>1, <2>2, <2>3 DEF EveryVersionHasOneWinner
<1>4. SweepShape
  BY DEF SweepShape, AtRest
<1> QED BY <1>1, <1>2, <1>3, <1>4, <1>5 DEF IInv

-----------------------------------------------------------------------------
(* Type correctness. *)

LEMMA EventTypes ==
  /\ \A r \in Requests, u \in Users, x \in Staff \cup {NoUser}, y \in Staff :
       [kind |-> "asignacion", by |-> r, actor |-> u, from |-> x, to |-> y]
         \in TicketEvent
  /\ \A r \in Requests, u \in Users, x, y \in TicketStatus,
        k \in {"cambio_estado", "resolucion"} :
       [kind |-> k, by |-> r, actor |-> u, from |-> x, to |-> y] \in TicketEvent
  /\ \A r \in Requests, u \in Users :
       [kind |-> "comentario", by |-> r, actor |-> u] \in TicketEvent
  /\ \A s \in Sweeps, x, y \in 0 .. MAX_LEVEL :
       [kind |-> "escalamiento", by |-> s, from |-> x, to |-> y] \in TicketEvent
BY DEF TicketEvent

LEMMA InsertEventType ==
  ASSUME StoreTypeOK, NEW t \in Tickets, NEW e \in TicketEvent,
         InsertEvent(t, e)
  PROVE  events' \in [Tickets -> Seq(TicketEvent)]
<1>1. Append(events[t], e) \in Seq(TicketEvent)
  BY DEF StoreTypeOK
<1> QED BY <1>1 DEF StoreTypeOK, InsertEvent

LEMMA TargetType ==
  ASSUME EscalationTypeOK, NEW s \in Sweeps, NEW t \in Tickets
  PROVE  Target(s, t) \in 0 .. MAX_LEVEL
BY DEF Target, decideEscalationLevel, MAX_LEVEL

LEMMA StatusOfTransition ==
  ASSUME NEW x, NEW y, NEW u, canTransition(x, y, u)
  PROVE  x \in TicketStatus /\ y \in {"en_progreso", "resuelto"} /\ x # "resuelto"
BY DEF canTransition, TicketStatus

LEMMA SnapshotType ==
  ASSUME StoreTypeOK, NEW t \in Tickets
  PROVE  Snapshot(t) \in [status : TicketStatus, assignee : Staff \cup {NoUser},
                          version : Nat]
BY DEF StoreTypeOK, Ticket, Snapshot

LEMMA AnswerType ==
  ASSUME ServiceTypeOK, NEW r \in Requests,
         NEW code \in {"notFound", "badRequest", "forbidden", "unprocessable"},
         Answer(r, code)
  PROVE  req' \in [Requests -> Request]
BY DEF ServiceTypeOK, Answer, Request, Blank, NoSnapshot, TicketStatus

LEMMA BeginType ==
  ASSUME StoreTypeOK, ServiceTypeOK, NEW r \in Requests,
         NEW pc \in {"update", "event"},
         NEW op \in {"assign", "state", "comment"},
         NEW u \in Users, NEW t \in Tickets,
         NEW arg \in Staff \cup {NoUser} \cup TicketStatus, NEW exp \in Nat,
         Begin(r, pc, op, u, t, arg, exp)
  PROVE  req' \in [Requests -> Request]
<1> DEFINE q == [pc |-> pc, alive |-> TRUE, op |-> op, actor |-> u,
                 ticket |-> t, arg |-> arg, exp |-> exp,
                 snap |-> Snapshot(t), out |-> "none"]
<1>1. q \in Request
  BY SnapshotType DEF Request
<1>2. req' = [req EXCEPT ![r] = q]
  BY DEF Begin
<1> HIDE DEF q
<1> QED BY <1>1, <1>2 DEF ServiceTypeOK

LEMMA MoveOnType ==
  ASSUME ServiceTypeOK, NEW r \in Requests,
         NEW pc \in {"event", "notify", "done"}, NEW out \in {"ok", "conflict"},
         \/ GoTo(r, pc)
         \/ req' = [req EXCEPT ![r].pc = pc, ![r].out = out]
         \/ Crash(r)
  PROVE  req' \in [Requests -> Request]
<1>0. PICK q \in Request : q = req[r]
  BY DEF ServiceTypeOK
<1>1. CASE GoTo(r, pc)
  <2>1. [q EXCEPT !.pc = pc] \in Request
    BY DEF Request
  <2>2. req' = [req EXCEPT ![r] = [q EXCEPT !.pc = pc]]
    BY <1>0, <1>1 DEF GoTo
  <2> QED BY <2>1, <2>2 DEF ServiceTypeOK
<1>2. CASE req' = [req EXCEPT ![r].pc = pc, ![r].out = out]
  <2>1. [q EXCEPT !.pc = pc, !.out = out] \in Request
    BY DEF Request
  <2>2. req' = [req EXCEPT ![r] = [q EXCEPT !.pc = pc, !.out = out]]
    BY <1>0, <1>2 DEF ServiceTypeOK
  <2> QED BY <2>1, <2>2 DEF ServiceTypeOK
<1>3. CASE Crash(r)
  <2>1. [Blank EXCEPT !.alive = FALSE] \in Request
    BY DEF Blank, NoSnapshot, Request, TicketStatus
  <2>2. [req[r] EXCEPT !.alive = FALSE] \in Request
    <3>1. [q EXCEPT !.alive = FALSE] \in Request
      BY DEF Request
    <3> QED BY <1>0, <3>1
  <2> QED BY <1>3, <2>1, <2>2 DEF Crash, ServiceTypeOK
<1> QED BY <1>1, <1>2, <1>3

LEMMA TicketUpdates ==
  ASSUME NEW x \in Ticket
  PROVE  /\ \A a \in Staff : Assigned(x, a) \in Ticket
         /\ \A st \in TicketStatus, r \in Requests : Moved(x, st, r) \in Ticket
         /\ \A l \in 0 .. MAX_LEVEL : [x EXCEPT !.level = l] \in Ticket
<1>1. x.version + 1 \in Nat
  BY DEF Ticket
<1> DEFINE n == x.version + 1
<1> HIDE DEF n
<1>2. \A a \in Staff : [x EXCEPT !.assignee = a, !.version = n] \in Ticket
  BY <1>1 DEF Ticket, n
<1>3. \A st \in TicketStatus, f \in Requests \cup {NoRequest} :
         [x EXCEPT !.status = st, !.version = n, !.solution = f] \in Ticket
  BY <1>1 DEF Ticket, n
<1>4. \A st \in TicketStatus, r \in Requests : Moved(x, st, r) \in Ticket
  BY <1>3 DEF Moved, Ticket, n
<1> QED BY <1>2, <1>4 DEF Assigned, Ticket, n

LEMMA TypeStep ==
  ASSUME IInv, [Next]_vars
  PROVE  TypeOK'
<1> USE DEF IInv, TypeOK
<1>1. ASSUME NEW r \in Requests, NEW u \in Staff, NEW t \in Tickets,
             NEW a \in Users \cup {NoUser}, NEW v \in Expectable(r, t),
             AssignRead(r, u, t, a, v), UNCHANGED escalationVars
      PROVE  TypeOK'
  <2>1. v \in Nat
    BY ExpectableNat
  <2>2. req' \in [Requests -> Request]
    BY <1>1, <2>1, AnswerType, BeginType DEF AssignRead, Users
  <2> QED BY <1>1, <2>2 DEF AssignRead, StoreTypeOK, ServiceTypeOK,
               EscalationTypeOK, escalationVars
<1>2. ASSUME NEW r \in Requests, AssignUpdate(r), UNCHANGED escalationVars
      PROVE  TypeOK'
  <2>1. req' \in [Requests -> Request]
    BY <1>2, MoveOnType DEF AssignUpdate
  <2>2. req[r].ticket \in Tickets /\ req[r].arg \in Staff
    BY <1>2 DEF AssignUpdate, Running, RequestShape, WellShaped,
                RequestIsJudged, Judged
  <2>3. row' \in [Tickets -> Ticket]
    BY <1>2, <2>2, TicketUpdates DEF AssignUpdate, StoreTypeOK
  <2> QED BY <1>2, <2>1, <2>3 DEF AssignUpdate, StoreTypeOK, ServiceTypeOK,
               EscalationTypeOK, escalationVars
<1>3. ASSUME NEW r \in Requests, AssignEvent(r), UNCHANGED escalationVars
      PROVE  TypeOK'
  <2>1. req' \in [Requests -> Request]
    BY <1>3, MoveOnType DEF AssignEvent
  <2>2. req[r].ticket \in Tickets /\ req[r].arg \in Staff
        /\ req[r].actor \in Users /\ req[r].snap.assignee \in Staff \cup {NoUser}
    BY <1>3 DEF AssignEvent, Running, RequestShape, RequestIsJudged, WellShaped, Judged,
                ServiceTypeOK, Request
  <2>3. events' \in [Tickets -> Seq(TicketEvent)]
    BY <1>3, <2>2, EventTypes, InsertEventType DEF AssignEvent
  <2> QED BY <1>3, <2>1, <2>3 DEF AssignEvent, StoreTypeOK, ServiceTypeOK,
               EscalationTypeOK, escalationVars
<1>4. ASSUME NEW r \in Requests, NEW u \in Staff, NEW t \in Tickets,
             NEW next \in {"en_progreso", "resuelto"}, NEW complete \in BOOLEAN,
             NEW v \in Expectable(r, t),
             StateRead(r, u, t, next, complete, v), UNCHANGED escalationVars
      PROVE  TypeOK'
  <2>1. v \in Nat /\ next \in TicketStatus
    BY ExpectableNat DEF TicketStatus
  <2>2. StateVerdict(Snapshot(t), u, next, complete)
          \in {"badRequest", "forbidden", "unprocessable", "proceed"}
    BY DEF StateVerdict
  <2>3. req' \in [Requests -> Request]
    BY <1>4, <2>1, <2>2, AnswerType, BeginType DEF StateRead, Users
  <2> QED BY <1>4, <2>3 DEF StateRead, StoreTypeOK, ServiceTypeOK,
               EscalationTypeOK, escalationVars
<1>5. ASSUME NEW r \in Requests, StateUpdate(r), UNCHANGED escalationVars
      PROVE  TypeOK'
  <2>1. req' \in [Requests -> Request]
    BY <1>5, MoveOnType DEF StateUpdate
  <2>2. req[r].ticket \in Tickets /\ req[r].arg \in TicketStatus
    BY <1>5, StatusOfTransition
       DEF StateUpdate, Running, RequestShape, RequestIsJudged, WellShaped, Judged,
           TicketStatus
  <2>3. row' \in [Tickets -> Ticket]
    <3> DEFINE y == Moved(row[req[r].ticket], req[r].arg, r)
    <3>1. y \in Ticket
      BY <2>2, TicketUpdates DEF StoreTypeOK
    <3>2. row' = row \/ row' = [row EXCEPT ![req[r].ticket] = y]
      BY <1>5 DEF StateUpdate
    <3> HIDE DEF y
    <3> QED BY <3>1, <3>2 DEF StoreTypeOK
  <2> QED BY <1>5, <2>1, <2>3 DEF StateUpdate, StoreTypeOK, ServiceTypeOK,
               EscalationTypeOK, escalationVars
<1>6. ASSUME NEW r \in Requests, StateEvent(r), UNCHANGED escalationVars
      PROVE  TypeOK'
  <2>1. req' \in [Requests -> Request]
    BY <1>6, MoveOnType DEF StateEvent
  <2>2. req[r].ticket \in Tickets /\ req[r].arg \in TicketStatus
        /\ req[r].snap.status \in TicketStatus /\ req[r].actor \in Users
    BY <1>6, StatusOfTransition
       DEF StateEvent, Running, RequestShape, RequestIsJudged, WellShaped, Judged,
           TicketStatus
  <2>3. events' \in [Tickets -> Seq(TicketEvent)]
    BY <1>6, <2>2, EventTypes, InsertEventType DEF StateEvent
  <2> QED BY <1>6, <2>1, <2>3 DEF StateEvent, StoreTypeOK, ServiceTypeOK,
               EscalationTypeOK, escalationVars
<1>7. ASSUME NEW r \in Requests, NEW u \in Users, NEW t \in Tickets,
             CommentRead(r, u, t), UNCHANGED escalationVars
      PROVE  TypeOK'
  <2>1. req' \in [Requests -> Request]
    BY <1>7, AnswerType, BeginType DEF CommentRead
  <2> QED BY <1>7, <2>1 DEF CommentRead, StoreTypeOK, ServiceTypeOK,
               EscalationTypeOK, escalationVars
<1>8. ASSUME NEW r \in Requests, CommentEvent(r), UNCHANGED escalationVars
      PROVE  TypeOK'
  <2>1. req' \in [Requests -> Request]
    BY <1>8, MoveOnType DEF CommentEvent
  <2>2. req[r].ticket \in Tickets /\ req[r].actor \in Users
    BY <1>8 DEF CommentEvent, Running, RequestShape, WellShaped
  <2>3. events' \in [Tickets -> Seq(TicketEvent)]
    BY <1>8, <2>2, EventTypes, InsertEventType DEF CommentEvent
  <2> QED BY <1>8, <2>1, <2>3 DEF CommentEvent, StoreTypeOK, ServiceTypeOK,
               EscalationTypeOK, escalationVars
<1>9. ASSUME NEW r \in Requests, NotifyReporter(r), UNCHANGED escalationVars
      PROVE  TypeOK'
  <2>1. req' \in [Requests -> Request]
    BY <1>9, MoveOnType DEF NotifyReporter
  <2>2. req[r].ticket \in Tickets
        /\ req[r].op \in {"assign", "state", "comment"}
    BY <1>9 DEF NotifyReporter, RequestShape, WellShaped, ServiceTypeOK, Request
  <2>3. [type |-> NotifyType(req[r].op), ticket |-> req[r].ticket, by |-> r]
          \in Notification
    BY <2>2 DEF NotifyType, Notification
  <2>4. sent' \subseteq Notification
    BY <1>9, <2>3 DEF NotifyReporter, ServiceTypeOK
  <2> QED BY <1>9, <2>1, <2>4 DEF NotifyReporter, StoreTypeOK, ServiceTypeOK,
               EscalationTypeOK, escalationVars
<1>10. ASSUME NEW r \in Requests, NotFound(r) \/ Crash(r),
              UNCHANGED escalationVars
       PROVE  TypeOK'
  <2>1. req' \in [Requests -> Request]
    BY <1>10, AnswerType, MoveOnType DEF NotFound
  <2> QED BY <1>10, <2>1 DEF NotFound, Crash, StoreTypeOK, ServiceTypeOK,
               EscalationTypeOK, escalationVars
<1>11. ASSUME NEW s \in Sweeps, UNCHANGED serviceVars,
              SweepStart(s) \/ SweepScan(s) \/ SweepReturn(s) \/ SweepDie(s)
       PROVE  TypeOK'
  <2>1. AtRest \in Sweep
    BY DEF AtRest, Sweep, MAX_LEVEL
  <2>2. \A t \in Tickets : row[t].level \in 0 .. MAX_LEVEL
    BY DEF StoreTypeOK, Ticket
  <2>3. CASE SweepStart(s)
    <3>1. [sweep[s] EXCEPT !.pc = "scan", !.at = now] \in Sweep
      BY DEF EscalationTypeOK, Sweep
    <3> QED BY <1>11, <2>3, <3>1 DEF SweepStart, StoreTypeOK, ServiceTypeOK,
                 EscalationTypeOK, serviceVars
  <2>4. CASE SweepScan(s)
    <3> DEFINE todo == {t \in Candidates \cap RuledTickets :
                          decideEscalationLevel(t, sweep[s].at) > row[t].level}
               seen == [t \in Tickets |-> row[t].level]
    <3>1. todo \in SUBSET Tickets /\ seen \in [Tickets -> 0 .. MAX_LEVEL]
      BY <2>2 DEF Candidates
    <3> HIDE DEF todo, seen
    <3>2. [sweep[s] EXCEPT !.pc = "loop", !.todo = todo, !.seen = seen] \in Sweep
      BY <3>1 DEF EscalationTypeOK, Sweep
    <3> QED BY <1>11, <2>4, <3>2 DEF SweepScan, StoreTypeOK, ServiceTypeOK,
                 EscalationTypeOK, serviceVars, todo, seen
  <2>5. CASE SweepReturn(s) \/ SweepDie(s)
    BY <1>11, <2>1, <2>5 DEF SweepReturn, SweepDie, StoreTypeOK, ServiceTypeOK,
                       EscalationTypeOK, serviceVars
  <2> QED BY <1>11, <2>3, <2>4, <2>5
<1>12. ASSUME NEW s \in Sweeps, NEW t \in Tickets, UNCHANGED serviceVars,
              EscalateUpdate(s, t)
       PROVE  TypeOK'
  <2>1. row' \in [Tickets -> Ticket]
    <3>1. [row[t] EXCEPT !.level = Target(s, t)] \in Ticket
      BY TargetType DEF StoreTypeOK, Ticket
    <3> QED BY <1>12, <3>1 DEF EscalateUpdate, StoreTypeOK
  <2>2. sweep' \in [Sweeps -> Sweep]
    <3>1. PICK w \in Sweep : w = sweep[s]
      BY DEF EscalationTypeOK
    <3>2. /\ [w EXCEPT !.pc = "event", !.cur = t, !.todo = @ \ {t}] \in Sweep
          /\ [w EXCEPT !.todo = @ \ {t}] \in Sweep
      BY DEF Sweep
    <3>3. sweep \in [Sweeps -> Sweep]
      BY DEF EscalationTypeOK
    <3>4. CASE sweep' = [sweep EXCEPT ![s].pc = "event", ![s].cur = t, ![s].todo = @ \ {t}]
      <4>1. sweep' = [sweep EXCEPT ![s] = [w EXCEPT !.pc = "event", !.cur = t,
                                                    !.todo = @ \ {t}]]
        BY <3>1, <3>3, <3>4
      <4> QED BY <3>2, <3>3, <4>1
    <3>5. CASE sweep' = [sweep EXCEPT ![s].todo = @ \ {t}]
      <4>1. sweep' = [sweep EXCEPT ![s] = [w EXCEPT !.todo = @ \ {t}]]
        BY <3>1, <3>3, <3>5
      <4> QED BY <3>2, <3>3, <4>1
    <3> QED BY <1>12, <3>4, <3>5 DEF EscalateUpdate
  <2> QED BY <1>12, <2>1, <2>2 DEF EscalateUpdate, StoreTypeOK, ServiceTypeOK,
               EscalationTypeOK, serviceVars
<1>13. ASSUME NEW s \in Sweeps, UNCHANGED serviceVars, EscalateEvent(s)
       PROVE  TypeOK'
  <2>1. sweep[s].cur \in Tickets
    BY <1>13 DEF EscalateEvent, SweepShape
  <2>2. sweep[s].seen[sweep[s].cur] \in 0 .. MAX_LEVEL
    BY <2>1 DEF EscalationTypeOK, Sweep
  <2>3. events' \in [Tickets -> Seq(TicketEvent)]
    BY <1>13, <2>1, <2>2, TargetType, EventTypes, InsertEventType
       DEF EscalateEvent
  <2>4. sweep' \in [Sweeps -> Sweep]
    <3>1. PICK w \in Sweep : w = sweep[s]
      BY DEF EscalationTypeOK
    <3>2. [w EXCEPT !.pc = "loop", !.cur = NoTicket] \in Sweep
      BY DEF Sweep
    <3>3. sweep' = [sweep EXCEPT ![s] = [w EXCEPT !.pc = "loop", !.cur = NoTicket]]
      BY <1>13, <3>1 DEF EscalateEvent, EscalationTypeOK
    <3> QED BY <3>2, <3>3 DEF EscalationTypeOK
  <2> QED BY <1>13, <2>3, <2>4 DEF EscalateEvent, StoreTypeOK, ServiceTypeOK,
               EscalationTypeOK, serviceVars
<1>14. ASSUME Tick, UNCHANGED serviceVars
       PROVE  TypeOK'
  BY <1>14 DEF Tick, StoreTypeOK, ServiceTypeOK, EscalationTypeOK, serviceVars
<1>15. CASE UNCHANGED vars
  BY <1>15 DEF vars, StoreTypeOK, ServiceTypeOK, EscalationTypeOK
<1> QED
  <2> HIDE DEF IInv, TypeOK
  <2> QED BY NextCases, <1>1, <1>2, <1>3, <1>4, <1>5, <1>6, <1>7, <1>8, <1>9,
             <1>10, <1>11, <1>12, <1>13, <1>14, <1>15

-----------------------------------------------------------------------------
(* The local variables of the requests. *)

LEMMA OneRequest ==
  ASSUME ServiceTypeOK, RequestShape, RequestIsJudged,
         NEW r \in Requests, NEW q, WellShaped(q), Judged(q),
         req' = [req EXCEPT ![r] = q]
  PROVE  RequestShape' /\ RequestIsJudged'
<1>1. \A x \in Requests : req'[x] = IF x = r THEN q ELSE req[x]
  BY DEF ServiceTypeOK
<1>2. \A x \in Requests : WellShaped(req'[x]) /\ Judged(req'[x])
  BY <1>1 DEF RequestShape, RequestIsJudged
<1> QED BY <1>2 DEF RequestShape, RequestIsJudged, WellShaped, Judged

(* An early return, a step ahead and a crash leave a request in shape. *)
LEMMA AnswerShape ==
  ASSUME ServiceTypeOK, RequestShape, RequestIsJudged, NEW r \in Requests,
         NEW code \in {"notFound", "badRequest", "forbidden", "unprocessable"},
         Answer(r, code)
  PROVE  RequestShape' /\ RequestIsJudged'
<1> DEFINE q == [Blank EXCEPT !.pc = "done", !.out = code]
<1>1. WellShaped(q) /\ Judged(q)
  BY DEF WellShaped, Judged, Blank
<1> QED BY <1>1, OneRequest DEF Answer

LEMMA BeginShape ==
  ASSUME ServiceTypeOK, RequestShape, RequestIsJudged, NEW r \in Requests,
         NEW pc \in {"update", "event"},
         NEW op \in {"assign", "state", "comment"},
         NEW u \in Users, NEW t \in Tickets, NEW arg, NEW exp,
         op = "comment" => pc = "event",
         op = "assign" => arg \in Staff /\ u \in Staff,
         op = "state" =>
           /\ u \in Admins \/ row[t].assignee = u
           /\ arg = "en_progreso" => row[t].assignee # NoUser
           /\ canTransition(row[t].status, arg, u),
         Begin(r, pc, op, u, t, arg, exp)
  PROVE  RequestShape' /\ RequestIsJudged'
<1> DEFINE q == [pc |-> pc, alive |-> TRUE, op |-> op, actor |-> u,
                 ticket |-> t, arg |-> arg, exp |-> exp,
                 snap |-> Snapshot(t), out |-> "none"]
<1>1. WellShaped(q)
  BY DEF WellShaped
<1>2. Judged(q)
  BY DEF Judged, Snapshot
<1>3. req' = [req EXCEPT ![r] = q]
  BY DEF Begin
<1> HIDE DEF q
<1> QED BY <1>1, <1>2, <1>3, OneRequest

LEMMA MoveOnShape ==
  ASSUME ServiceTypeOK, RequestShape, RequestIsJudged, NEW r \in Requests,
         req[r].op # "none", req[r].pc # "done",
         NEW pc \in {"event", "notify"}, NEW out \in {"ok", "conflict"},
         out = "conflict" => req[r].op \in {"assign", "state"},
         \/ GoTo(r, pc)
         \/ req' = [req EXCEPT ![r].pc = "done", ![r].out = out]
         \/ Crash(r)
  PROVE  RequestShape' /\ RequestIsJudged'
<1>1. WellShaped(req[r]) /\ Judged(req[r]) /\ req[r] \in Request
  BY DEF RequestShape, RequestIsJudged, ServiceTypeOK
<1>2. CASE GoTo(r, pc)
  <2> DEFINE q == [req[r] EXCEPT !.pc = pc]
  <2>1. WellShaped(q) /\ Judged(q)
    BY <1>1 DEF WellShaped, Judged, Request
  <2> QED BY <1>2, <2>1, OneRequest DEF GoTo
<1>3. CASE req' = [req EXCEPT ![r].pc = "done", ![r].out = out]
  <2> DEFINE q == [req[r] EXCEPT !.pc = "done", !.out = out]
  <2>1. WellShaped(q) /\ Judged(q)
    BY <1>1 DEF WellShaped, Judged, Request
  <2> QED BY <1>3, <2>1, OneRequest
<1>4. CASE Crash(r)
  <2> DEFINE q == IF req[r].pc = "update" THEN [Blank EXCEPT !.alive = FALSE]
                                          ELSE [req[r] EXCEPT !.alive = FALSE]
  <2>1. WellShaped([Blank EXCEPT !.alive = FALSE])
        /\ Judged([Blank EXCEPT !.alive = FALSE])
    BY DEF WellShaped, Judged, Blank
  <2>2. WellShaped([req[r] EXCEPT !.alive = FALSE])
        /\ Judged([req[r] EXCEPT !.alive = FALSE])
    BY <1>1 DEF WellShaped, Judged, Request
  <2>3. WellShaped(q) /\ Judged(q)
    BY <2>1, <2>2
  <2>4. req' = [req EXCEPT ![r] = q]
    BY <1>4 DEF Crash
  <2> HIDE DEF q
  <2> QED BY <2>3, <2>4, OneRequest
<1> QED BY <1>2, <1>3, <1>4

LEMMA ShapeStep ==
  ASSUME IInv, [Next]_vars
  PROVE  RequestShape' /\ RequestIsJudged'
<1> USE DEF IInv, TypeOK
<1>1. ASSUME NEW r \in Requests, NEW u \in Staff, NEW t \in Tickets,
             NEW a \in Users \cup {NoUser}, NEW v \in Expectable(r, t),
             AssignRead(r, u, t, a, v)
      PROVE  RequestShape' /\ RequestIsJudged'
  BY <1>1, AnswerShape, BeginShape DEF AssignRead, Users
<1>2. ASSUME NEW r \in Requests, AssignUpdate(r) \/ StateUpdate(r)
      PROVE  RequestShape' /\ RequestIsJudged'
  BY <1>2, MoveOnShape DEF AssignUpdate, StateUpdate, Running
<1>3. ASSUME NEW r \in Requests, AssignEvent(r) \/ CommentEvent(r) \/ StateEvent(r)
      PROVE  RequestShape' /\ RequestIsJudged'
  BY <1>3, MoveOnShape DEF AssignEvent, CommentEvent, StateEvent, Running
<1>4. ASSUME NEW r \in Requests, NEW u \in Staff, NEW t \in Tickets,
             NEW next \in {"en_progreso", "resuelto"}, NEW complete \in BOOLEAN,
             NEW v \in Expectable(r, t),
             StateRead(r, u, t, next, complete, v)
      PROVE  RequestShape' /\ RequestIsJudged'
  <2>1. StateVerdict(Snapshot(t), u, next, complete)
          \in {"badRequest", "forbidden", "unprocessable", "proceed"}
    BY DEF StateVerdict
  <2>2. StateVerdict(Snapshot(t), u, next, complete) = "proceed" =>
          /\ u \in Admins \/ row[t].assignee = u
          /\ next = "en_progreso" => row[t].assignee # NoUser
          /\ canTransition(row[t].status, next, u)
    BY DEF StateVerdict, Snapshot
  <2> QED BY <1>4, <2>1, <2>2, AnswerShape, BeginShape DEF StateRead, Users
<1>5. ASSUME NEW r \in Requests, NEW u \in Users, NEW t \in Tickets,
             CommentRead(r, u, t)
      PROVE  RequestShape' /\ RequestIsJudged'
  BY <1>5, AnswerShape, BeginShape DEF CommentRead
<1>6. ASSUME NEW r \in Requests, NotifyReporter(r) \/ Crash(r)
      PROVE  RequestShape' /\ RequestIsJudged'
  <2>1. req[r].op # "none" /\ req[r].pc # "done"
    BY <1>6 DEF NotifyReporter, Crash, RequestShape, WellShaped
  <2> QED BY <1>6, <2>1, MoveOnShape DEF NotifyReporter
<1>7. ASSUME NEW r \in Requests, NotFound(r)
      PROVE  RequestShape' /\ RequestIsJudged'
  BY <1>7, AnswerShape DEF NotFound
<1>8. CASE UNCHANGED req
  BY <1>8 DEF RequestShape, RequestIsJudged, WellShaped, Judged
<1> QED
  <2> HIDE DEF IInv, TypeOK
  <2>1. CASE Next
    BY <2>1, NextCases, <1>1, <1>2, <1>3, <1>4, <1>5, <1>6, <1>7, <1>8
       DEF serviceVars, Tick
  <2>2. CASE UNCHANGED vars
    BY <2>2, <1>8 DEF vars
  <2> QED BY <2>1, <2>2

LEMMA SweepShapeStep ==
  ASSUME IInv, [Next]_vars
  PROVE  SweepShape'
<1> USE DEF IInv, TypeOK, EscalationTypeOK
<1>1. ASSUME NEW s \in Sweeps,
             SweepStart(s) \/ SweepReturn(s) \/ SweepDie(s)
      PROVE  SweepShape'
  <2>1. PICK w : /\ sweep' = [sweep EXCEPT ![s] = w]
                 /\ w.pc \in {"idle", "scan"}
    BY <1>1 DEF SweepStart, SweepReturn, SweepDie, AtRest, Sweep
  <2>2. /\ sweep'[s].pc \in {"idle", "scan"}
        /\ \A x \in Sweeps \ {s} : sweep'[x] = sweep[x]
    BY <2>1
  <2> QED BY <2>2 DEF SweepShape, Target
<1>2. ASSUME NEW s \in Sweeps, SweepScan(s)
      PROVE  SweepShape'
  <2>1. \A x \in Sweeps \ {s} : sweep'[x] = sweep[x]
    BY <1>2 DEF SweepScan
  <2>2. /\ sweep'[s].pc = "loop"
        /\ sweep'[s].at = sweep[s].at
        /\ sweep'[s].seen = [t \in Tickets |-> row[t].level]
        /\ sweep'[s].todo = {t \in Candidates \cap RuledTickets :
                                decideEscalationLevel(t, sweep[s].at)
                                  > row[t].level}
    BY <1>2 DEF SweepScan, Sweep
  <2>3. \A t \in sweep'[s].todo :
          decideEscalationLevel(t, sweep'[s].at) > sweep'[s].seen[t]
    BY <2>2 DEF Candidates
  <2> QED BY <2>1, <2>2, <2>3 DEF SweepShape, Target, decideEscalationLevel
<1>3. ASSUME NEW s \in Sweeps, NEW t \in Tickets, EscalateUpdate(s, t)
      PROVE  SweepShape'
  <2>1. \A x \in Sweeps \ {s} : sweep'[x] = sweep[x]
    BY <1>3 DEF EscalateUpdate
  <2>2. /\ sweep[s].pc = "loop"
        /\ sweep'[s].pc = "event" => sweep'[s].cur \in Tickets
        /\ sweep'[s].at = sweep[s].at
        /\ sweep'[s].seen = sweep[s].seen
        /\ sweep'[s].todo \subseteq sweep[s].todo
    BY <1>3 DEF EscalateUpdate, Sweep
  <2> QED BY <2>1, <2>2 DEF SweepShape, Target, decideEscalationLevel
<1>4. ASSUME NEW s \in Sweeps, EscalateEvent(s)
      PROVE  SweepShape'
  BY <1>4 DEF EscalateEvent, Sweep, SweepShape, Target
<1>5. CASE UNCHANGED sweep
  BY <1>5 DEF SweepShape, Target
<1> QED
  <2> HIDE DEF IInv, TypeOK, EscalationTypeOK
  <2>1. CASE Next
    BY <2>1, NextCases, <1>1, <1>2, <1>3, <1>4, <1>5
       DEF escalationVars, Tick
  <2>2. CASE UNCHANGED vars
    BY <2>2, <1>5 DEF vars
  <2> QED BY <2>1, <2>2

-----------------------------------------------------------------------------
(* What a step does to the versions and to the requests that wrote them.   *)

SameVersions ==
  \A t \in Tickets : /\ row'[t].version = row[t].version
                     /\ row'[t].assignee = row[t].assignee

SameCommits ==
  \A x \in Requests :
    /\ Committed(x)' <=> Committed(x)
    /\ Committed(x) => /\ req'[x].exp = req[x].exp
                       /\ req'[x].ticket = req[x].ticket
                       /\ req'[x].op = req[x].op
                       /\ req'[x].arg = req[x].arg

(* r wins the version it expects. *)
Commits(r) ==
  /\ req[r].ticket \in Tickets
  /\ req[r].pc = "update"
  /\ req[r].exp = row[req[r].ticket].version
  /\ row'[req[r].ticket].version = row[req[r].ticket].version + 1
  /\ row'[req[r].ticket].assignee =
       IF req[r].op = "assign" THEN req[r].arg ELSE row[req[r].ticket].assignee
  /\ \A t \in Tickets \ {req[r].ticket} :
       /\ row'[t].version = row[t].version
       /\ row'[t].assignee = row[t].assignee
  /\ \A x \in Requests \ {r} : req'[x] = req[x]
  /\ req'[r].op = req[r].op
  /\ req'[r].op \in {"assign", "state"}
  /\ req'[r].ticket = req[r].ticket
  /\ req'[r].exp = req[r].exp
  /\ req'[r].arg = req[r].arg
  /\ req'[r].pc = "event"
  /\ req'[r].out = req[r].out

LEMMA RequestSame ==
  ASSUME ServiceTypeOK, NEW r \in Requests, NEW q,
         req' = [req EXCEPT ![r] = q],
         /\ q.op \in {"assign", "state"}
         /\ q.pc \in {"event", "notify"} \/ q.out = "ok"
         <=> Committed(r),
         Committed(r) => /\ q.exp = req[r].exp /\ q.ticket = req[r].ticket
                         /\ q.op = req[r].op /\ q.arg = req[r].arg
  PROVE  SameCommits
<1>1. \A x \in Requests : req'[x] = IF x = r THEN q ELSE req[x]
  BY DEF ServiceTypeOK
<1> QED BY <1>1 DEF SameCommits, Committed

LEMMA AnswerSame ==
  ASSUME ServiceTypeOK, RequestShape, NEW r \in Requests, Idle(r),
         NEW code \in {"notFound", "badRequest", "forbidden", "unprocessable"},
         Answer(r, code)
  PROVE  SameCommits
<1> DEFINE q == [Blank EXCEPT !.pc = "done", !.out = code]
<1>1. q.op = "none" /\ ~ Committed(r)
  BY DEF Blank, Committed, Idle, Running
<1>2. req' = [req EXCEPT ![r] = q]
  BY DEF Answer
<1> HIDE DEF q
<1> QED BY <1>1, <1>2, RequestSame

LEMMA BeginSame ==
  ASSUME ServiceTypeOK, RequestShape, NEW r \in Requests, Idle(r),
         NEW pc, NEW op, NEW u, NEW t, NEW arg, NEW exp,
         pc = "update" \/ op = "comment",
         Begin(r, pc, op, u, t, arg, exp)
  PROVE  SameCommits
<1> DEFINE q == [pc |-> pc, alive |-> TRUE, op |-> op, actor |-> u,
                 ticket |-> t, arg |-> arg, exp |-> exp,
                 snap |-> Snapshot(t), out |-> "none"]
<1>1. /\ q.op \notin {"assign", "state"} \/ q.pc = "update"
      /\ q.out = "none"
      /\ ~ Committed(r)
  BY DEF Committed, Idle, Running
<1>2. req' = [req EXCEPT ![r] = q]
  BY DEF Begin
<1> HIDE DEF q
<1> QED BY <1>1, <1>2, RequestSame

LEMMA MoveOnSame ==
  ASSUME ServiceTypeOK, RequestShape, NEW r \in Requests,
         \/ /\ req[r].pc = "update"
            /\ req' = [req EXCEPT ![r].pc = "done", ![r].out = "conflict"]
         \/ /\ req[r].pc \in {"event", "notify"}
            /\ \/ GoTo(r, "notify")
               \/ req' = [req EXCEPT ![r].pc = "done", ![r].out = "ok"]
         \/ Crash(r)
  PROVE  SameCommits
<1>1. WellShaped(req[r]) /\ req[r] \in Request
  BY DEF RequestShape, ServiceTypeOK
<1>2. CASE /\ req[r].pc = "update"
           /\ req' = [req EXCEPT ![r].pc = "done", ![r].out = "conflict"]
  <2> DEFINE q == [req[r] EXCEPT !.pc = "done", !.out = "conflict"]
  <2>1. q.pc = "done" /\ q.out = "conflict" /\ ~ Committed(r)
    BY <1>1, <1>2 DEF WellShaped, Request, Committed
  <2>2. req' = [req EXCEPT ![r] = q]
    BY <1>2
  <2> HIDE DEF q
  <2> QED BY <2>1, <2>2, RequestSame
<1>3. CASE req[r].pc \in {"event", "notify"} /\ GoTo(r, "notify")
  <2> DEFINE q == [req[r] EXCEPT !.pc = "notify"]
  <2>1. /\ q.pc = "notify" /\ q.op = req[r].op
        /\ q.arg = req[r].arg
        /\ q.exp = req[r].exp /\ q.ticket = req[r].ticket
    BY <1>1 DEF Request
  <2>2. req' = [req EXCEPT ![r] = q]
    BY <1>3 DEF GoTo
  <2>3. Committed(r) <=> req[r].op \in {"assign", "state"}
    BY <1>3 DEF Committed
  <2> HIDE DEF q
  <2> QED BY <2>1, <2>2, <2>3, RequestSame
<1>4. CASE /\ req[r].pc \in {"event", "notify"}
           /\ req' = [req EXCEPT ![r].pc = "done", ![r].out = "ok"]
  <2> DEFINE q == [req[r] EXCEPT !.pc = "done", !.out = "ok"]
  <2>1. /\ q.out = "ok" /\ q.op = req[r].op
        /\ q.arg = req[r].arg
        /\ q.exp = req[r].exp /\ q.ticket = req[r].ticket
    BY <1>1 DEF Request
  <2>2. req' = [req EXCEPT ![r] = q]
    BY <1>4
  <2>3. Committed(r) <=> req[r].op \in {"assign", "state"}
    BY <1>4 DEF Committed
  <2> HIDE DEF q
  <2> QED BY <2>1, <2>2, <2>3, RequestSame
<1>5. CASE Crash(r) /\ req[r].pc = "update"
  <2> DEFINE q == [Blank EXCEPT !.alive = FALSE]
  <2>1. q.op = "none" /\ ~ Committed(r)
    BY <1>1, <1>5 DEF Blank, Committed, WellShaped
  <2>2. req' = [req EXCEPT ![r] = q]
    BY <1>5 DEF Crash
  <2> HIDE DEF q
  <2> QED BY <2>1, <2>2, RequestSame
<1>6. CASE Crash(r) /\ req[r].pc # "update"
  <2> DEFINE q == [req[r] EXCEPT !.alive = FALSE]
  <2>1. /\ q.pc = req[r].pc /\ q.out = req[r].out /\ q.op = req[r].op
        /\ q.arg = req[r].arg
        /\ q.exp = req[r].exp /\ q.ticket = req[r].ticket
    BY <1>1 DEF Request
  <2>2. req' = [req EXCEPT ![r] = q]
    BY <1>6 DEF Crash
  <2> HIDE DEF q
  <2> QED BY <2>1, <2>2, RequestSame DEF Committed
<1> QED BY <1>2, <1>3, <1>4, <1>5, <1>6

LEMMA UpdateCommits ==
  ASSUME TypeOK, RequestShape, NEW r \in Requests,
         req[r].pc = "update", req[r].op \in {"assign", "state"},
         req[r].exp = row[req[r].ticket].version,
         NEW y, y.version = row[req[r].ticket].version + 1,
         y.assignee = IF req[r].op = "assign" THEN req[r].arg
                                              ELSE row[req[r].ticket].assignee,
         row' = [row EXCEPT ![req[r].ticket] = y],
         GoTo(r, "event")
  PROVE  Commits(r)
<1>1. WellShaped(req[r]) /\ req[r] \in Request
  BY DEF RequestShape, TypeOK, ServiceTypeOK
<1>2. req[r].ticket \in Tickets /\ ~ Committed(r)
  BY <1>1 DEF WellShaped, Committed
<1> DEFINE q == [req[r] EXCEPT !.pc = "event"]
<1>3. /\ q.pc = "event" /\ q.op = req[r].op /\ q.exp = req[r].exp
      /\ q.ticket = req[r].ticket /\ q.out = req[r].out /\ q.arg = req[r].arg
  BY <1>1 DEF Request
<1>4. \A x \in Requests : req'[x] = IF x = r THEN q ELSE req[x]
  BY DEF GoTo, TypeOK, ServiceTypeOK
<1>5. /\ row'[req[r].ticket] = y
      /\ \A t \in Tickets \ {req[r].ticket} : row'[t] = row[t]
  BY <1>2 DEF TypeOK, StoreTypeOK
<1> HIDE DEF q
<1> QED BY <1>2, <1>3, <1>4, <1>5 DEF Commits

LEMMA VersionSteps ==
  ASSUME IInv, [Next]_vars
  PROVE  \/ SameVersions /\ SameCommits
         \/ \E r \in Requests : Commits(r)
<1> USE DEF IInv, TypeOK
<1>1. ASSUME UNCHANGED row  PROVE SameVersions
  BY <1>1 DEF SameVersions
<1>2. ASSUME UNCHANGED req  PROVE SameCommits
  BY <1>2 DEF SameCommits, Committed
<1>3. ASSUME NEW r \in Requests,
             \/ \E u \in Staff, t \in Tickets, a \in Users \cup {NoUser} :
                  \E v \in Expectable(r, t) : AssignRead(r, u, t, a, v)
             \/ \E u \in Staff, t \in Tickets,
                   next \in {"en_progreso", "resuelto"}, complete \in BOOLEAN :
                  \E v \in Expectable(r, t) :
                    StateRead(r, u, t, next, complete, v)
             \/ \E u \in Users, t \in Tickets : CommentRead(r, u, t)
             \/ NotFound(r)
      PROVE  SameVersions /\ SameCommits
  <2>1. \A s, u, next, complete :
          StateVerdict(s, u, next, complete)
            \in {"badRequest", "forbidden", "unprocessable", "proceed"}
    BY DEF StateVerdict
  <2> QED BY <1>3, <1>1, <2>1, AnswerSame, BeginSame
             DEF AssignRead, StateRead, CommentRead, NotFound
<1>4. ASSUME NEW r \in Requests, AssignUpdate(r) \/ StateUpdate(r)
      PROVE  (SameVersions /\ SameCommits) \/ Commits(r)
  <2>1. req[r].pc = "update" /\ req[r].op \in {"assign", "state"}
    BY <1>4 DEF AssignUpdate, StateUpdate, Running
  <2>2. req[r].ticket \in Tickets
    BY <2>1 DEF RequestShape, WellShaped
  <2>3. ASSUME UNCHANGED row,
               req' = [req EXCEPT ![r].pc = "done", ![r].out = "conflict"]
        PROVE  SameVersions /\ SameCommits
    BY <2>1, <2>3, <1>1, MoveOnSame
  <2>4. ASSUME req[r].exp = row[req[r].ticket].version, GoTo(r, "event"),
               \/ /\ req[r].op = "assign"
                  /\ row' = [row EXCEPT ![req[r].ticket] =
                                    Assigned(row[req[r].ticket], req[r].arg)]
               \/ /\ req[r].op = "state"
                  /\ row' = [row EXCEPT ![req[r].ticket] =
                                    Moved(row[req[r].ticket], req[r].arg, r)]
        PROVE  Commits(r)
    <3> DEFINE x == row[req[r].ticket]
    <3>1. x \in Ticket
      BY <2>2 DEF StoreTypeOK
    <3>2. /\ Assigned(x, req[r].arg).version = x.version + 1
          /\ Assigned(x, req[r].arg).assignee = req[r].arg
          /\ Moved(x, req[r].arg, r).version = x.version + 1
          /\ Moved(x, req[r].arg, r).assignee = x.assignee
      BY <3>1 DEF Assigned, Moved, Ticket
    <3> QED BY <2>1, <2>4, <3>2, UpdateCommits
  <2> QED BY <1>4, <2>3, <2>4
             DEF AssignUpdate, StateUpdate, AssignMatches, StateMatches, Running
<1>5. ASSUME NEW r \in Requests,
             \/ AssignEvent(r) \/ StateEvent(r) \/ CommentEvent(r)
             \/ NotifyReporter(r) \/ Crash(r)
      PROVE  SameVersions /\ SameCommits
  BY <1>5, <1>1, MoveOnSame
     DEF AssignEvent, StateEvent, CommentEvent, NotifyReporter, Running, Crash
<1>6. ASSUME UNCHANGED serviceVars, NEW s \in Sweeps,
             NEW t \in Tickets, EscalateUpdate(s, t)
      PROVE  SameVersions /\ SameCommits
  <2>1. row[t] \in Ticket
    BY DEF StoreTypeOK
  <2>2. /\ [row[t] EXCEPT !.level = Target(s, t)].version = row[t].version
        /\ [row[t] EXCEPT !.level = Target(s, t)].assignee = row[t].assignee
    BY <2>1 DEF Ticket
  <2>3. row' = row \/ row' = [row EXCEPT ![t] =
                                [row[t] EXCEPT !.level = Target(s, t)]]
    BY <1>6 DEF EscalateUpdate
  <2>4. SameVersions
    BY <2>2, <2>3 DEF SameVersions, StoreTypeOK
  <2> QED BY <1>6, <1>2, <2>4 DEF serviceVars
<1>7. ASSUME UNCHANGED <<row, req>>
      PROVE  SameVersions /\ SameCommits
  BY <1>7, <1>1, <1>2
<1> QED
  <2> HIDE DEF IInv, TypeOK
  <2>1. CASE Next
    BY <2>1, NextCases, <1>3, <1>4, <1>5, <1>6, <1>7
       DEF serviceVars, Tick, SweepStart, SweepScan, EscalateEvent,
           SweepReturn, SweepDie
  <2>2. CASE UNCHANGED vars
    BY <2>2, <1>7 DEF vars
  <2> QED BY <2>1, <2>2

LEMMA WinnersStep ==
  ASSUME TypeOK, RequestShape, EveryVersionHasOneWinner,
         \/ SameVersions /\ SameCommits
         \/ \E r \in Requests : Commits(r)
  PROVE  EveryVersionHasOneWinner'
<1>1. CASE SameVersions /\ SameCommits
  <2>1. \A t \in Tickets : CommittedOn(t)' = CommittedOn(t)
    BY <1>1 DEF SameCommits, CommittedOn, Committed
  <2>2. \A t \in Tickets : \A x \in CommittedOn(t) : req'[x].exp = req[x].exp
    BY <1>1 DEF SameCommits, CommittedOn
  <2> QED BY <1>1, <2>1, <2>2 DEF EveryVersionHasOneWinner, SameVersions
<1>2. ASSUME NEW r \in Requests, Commits(r)
      PROVE  EveryVersionHasOneWinner'
  <2>0. req[r].ticket \in Tickets /\ row[req[r].ticket].version \in Nat
    BY <1>2 DEF Commits, TypeOK, StoreTypeOK, Ticket
  <2> PICK tr \in Tickets, n \in Nat :
             tr = req[r].ticket /\ n = row[tr].version
    BY <2>0
  <2>1. req[r].exp = n /\ r \notin CommittedOn(tr)
    <3>1. req[r].exp = n /\ req[r].pc = "update" /\ req[r].out = "none"
      BY <1>2 DEF Commits, RequestShape, WellShaped
    <3> QED BY <3>1 DEF CommittedOn, Committed
  <2>2. \A x \in Requests : req'[x].exp = req[x].exp
    BY <1>2 DEF Commits
  <2>10. \A x \in Requests : /\ req'[x].ticket = req[x].ticket
                             /\ Committed(x)' <=> (x = r \/ Committed(x))
    BY <1>2 DEF Commits, Committed
  <2>3. ASSUME NEW t \in Tickets, t # tr
        PROVE  CommittedOn(t)' = CommittedOn(t) /\ row'[t].version = row[t].version
    BY <1>2, <2>3, <2>10 DEF Commits, CommittedOn
  <2>4. CommittedOn(tr)' = CommittedOn(tr) \cup {r} /\ row'[tr].version = n + 1
    BY <1>2, <2>10 DEF Commits, CommittedOn
  <2>5. {req[x].exp : x \in CommittedOn(tr)} = 0 .. n - 1
    BY <2>1 DEF EveryVersionHasOneWinner
  <2>6. {req'[x].exp : x \in CommittedOn(tr)'} = 0 .. (n + 1) - 1
    <3>1. {req'[x].exp : x \in CommittedOn(tr)'} = {req[x].exp : x \in CommittedOn(tr)} \cup {n}
      BY <2>1, <2>2, <2>4 DEF CommittedOn
    <3>2. (0 .. n - 1) \cup {n} = 0 .. (n + 1) - 1
      BY <2>1
    <3> QED BY <2>5, <3>1, <3>2
  <2>7. \A x \in CommittedOn(tr) : req[x].exp # n
    BY <2>1, <2>5
  <2>8. \A x, y \in CommittedOn(tr)' : req'[x].exp = req'[y].exp => x = y
    BY <2>1, <2>2, <2>4, <2>7 DEF EveryVersionHasOneWinner, CommittedOn
  <2>9. ASSUME NEW t \in Tickets
        PROVE  /\ {req'[x].exp : x \in CommittedOn(t)'} = 0 .. row'[t].version - 1
               /\ \A x, y \in CommittedOn(t)' : req'[x].exp = req'[y].exp => x = y
    <3>1. CASE t = tr
      BY <3>1, <2>4, <2>6, <2>8
    <3>2. CASE t # tr
      BY <3>2, <2>2, <2>3 DEF EveryVersionHasOneWinner, CommittedOn
    <3> QED BY <3>1, <3>2
  <2> QED BY <2>9 DEF EveryVersionHasOneWinner
<1> QED BY <1>1, <1>2

-----------------------------------------------------------------------------
(* Who waits at the UPDATE, and who has lost there. *)

(* x arrives at the UPDATE with the row it has just read. *)
Arrives(x) ==
  /\ UNCHANGED row
  /\ \E t \in Tickets : /\ req'[x].ticket = t
                         /\ req'[x].exp \in Expectable(x, t)
                         /\ req'[x].snap = Snapshot(t)

(* x comes out of the UPDATE having touched no row. *)
Loses(x) ==
  /\ req[x].pc = "update"
  /\ req[x].ticket \in Tickets
  /\ \/ req[x].exp \in 0 .. row[req[x].ticket].version - 1
     \/ x \in Guessing /\ row[req[x].ticket].version <= req[x].exp
  /\ req'[x].ticket = req[x].ticket
  /\ req'[x].exp = req[x].exp

WaitsOrLost(x) ==
  /\ req'[x].pc = "update" => req'[x] = req[x] \/ Arrives(x)
  /\ req'[x].out = "conflict" => req'[x] = req[x] \/ Loses(x)
  /\ \/ req'[x].op \notin {"assign", "state"}
     \/ Arrives(x)
     \/ /\ req'[x].op = req[x].op
        /\ req'[x].ticket = req[x].ticket
        /\ req'[x].snap = req[x].snap

LEMMA LoserIsBehind ==
  ASSUME TypeOK, RequestShape, SnapshotIsCurrent, NEW r \in Requests,
         req[r].pc = "update",
         \/ req[r].exp # row[req[r].ticket].version
         \/ row[req[r].ticket].status # req[r].snap.status
  PROVE  /\ req[r].ticket \in Tickets
         /\ \/ req[r].exp \in 0 .. row[req[r].ticket].version - 1
            \/ r \in Guessing /\ row[req[r].ticket].version <= req[r].exp
<1>1. WellShaped(req[r]) /\ req[r] \in Request
  BY DEF RequestShape, TypeOK, ServiceTypeOK
<1>2. req[r].ticket \in Tickets
  BY <1>1 DEF WellShaped
<1>3. req[r].exp \in Nat /\ row[req[r].ticket].version \in Nat
  BY <1>1, <1>2 DEF TypeOK, StoreTypeOK, Request, Ticket
<1>4. CASE r \notin Guessing
  <2>1. /\ req[r].exp <= row[req[r].ticket].version
        /\ req[r].exp = row[req[r].ticket].version
             => req[r].snap = Snapshot(req[r].ticket)
    BY <1>4 DEF SnapshotIsCurrent
  <2>2. req[r].exp # row[req[r].ticket].version
    BY <2>1 DEF Snapshot
  <2> QED BY <1>2, <1>3, <2>1, <2>2
<1>5. CASE r \in Guessing
  BY <1>2, <1>3, <1>5
<1> QED BY <1>4, <1>5

LEMMA RequestSteps ==
  ASSUME IInv, [Next]_vars, NEW x \in Requests
  PROVE  WaitsOrLost(x)
<1> USE DEF IInv, TypeOK
<1>1. ASSUME NEW r \in Requests, NEW q, req' = [req EXCEPT ![r] = q],
             /\ q.pc = "update" => q = req[r] \/ (x = r => Arrives(r))
             /\ q.out = "conflict" => q = req[r] \/ (x = r => Loses(r))
             /\ \/ q.op \notin {"assign", "state"}
                \/ x = r => Arrives(r)
                \/ /\ q.op = req[r].op /\ q.ticket = req[r].ticket
                   /\ q.snap = req[r].snap
      PROVE  WaitsOrLost(x)
  <2>1. req'[x] = IF x = r THEN q ELSE req[x]
    BY <1>1 DEF ServiceTypeOK
  <2> QED BY <1>1, <2>1 DEF WaitsOrLost
<1>2. ASSUME NEW r \in Requests,
             NEW code \in {"notFound", "badRequest", "forbidden", "unprocessable"},
             Answer(r, code)
      PROVE  WaitsOrLost(x)
  <2> DEFINE q == [Blank EXCEPT !.pc = "done", !.out = code]
  <2>1. q.pc = "done" /\ q.out # "conflict" /\ q.op = "none"
    BY DEF Blank
  <2>2. req' = [req EXCEPT ![r] = q]
    BY <1>2 DEF Answer
  <2> HIDE DEF q
  <2> QED BY <1>1, <2>1, <2>2
<1>3. ASSUME NEW r \in Requests, NEW pc, NEW op, NEW u, NEW t \in Tickets,
             NEW arg, NEW exp, Begin(r, pc, op, u, t, arg, exp),
             UNCHANGED row, pc = "update" \/ op = "comment",
             pc = "update" => exp \in Expectable(r, t)
      PROVE  WaitsOrLost(x)
  <2> DEFINE q == [pc |-> pc, alive |-> TRUE, op |-> op, actor |-> u,
                   ticket |-> t, arg |-> arg, exp |-> exp,
                   snap |-> Snapshot(t), out |-> "none"]
  <2>1. /\ q.pc = pc /\ q.out # "conflict" /\ q.ticket = t /\ q.exp = exp
        /\ q.snap = Snapshot(t) /\ q.op = op
    OBVIOUS
  <2>2. req' = [req EXCEPT ![r] = q]
    BY <1>3 DEF Begin
  <2> HIDE DEF q
  <2>3. req'[r] = q
    BY <2>2 DEF ServiceTypeOK
  <2>4. pc = "update" => Arrives(r)
    <3>1. ASSUME pc = "update"
          PROVE  req'[r].exp \in Expectable(r, t)
      BY <1>3, <2>1, <2>3, <3>1
    <3> QED BY <1>3, <2>1, <2>3, <3>1 DEF Arrives
  <2>5. /\ q.pc = "update" => Arrives(r)
        /\ q.op \notin {"assign", "state"} \/ Arrives(r)
    BY <1>3, <2>1, <2>4
  <2> HIDE DEF IInv, TypeOK
  <2> QED BY <1>1, <2>1, <2>2, <2>5
<1>4. ASSUME NEW r \in Requests,
             \/ \E u \in Staff, t \in Tickets, a \in Users \cup {NoUser} :
                  \E v \in Expectable(r, t) : AssignRead(r, u, t, a, v)
             \/ \E u \in Staff, t \in Tickets,
                   next \in {"en_progreso", "resuelto"}, complete \in BOOLEAN :
                  \E v \in Expectable(r, t) :
                    StateRead(r, u, t, next, complete, v)
             \/ \E u \in Users, t \in Tickets : CommentRead(r, u, t)
             \/ NotFound(r)
      PROVE  WaitsOrLost(x)
  <2>1. \A s, u, next, complete :
          StateVerdict(s, u, next, complete)
            \in {"badRequest", "forbidden", "unprocessable", "proceed"}
    BY DEF StateVerdict
  <2> QED BY <1>4, <1>2, <1>3, <2>1
             DEF AssignRead, StateRead, CommentRead, NotFound
<1>5. ASSUME NEW r \in Requests, AssignUpdate(r) \/ StateUpdate(r)
      PROVE  WaitsOrLost(x)
  <2>1. req[r].pc = "update" /\ req[r] \in Request
    BY <1>5 DEF AssignUpdate, StateUpdate, Running, ServiceTypeOK
  <2>2. req[r].out # "conflict"
    BY <2>1 DEF RequestShape, WellShaped
  <2>3. CASE GoTo(r, "event")
    <3> DEFINE q == [req[r] EXCEPT !.pc = "event"]
    <3>1. /\ q.pc = "event" /\ q.out = req[r].out
          /\ q.op = req[r].op /\ q.ticket = req[r].ticket
          /\ q.snap = req[r].snap
      BY <2>1 DEF Request
    <3>2. req' = [req EXCEPT ![r] = q]
      BY <2>3 DEF GoTo
    <3> HIDE DEF q
    <3> QED BY <1>1, <2>2, <3>1, <3>2
  <2>4. CASE /\ req' = [req EXCEPT ![r].pc = "done", ![r].out = "conflict"]
             /\ \/ req[r].exp # row[req[r].ticket].version
                \/ row[req[r].ticket].status # req[r].snap.status
    <3> DEFINE q == [req[r] EXCEPT !.pc = "done", !.out = "conflict"]
    <3>1. /\ q.pc = "done" /\ q.exp = req[r].exp
          /\ q.op = req[r].op /\ q.ticket = req[r].ticket
          /\ q.snap = req[r].snap
      BY <2>1 DEF Request
    <3>2. req' = [req EXCEPT ![r] = q]
      BY <2>4
    <3> HIDE DEF q
    <3>3. req'[r] = q
      BY <3>2 DEF ServiceTypeOK
    <3>4. Loses(r)
      BY <2>1, <2>4, <3>1, <3>3, LoserIsBehind DEF Loses
    <3> QED BY <1>1, <3>1, <3>2, <3>4
  <2> QED BY <1>5, <2>3, <2>4
             DEF AssignUpdate, StateUpdate, AssignMatches, StateMatches
<1>6. ASSUME NEW r \in Requests, req[r].pc \in {"event", "notify"},
             \/ GoTo(r, "notify")
             \/ req' = [req EXCEPT ![r].pc = "done", ![r].out = "ok"]
      PROVE  WaitsOrLost(x)
  <2>1. req[r].out = "none" /\ req[r] \in Request
    BY <1>6 DEF RequestShape, WellShaped, ServiceTypeOK
  <2>2. CASE GoTo(r, "notify")
    <3> DEFINE q == [req[r] EXCEPT !.pc = "notify"]
    <3>1. /\ q.pc = "notify" /\ q.out = "none"
          /\ q.op = req[r].op /\ q.ticket = req[r].ticket
          /\ q.snap = req[r].snap
      BY <2>1 DEF Request
    <3>2. req' = [req EXCEPT ![r] = q]
      BY <2>2 DEF GoTo
    <3> HIDE DEF q
    <3> QED BY <1>1, <3>1, <3>2
  <2>3. CASE req' = [req EXCEPT ![r].pc = "done", ![r].out = "ok"]
    <3> DEFINE q == [req[r] EXCEPT !.pc = "done", !.out = "ok"]
    <3>1. /\ q.pc = "done" /\ q.out = "ok"
          /\ q.op = req[r].op /\ q.ticket = req[r].ticket
          /\ q.snap = req[r].snap
      BY <2>1 DEF Request
    <3>2. req' = [req EXCEPT ![r] = q]
      BY <2>3
    <3> HIDE DEF q
    <3> QED BY <1>1, <3>1, <3>2
  <2> QED BY <1>6, <2>2, <2>3
<1>7. ASSUME NEW r \in Requests, Crash(r)
      PROVE  WaitsOrLost(x)
  <2> DEFINE q == IF req[r].pc = "update" THEN [Blank EXCEPT !.alive = FALSE]
                                          ELSE [req[r] EXCEPT !.alive = FALSE]
  <2>1. req[r].out = "none" /\ req[r] \in Request
    BY <1>7 DEF Crash, RequestShape, WellShaped, ServiceTypeOK
  <2>2. /\ q.pc # "update" /\ q.out = "none"
        /\ \/ q.op = "none"
           \/ /\ q.op = req[r].op /\ q.ticket = req[r].ticket
              /\ q.snap = req[r].snap
    BY <2>1 DEF Blank, Request
  <2>3. req' = [req EXCEPT ![r] = q]
    BY <1>7 DEF Crash
  <2> HIDE DEF q
  <2> QED BY <1>1, <2>2, <2>3
<1>8. CASE UNCHANGED req
  BY <1>8 DEF WaitsOrLost
<1> QED
  <2> HIDE DEF IInv, TypeOK
  <2>1. CASE Next
    BY <2>1, NextCases, <1>4, <1>5, <1>6, <1>7, <1>8
       DEF AssignEvent, StateEvent, CommentEvent, NotifyReporter, Running,
           serviceVars, Tick
  <2>2. CASE UNCHANGED vars
    BY <2>2, <1>8 DEF vars
  <2> QED BY <2>1, <2>2

(* A version that was won, or not yet reached, stays so. *)
Accounted(t, v) ==
  \/ \E w \in CommittedOn(t) : req[w].exp = v
  \/ row[t].version <= v

LEMMA AccountedStep ==
  ASSUME IInv, [Next]_vars, NEW t \in Tickets, NEW v \in Nat
  PROVE  /\ (\E w \in CommittedOn(t) : req[w].exp = v) =>
              \E w \in CommittedOn(t)' : req'[w].exp = v
         /\ Accounted(t, v) => Accounted(t, v)'
<1>1. row[t].version \in Nat
  BY DEF IInv, TypeOK, StoreTypeOK, Ticket
<1>2. \A w \in CommittedOn(t) : w \in CommittedOn(t)' /\ req'[w].exp = req[w].exp
  BY VersionSteps DEF SameCommits, Commits, CommittedOn, Committed
<1>3. CASE row'[t].version = row[t].version
  BY <1>2, <1>3 DEF Accounted
<1>4. ASSUME NEW r \in Requests, Commits(r), req[r].ticket = t
      PROVE  Accounted(t, v) => Accounted(t, v)'
  <2>1. row'[t].version = row[t].version + 1 /\ req'[r].exp = row[t].version
    BY <1>4 DEF Commits
  <2>2. r \in CommittedOn(t)'
    BY <1>4 DEF Commits, CommittedOn, Committed
  <2> QED BY <1>1, <1>2, <2>1, <2>2 DEF Accounted
<1> QED BY <1>2, <1>3, <1>4, VersionSteps DEF SameVersions, Commits

LEMMA ConflictStep ==
  ASSUME IInv, [Next]_vars
  PROVE  ConflictHasAWinner'
<1> SUFFICES ASSUME NEW r \in Requests, req'[r].out = "conflict"
             PROVE  \/ \E w \in CommittedOn(req[r].ticket)' : req'[w].exp = req'[r].exp
                    \/ r \in Guessing /\ (row[req[r].ticket].version <= req[r].exp)'
  BY DEF ConflictHasAWinner
<1>1. req'[r] = req[r] \/ Loses(r)
  BY RequestSteps DEF WaitsOrLost
<1>2. req'[r].ticket = req[r].ticket /\ req'[r].exp = req[r].exp
  BY <1>1 DEF Loses
<1>3. req[r].exp \in Nat
  BY DEF IInv, TypeOK, ServiceTypeOK, Request
<1>4. req[r].ticket \in Tickets
  BY <1>1 DEF Loses, IInv, RequestShape, WellShaped
<1> PICK t \in Tickets, v \in Nat : t = req[r].ticket /\ v = req[r].exp
  BY <1>3, <1>4
<1>5. \/ \E w \in CommittedOn(t) : req[w].exp = v
      \/ r \in Guessing /\ row[t].version <= v
  <2>1. CASE req'[r] = req[r]
    BY <1>2, <2>1 DEF IInv, ConflictHasAWinner
  <2>2. CASE Loses(r) /\ v \in 0 .. row[t].version - 1
    <3>1. {req[w].exp : w \in CommittedOn(t)} = 0 .. row[t].version - 1
      BY <1>4 DEF IInv, EveryVersionHasOneWinner
    <3> QED BY <2>2, <3>1
  <2> QED BY <1>1, <1>2, <2>1, <2>2 DEF Loses
<1>6. CASE \E w \in CommittedOn(t) : req[w].exp = v
  BY <1>2, <1>6, AccountedStep
<1>7. CASE r \in Guessing /\ row[t].version <= v
  BY <1>2, <1>7, AccountedStep DEF Accounted
<1> QED BY <1>5, <1>6, <1>7

-----------------------------------------------------------------------------
(* Who holds a ticket. *)

LEMMA HeldGrows ==
  ASSUME IInv, [Next]_vars, NEW t \in Tickets
  PROVE  /\ Held(t) \subseteq Held(t)'
         /\ row'[t].assignee \in Held(t)'
         /\ row'[t].assignee = NoUser => Held(t)' = {NoUser}
<1>1. \A w \in CommittedOn(t) : /\ w \in CommittedOn(t)'
                                /\ req'[w].op = req[w].op
                                /\ req'[w].arg = req[w].arg
  BY VersionSteps DEF SameCommits, Commits, CommittedOn, Committed
<1>2. Held(t) \subseteq Held(t)'
  BY <1>1 DEF Held
<1>3. /\ row[t].assignee \in Held(t)
      /\ row[t].assignee = NoUser => Held(t) = {NoUser}
  BY DEF IInv, AssigneesAreHeld
<1>4. CASE /\ row'[t].assignee = row[t].assignee
           /\ \A w \in CommittedOn(t)' : w \in CommittedOn(t) \/ req'[w].op # "assign"
  <2>1. Held(t)' \subseteq Held(t)
    BY <1>1, <1>4 DEF Held
  <2> QED BY <1>2, <1>3, <1>4, <2>1
<1>5. ASSUME NEW r \in Requests, Commits(r), req[r].ticket = t, req[r].op = "assign"
      PROVE  row'[t].assignee \in Held(t)' /\ row'[t].assignee # NoUser
  <2>1. row'[t].assignee = req'[r].arg /\ r \in CommittedOn(t)' /\ req'[r].op = "assign"
    BY <1>5 DEF Commits, CommittedOn, Committed
  <2>2. req[r].arg \in Staff
    BY <1>5 DEF IInv, RequestIsJudged, Judged
  <2>3. NoUser \notin Staff
    BY StoreAssumption DEF Users
  <2> QED BY <1>5, <2>1, <2>2, <2>3 DEF Held, Commits
<1>6. CASE SameVersions /\ SameCommits
  BY <1>4, <1>6, <1>2 DEF SameVersions, SameCommits, CommittedOn
<1>7. ASSUME NEW r \in Requests, Commits(r), req[r].ticket # t \/ req[r].op # "assign"
      PROVE  /\ row'[t].assignee = row[t].assignee
             /\ \A w \in CommittedOn(t)' : w \in CommittedOn(t) \/ req'[w].op # "assign"
  BY <1>7 DEF Commits, CommittedOn, Committed
<1> QED BY <1>2, <1>4, <1>5, <1>6, <1>7, VersionSteps

LEMMA HeldStep ==
  ASSUME IInv, [Next]_vars
  PROVE  AssigneesAreHeld'
<1>1. ASSUME NEW r \in Requests, req'[r].op \in {"assign", "state"}
      PROVE  req'[r].snap.assignee \in Held(req[r].ticket)'
  <2>1. CASE /\ req'[r].op = req[r].op
             /\ req'[r].ticket = req[r].ticket
             /\ req'[r].snap = req[r].snap
    <3>1. req[r].ticket \in Tickets
      BY <1>1, <2>1 DEF IInv, RequestShape, WellShaped
    <3> QED BY <1>1, <2>1, <3>1, HeldGrows DEF IInv, AssigneesAreHeld
  <2>2. CASE Arrives(r)
    <3>1. PICK t \in Tickets : req'[r].ticket = t /\ req'[r].snap = Snapshot(t)
      BY <2>2 DEF Arrives
    <3>2. req'[r].snap.assignee \in Held(t)
      BY <3>1 DEF Snapshot, IInv, AssigneesAreHeld
    <3> QED BY <3>1, <3>2, HeldGrows
  <2> QED BY <1>1, <2>1, <2>2, RequestSteps DEF WaitsOrLost
<1> QED BY <1>1, HeldGrows DEF AssigneesAreHeld

-----------------------------------------------------------------------------
(* What a step does to a row. *)

RowStep(t) ==
  \/ row'[t] = row[t]
  \/ \E a \in Staff : row'[t] = Assigned(row[t], a)
  \/ \E r \in Requests, next \in TicketStatus, u \in Users :
       /\ canTransition(row[t].status, next, u)
       /\ row'[t] = Moved(row[t], next, r)
  \/ \E l \in 0 .. MAX_LEVEL :
       /\ row[t].status # "resuelto"
       /\ row'[t] = [row[t] EXCEPT !.level = l]

LEMMA RowSteps ==
  ASSUME IInv, [Next]_vars, NEW t \in Tickets
  PROVE  RowStep(t)
<1> USE DEF IInv, TypeOK
<1>1. ASSUME UNCHANGED row  PROVE RowStep(t)
  BY <1>1 DEF RowStep
<1>2. ASSUME NEW r \in Requests, AssignUpdate(r)  PROVE RowStep(t)
  <2>1. req[r].ticket \in Tickets /\ req[r].arg \in Staff
    BY <1>2 DEF AssignUpdate, Running, RequestShape, WellShaped,
                RequestIsJudged, Judged
  <2>2. CASE row' = [row EXCEPT ![req[r].ticket] =
                        Assigned(row[req[r].ticket], req[r].arg)]
    BY <2>1, <2>2 DEF RowStep, StoreTypeOK
  <2> QED BY <1>1, <1>2, <2>2 DEF AssignUpdate
<1>3. ASSUME NEW r \in Requests, StateUpdate(r)  PROVE RowStep(t)
  <2>1. /\ req[r].ticket \in Tickets
        /\ canTransition(req[r].snap.status, req[r].arg, req[r].actor)
    BY <1>3 DEF StateUpdate, Running, RequestShape, WellShaped,
                RequestIsJudged, Judged
  <2>2. req[r].arg \in TicketStatus /\ req[r].actor \in Users
    BY <2>1 DEF canTransition, TicketStatus, Users, Staff
  <2>3. CASE /\ row[req[r].ticket].status = req[r].snap.status
             /\ row' = [row EXCEPT ![req[r].ticket] =
                           Moved(row[req[r].ticket], req[r].arg, r)]
    <3>1. row'[t] = IF t = req[r].ticket THEN Moved(row[t], req[r].arg, r)
                                         ELSE row[t]
      BY <2>1, <2>3 DEF StoreTypeOK
    <3> QED BY <2>1, <2>2, <2>3, <3>1 DEF RowStep
  <2> QED BY <1>1, <1>3, <2>3 DEF StateUpdate, StateMatches
<1>4. ASSUME NEW s \in Sweeps, NEW u \in Tickets, EscalateUpdate(s, u)
      PROVE  RowStep(t)
  <2>1. Target(s, u) \in 0 .. MAX_LEVEL
    BY TargetType
  <2>2. CASE /\ row[u].status # "resuelto"
             /\ row' = [row EXCEPT ![u].level = Target(s, u)]
    <3>1. row'[t] = IF t = u THEN [row[t] EXCEPT !.level = Target(s, u)]
                             ELSE row[t]
      BY <2>2 DEF StoreTypeOK
    <3> QED BY <2>1, <2>2, <3>1 DEF RowStep
  <2> QED BY <1>1, <1>4, <2>2 DEF EscalateUpdate, EscalateMatches
<1> QED
  <2> HIDE DEF IInv, TypeOK
  <2>1. CASE Next
    BY <2>1, RowChanges, <1>1, <1>2, <1>3, <1>4
  <2>2. CASE UNCHANGED vars
    BY <2>2, <1>1 DEF vars
  <2> QED BY <2>1, <2>2

LEMMA RowFields ==
  ASSUME IInv, [Next]_vars, NEW t \in Tickets
  PROVE  /\ row[t].version \in Nat
         /\ \/ Snapshot(t)' = Snapshot(t)
            \/ row'[t].version = row[t].version + 1
         /\ row[t].status = "resuelto" =>
              /\ row'[t].status = "resuelto"
              /\ row'[t].solution = row[t].solution
              /\ row'[t].level = row[t].level
<1>1. row[t] \in Ticket
  BY DEF IInv, TypeOK, StoreTypeOK
<1>2. RowStep(t)
  BY RowSteps
<1> DEFINE Good(y) ==
      /\ \/ /\ y.status = row[t].status
            /\ y.assignee = row[t].assignee
            /\ y.version = row[t].version
         \/ y.version = row[t].version + 1
      /\ row[t].status = "resuelto" =>
           /\ y.status = "resuelto"
           /\ y.solution = row[t].solution
           /\ y.level = row[t].level
<1>3. Good(row[t])
  OBVIOUS
<1>4. \A a \in Staff : Good(Assigned(row[t], a))
  BY <1>1 DEF Assigned, Ticket
<1>5. \A r \in Requests, next \in TicketStatus, u \in Users :
         canTransition(row[t].status, next, u) => Good(Moved(row[t], next, r))
  BY <1>1, StatusOfTransition DEF Moved, Ticket
<1>6. \A l \in 0 .. MAX_LEVEL :
         row[t].status # "resuelto" => Good([row[t] EXCEPT !.level = l])
  BY <1>1 DEF Ticket
<1>7. Good(row'[t])
  <2> HIDE DEF Good
  <2> QED BY <1>2, <1>3, <1>4, <1>5, <1>6 DEF RowStep
<1> QED BY <1>1, <1>7 DEF Snapshot, Ticket

LEMMA CurrentStep ==
  ASSUME IInv, [Next]_vars
  PROVE  SnapshotIsCurrent'
<1> SUFFICES ASSUME NEW r \in Requests \ Guessing, req'[r].pc = "update"
             PROVE  /\ req'[r].exp <= row'[req'[r].ticket].version
                    /\ req'[r].exp = row'[req'[r].ticket].version =>
                         req'[r].snap = Snapshot(req[r].ticket)'
  BY DEF SnapshotIsCurrent
<1>1. req'[r] = req[r] \/ Arrives(r)
  BY RequestSteps DEF WaitsOrLost
<1>2. CASE req'[r] = req[r]
  <2>1. /\ req[r].pc = "update" /\ req[r].exp \in Nat
        /\ req[r].ticket \in Tickets
    BY <1>2 DEF IInv, TypeOK, ServiceTypeOK, Request, RequestShape, WellShaped
  <2>2. /\ req[r].exp <= row[req[r].ticket].version
        /\ req[r].exp = row[req[r].ticket].version =>
             req[r].snap = Snapshot(req[r].ticket)
    BY <2>1 DEF IInv, SnapshotIsCurrent
  <2> PICK t \in Tickets : t = req[r].ticket
    BY <2>1
  <2>3. /\ row[t].version \in Nat
        /\ Snapshot(t)' = Snapshot(t) \/ row'[t].version = row[t].version + 1
    BY RowFields
  <2>4. Snapshot(t)' = Snapshot(t) => row'[t].version = row[t].version
    BY DEF Snapshot
  <2> QED BY <1>2, <2>1, <2>2, <2>3, <2>4 DEF Snapshot
<1>3. CASE Arrives(r)
  BY <1>3, RowFields DEF Arrives, Snapshot, Expectable
<1> QED BY <1>1, <1>2, <1>3

-----------------------------------------------------------------------------
(* The theorems. *)

LEMMA NextIInv ==
  ASSUME IInv, [Next]_vars
  PROVE  IInv'
<1>1. EveryVersionHasOneWinner'
  BY VersionSteps, WinnersStep DEF IInv
<1> QED BY <1>1, TypeStep, ShapeStep, CurrentStep, ConflictStep, HeldStep,
           SweepShapeStep
           DEF IInv

(***************************************************************************)
(* The inductive invariant holds in every reachable state.                 *)
(***************************************************************************)
THEOREM Invariance == Spec => []IInv
<1>1. Init => IInv
  BY InitIInv
<1>2. IInv /\ [Next]_vars => IInv'
  BY NextIInv
<1> QED BY <1>1, <1>2, PTL DEF Spec

(***************************************************************************)
(* Type correctness: every row, event, message and local variable of a     *)
(* handler stays in its domain, whatever the interleaving.                 *)
(***************************************************************************)
THEOREM TypeCorrect == Spec => []TypeOK
<1>1. IInv => TypeOK
  BY DEF IInv
<1> QED BY <1>1, Invariance, PTL

(***************************************************************************)
(* No lost update: the changes of a ticket and its versions correspond one *)
(* to one, for any number of concurrent assign and changeState requests,   *)
(* crashes and overlapping sweeps.                                         *)
(***************************************************************************)
THEOREM VersionsHaveOneWinner == Spec => []EveryVersionHasOneWinner
<1>1. IInv => EveryVersionHasOneWinner
  BY DEF IInv
<1> QED BY <1>1, Invariance, PTL

(***************************************************************************)
(* The compare-and-set on `version` is enough: when it succeeds, what the  *)
(* handler checked on the row it read still holds of the row it changes.   *)
(***************************************************************************)
THEOREM SnapshotsAreCurrent == Spec => []SnapshotIsCurrent
<1>1. IInv => SnapshotIsCurrent
  BY DEF IInv
<1> QED BY <1>1, Invariance, PTL

(***************************************************************************)
(* A 409 is never spurious: another request consumed the expected version, *)
(* and an escalation never causes one.                                     *)
(***************************************************************************)
THEOREM ConflictsHaveAWinner == Spec => []ConflictHasAWinner
<1>1. IInv => ConflictHasAWinner
  BY DEF IInv
<1> QED BY <1>1, Invariance, PTL

(***************************************************************************)
(* No interleaving of handlers and sweeps reopens a resolved ticket,       *)
(* rewrites its solution or escalates it.                                  *)
(***************************************************************************)
THEOREM ResolutionsAreFinal == Spec => ResolutionIsFinal
<1>1. IInv /\ [Next]_vars =>
        [\A t \in Tickets :
           row[t].status = "resuelto" =>
             /\ row'[t].status = "resuelto"
             /\ row'[t].solution = row[t].solution
             /\ row'[t].level = row[t].level]_vars
  BY RowFields
<1> QED BY <1>1, Invariance, PTL DEF Spec, ResolutionIsFinal
=============================================================================
