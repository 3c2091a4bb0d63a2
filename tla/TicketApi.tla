----------------------------- MODULE TicketApi -----------------------------
(***************************************************************************)
(* The tickets as the pages of the web client meet them: rows behind an    *)
(* API that answers a call with what the rows are at one instant, in       *)
(* pages of a limited length.  A change is atomic here: TicketSystem is    *)
(* shown to decide its calls and to change its rows just so (TicketView).   *)
(* The row that an answer carries is read by a step of its own.            *)
(*                                                                         *)
(* A ticket is a number, its place in the queue: priority, created_at and  *)
(* id never change once it is made.  A ticket that is made while a page is *)
(* open takes the place of its priority, before others or after them.      *)
(***************************************************************************)
EXTENDS Integers, Sequences, FiniteSets, SequencesExt

CONSTANTS
  Tickets,      \* the tickets: positive numbers, in the order of the queue
  Own,          \* those the user of the browser reported
  TextMatches,  \* those whose title or description holds the searched text
  Overdue,      \* those whose slaDueAt is past
  Me, Other,    \* the user of the browser, another agent
  NoUser,       \* null in assignee_id
  NoTicket,     \* null, where a page may hold a ticket
  Roles,        \* the roles the user of the browser may have
  StartRows,    \* what the tickets may be when the browser is opened
  StartMade,    \* which of them may have been made by then
  MaxChanges,   \* bound: changes by others, and clicks of Me after them
  MaxFaults     \* bound: calls that fail

TicketStatus == {"abierto", "en_progreso", "resuelto"}

MAX_LEVEL == 2

Ticket ==
  [version : Nat, status : TicketStatus,
   assignee : {Me, Other, NoUser}, level : 0 .. MAX_LEVEL]

ASSUME ApiAssumption ==
  /\ Tickets \subseteq Nat \ {0} /\ IsFiniteSet(Tickets)
  /\ Me # Other /\ NoUser \notin {Me, Other}
  /\ Own \subseteq Tickets /\ NoTicket \notin Tickets
  /\ Roles \subseteq {"reportante", "agente", "administrador"}
  /\ StartRows \subseteq [Tickets -> Ticket]
  /\ StartMade \subseteq SUBSET Tickets
  /\ MaxChanges \in Nat /\ MaxFaults \in Nat

(* version counts from 0 when the page is opened: it is only compared. *)
VARIABLES
  row,       \* tickets: one row per ticket, made or as it will be made
  made,      \* those that have been made
  role,      \* the role of Me
  changes,   \* changes so far
  faults     \* calls that have failed

apiVars == <<row, made, role, changes, faults>>

(* A row as an answer carries it. *)
Row(t) == [id |-> t, version |-> row[t].version, status |-> row[t].status,
           assignee |-> row[t].assignee, level |-> row[t].level]

Rows ==
  [id : Tickets, version : Nat, status : TicketStatus,
   assignee : {Me, Other, NoUser}, level : 0 .. MAX_LEVEL]

(* What create inserts. *)
NewTicket ==
  [version |-> 0, status |-> "abierto", assignee |-> NoUser, level |-> 0]

ApiInit ==
  /\ row \in StartRows
  /\ made \in StartMade
  /\ \A t \in Tickets \ made : row[t] = NewTicket
  /\ role \in Roles
  /\ changes = 0
  /\ faults = 0

Fault == faults < MaxFaults /\ faults' = faults + 1

-----------------------------------------------------------------------------
(* Lists *)

NoCursor == 0

Least(S) == CHOOSE t \in S : \A u \in S : t <= u

(***************************************************************************)
(* cursor and skip 1, as Prisma has them: the rows from the place of the   *)
(* cursor on, without the first, which is the cursor unless it has left S. *)
(***************************************************************************)
After(S, cursor) ==
  LET from == {t \in S : cursor <= t}
  IN IF cursor = NoCursor THEN S
     ELSE IF from = {} THEN {} ELSE from \ {Least(from)}

(* The first `limit` of S, in the order of the queue. *)
Take(S, limit) ==
  {t \in S : Cardinality({u \in S : u < t}) < limit}

Increasing(ids) == \A i, j \in DOMAIN ids : i < j => ids[i] < ids[j]

Ordered(S) == CHOOSE ids \in [1 .. Cardinality(S) -> S] : Increasing(ids)

(* A page of the tickets in S. *)
Page(S, cursor, limit) ==
  LET ids == Ordered(Take(After(S, cursor), limit))
  IN [items |-> [i \in DOMAIN ids |-> Row(ids[i])],
      nextCursor |-> IF Len(ids) = limit THEN ids[Len(ids)] ELSE NoCursor]

(* A reportante lists tickets of their own, whatever they ask for. *)
Visible == IF role = "reportante" THEN Own \cap made ELSE made

WithStatus(status) == {t \in Visible : row[t].status = status}

-----------------------------------------------------------------------------
(* Changes *)

Staff == {"agente", "administrador"}

(* UPDATE ... WHERE version = expected, and the version goes up by one. *)
Changed(t, status, assignee) ==
  row' = [row EXCEPT ![t].status = status, ![t].assignee = assignee,
                     ![t].version = @ + 1]

MayChange == changes < MaxChanges

(* What canTransition lets the role of Me do. *)
Moves ==
  {<<"abierto", "en_progreso">>, <<"en_progreso", "resuelto">>}
    \cup (IF role = "administrador" THEN {<<"abierto", "resuelto">>} ELSE {})

(* The codes with which the API may refuse to hand t to Me. *)
AssignRefusals(t, expected) ==
  IF role \notin Staff THEN {403}
  ELSE IF row[t].version # expected THEN {409} ELSE {}

(***************************************************************************)
(* Those with which it may refuse to move t to `next` for Me.  403 and 422 *)
(* judge the row as it was read, 409 comes from the UPDATE: who was the    *)
(* assignee at the read is answered 409 although another is by then.       *)
(***************************************************************************)
MoveRefusals(t, next, expected) ==
  LET mine == role = "administrador" \/ (role = "agente" /\ row[t].assignee = Me)
      legal == /\ next = "en_progreso" => row[t].assignee # NoUser
               /\ <<row[t].status, next>> \in Moves
  IN {code \in {403, 409, 422} :
        /\ code = 403 => ~mine
        /\ code = 409 => role \in Staff /\ row[t].version # expected
        /\ code = 422 => mine /\ ~legal}

(* What decides the answer to a change happens at one instant. *)
Decided(t, refusals, status, assignee, code) ==
  \/ code = 200 /\ refusals = {} /\ Changed(t, status, assignee)
  \/ code \in refusals /\ UNCHANGED row

AssignDecided(t, expected, code) ==
  Decided(t, AssignRefusals(t, expected), row[t].status, Me, code)

MoveDecided(t, next, expected, code) ==
  Decided(t, MoveRefusals(t, next, expected), next, row[t].assignee, code)

(***************************************************************************)
(* A change is served: made, refused, or failed, and then it may have been *)
(* made all the same.  code is what the answer says.                       *)
(***************************************************************************)
ServeChange(t, refusals, status, assignee, code) ==
  /\ \/ Decided(t, refusals, status, assignee, code) /\ UNCHANGED faults
     \/ /\ code = 500 /\ Fault
        /\ Decided(t, refusals, status, assignee, 200) \/ UNCHANGED row
  /\ changes' = IF row' = row THEN changes ELSE changes + 1
  /\ UNCHANGED <<made, role>>

ServeAssign(t, expected, code) ==
  ServeChange(t, AssignRefusals(t, expected), row[t].status, Me, code)

ServeMove(t, next, expected, code) ==
  ServeChange(t, MoveRefusals(t, next, expected), next, row[t].assignee, code)

Codes == {200, 403, 409, 422, 500}

(* Anybody, Me in another window as well, hands t over or moves it. *)
SomeChange(t) ==
  \/ \E a \in {Me, Other} : Changed(t, row[t].status, a)
  \/ /\ row[t].status = "abierto" /\ row[t].assignee # NoUser
     /\ Changed(t, "en_progreso", row[t].assignee)
  \/ /\ row[t].status # "resuelto"
     /\ Changed(t, "resuelto", row[t].assignee)

OtherChange(t) ==
  /\ MayChange
  /\ SomeChange(t)
  /\ changes' = changes + 1
  /\ UNCHANGED <<made, role, faults>>

(* The worker raises a ticket, and leaves its version alone. *)
Raised(t) ==
  /\ row[t].status # "resuelto" /\ row[t].level < MAX_LEVEL
  /\ \E level \in row[t].level + 1 .. MAX_LEVEL :
       row' = [row EXCEPT ![t].level = level]

Raise(t) ==
  t \in Overdue /\ Raised(t) /\ UNCHANGED <<made, role, changes, faults>>

(* Somebody reports t, which has its place in every list from then on. *)
Create(t) ==
  /\ made' = made \cup {t}
  /\ UNCHANGED <<row, role, changes, faults>>

Elsewhere ==
  \/ \E t \in made : OtherChange(t) \/ Raise(t)
  \/ \E t \in Tickets \ made : Create(t)
=============================================================================
