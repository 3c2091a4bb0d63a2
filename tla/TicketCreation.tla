--------------------------- MODULE TicketCreation ---------------------------
(***************************************************************************)
(* POST /v1/tickets with an Idempotency-Key and pre-uploaded attachments,  *)
(* POST /v1/attachments, and GET /v1/attachments/:id/download, as the      *)
(* database calls they make.  An invocation may stop at every await.       *)
(*                                                                         *)
(* The insertions of a creation run in one READ COMMITTED transaction.     *)
(* Others see nothing of it before its commit, but for what it holds: the  *)
(* entry of the unique index on idempotency_key, and the attachment rows   *)
(* it has updated.  Who needs either waits.                                *)
(***************************************************************************)
EXTENDS Integers

CONSTANTS
  Users,       \* whoever may create tickets: any authenticated user
  NoUser,      \* no user
  Staff,       \* the users whose role is agente or administrador
  Keys,        \* values of the Idempotency-Key header, but for the empty one
  EmptyKey,    \* the header is there and empty
  NoKey,       \* the header is absent
  KeyOf,       \* KeyOf[k]: the user whose client drew the UUID k
  Files,       \* ids of rows of attachments
  Creations,   \* invocations of create; the ticket one inserts has its id
  NoTicket,    \* null in attachments.ticket_id
  Downloads,   \* invocations of getDownload
  NoFile,      \* what an idle download asks for
  MaxTime      \* bound: the clock stops here

ASSUME CreationAssumption ==
  /\ Staff \subseteq Users
  /\ NoUser \notin Users
  /\ NoKey \notin Keys \cup {EmptyKey}
  /\ EmptyKey \notin Keys
  /\ KeyOf \in [Keys -> Users]
  /\ NoFile \notin Files
  /\ NoTicket \notin Creations
  /\ MaxTime \in Nat

VARIABLES
  now,         \* the clock, in periods of 24 hours
  ticket,      \* tickets: the committed rows, by the creation that made them
  att,         \* attachments: the committed rows
  handed,      \* the attachment ids that createUpload has returned
  history,     \* ticket_events, as a set
  cr,          \* the local variables of every create
  dl           \* the local variables of every getDownload

vars == <<now, ticket, att, handed, history, cr, dl>>

IDEMPOTENCY_WINDOW_MS == 1
PENDING_TTL_MS == 1

-----------------------------------------------------------------------------
(* The tables. *)

NoRow == [reporter |-> NoUser, key |-> NoKey, createdAt |-> 0]

Exists(t) == ticket[t].reporter # NoUser

(* The tickets in the table under idempotency key k. *)
WithKey(k) == {t \in Creations : Exists(t) /\ ticket[t].key = k}

NewAttachment ==
  [uploader |-> NoUser, ticketId |-> NoTicket, status |-> "absent",
   expiresAt |-> 0]

Uploaded(x) == att[x].status # "absent"

IdleCreation ==
  [pc |-> "idle", user |-> NoUser, key |-> NoKey, files |-> {}, left |-> {},
   taken |-> {}, createdAt |-> 0, code |-> 0, thrown |-> "none",
   ticket |-> NoTicket]

IdleDownload ==
  [pc |-> "idle", user |-> NoUser, file |-> NoFile, ticketId |-> NoTicket,
   uploader |-> NoUser, code |-> 0]

Init ==
  /\ now = 0
  /\ ticket = [t \in Creations |-> NoRow]
  /\ att = [x \in Files |-> NewAttachment]
  /\ handed = {}
  /\ history = {}
  /\ cr = [c \in Creations |-> IdleCreation]
  /\ dl = [d \in Downloads |-> IdleDownload]

Tick ==
  /\ now < MaxTime
  /\ now' = now + 1
  /\ UNCHANGED <<ticket, att, handed, history, cr, dl>>

-----------------------------------------------------------------------------
(* POST /v1/attachments *)

(* The row is inserted before the URL is signed: createUpload's first half. *)
UploadRow(x, u) ==
  /\ ~Uploaded(x)
  /\ att' = [att EXCEPT ![x] =
              [uploader |-> u, ticketId |-> NoTicket, status |-> "pending",
               expiresAt |-> now + PENDING_TTL_MS]]
  /\ UNCHANGED <<now, ticket, handed, history, cr, dl>>

(* presignPut succeeds and the id goes out.  If it does not happen, or the  *)
(* answer is lost, the row stays pending and nobody knows its id.           *)
UploadAnswer(x) ==
  /\ Uploaded(x) /\ x \notin handed
  /\ handed' = handed \cup {x}
  /\ UNCHANGED <<now, ticket, att, history, cr, dl>>

-----------------------------------------------------------------------------
(* POST /v1/tickets *)

At(c, pc) == cr[c].pc = pc

(* The creations whose transaction is open. *)
InTransaction(c) == At(c, "attach")

(* c answers with a status code and the ticket of its Location header. *)
Reply(c, code, t) ==
  cr' = [cr EXCEPT ![c].pc = "reply", ![c].code = code, ![c].ticket = t]

(* An error leaves the handler, and c answers 500.  What the transaction   *)
(* had done is rolled back.                                                *)
Throw(c, error) ==
  cr' = [cr EXCEPT ![c].pc = "reply", ![c].code = 500, ![c].thrown = error,
                   ![c].left = {}, ![c].taken = {}]

(* The header as the code tests it: an empty one is as good as none.       *)
Truthy(k) == k \in Keys

(* A request arrives.  A client sends the keys it drew, and ids it knows;   *)
(* any client may send the header empty.                                    *)
Receive(c, u, k, files) ==
  /\ At(c, "idle")
  /\ k \in Keys => KeyOf[k] = u
  /\ files \subseteq handed
  /\ cr' = [cr EXCEPT ![c] =
             [IdleCreation EXCEPT !.pc = IF Truthy(k) THEN "find" ELSE "insert",
                                  !.user = u, !.key = k, !.files = files]]
  /\ UNCHANGED <<now, ticket, att, handed, history, dl>>

(* findFirst with the filter on the key lost, as with an undefined value. *)
FindKeyAnyTicket(c) ==
  LET recent == {t \in Creations : Exists(t) /\
                   ticket[t].createdAt > now - IDEMPOTENCY_WINDOW_MS}
  IN /\ At(c, "find")
     /\ IF recent = {}
          THEN cr' = [cr EXCEPT ![c].pc = "insert"]
          ELSE \E t \in recent : Reply(c, 200, t)
     /\ UNCHANGED <<now, ticket, att, handed, history, dl>>

(* findFirst: a ticket with this key, not older than the window. *)
FindKey(c) ==
  LET recent == {t \in WithKey(cr[c].key) :
                   ticket[t].createdAt > now - IDEMPOTENCY_WINDOW_MS}
  IN /\ At(c, "find")
     /\ IF recent = {}
          THEN cr' = [cr EXCEPT ![c].pc = "insert"]
          ELSE \E t \in recent : Reply(c, 200, t)
     /\ UNCHANGED <<now, ticket, att, handed, history, dl>>

(* No unique index: only the findFirst stands between two tickets. *)
InsertUnindexed(c) ==
  /\ At(c, "insert")
  /\ cr' = [cr EXCEPT ![c].pc = "attach", ![c].left = cr[c].files,
                      ![c].createdAt = now]
  /\ UNCHANGED <<now, ticket, att, handed, history, dl>>

(***************************************************************************)
(* The priority and the SLA rule are read, the transaction begins, and the *)
(* INSERT needs the entry of its key, an empty one too: it waits for an    *)
(* open transaction that has it, and fails (P2002) if a committed ticket   *)
(* does.  The catch looks that one up, but not under an empty key.         *)
(***************************************************************************)
Insert(c) ==
  LET k == cr[c].key
  IN /\ At(c, "insert")
     /\ k = NoKey \/ \A o \in Creations : InTransaction(o) => cr[o].key # k
     /\ IF k # NoKey /\ WithKey(k) # {}
          THEN IF Truthy(k) THEN cr' = [cr EXCEPT ![c].pc = "lookup"]
                            ELSE Throw(c, "P2002")
          ELSE cr' = [cr EXCEPT ![c].pc = "attach", ![c].left = cr[c].files,
                                ![c].createdAt = now]
     /\ UNCHANGED <<now, ticket, att, handed, history, dl>>

(* The WHERE of the updateMany without its status and ticketId. *)
AttachMatchesTaken(c, x) ==
  att[x].uploader = cr[c].user /\ Uploaded(x)

(* The WHERE of the updateMany: the uploader's own, pending, on no ticket. *)
AttachMatches(c, x) ==
  /\ att[x].uploader = cr[c].user
  /\ att[x].status = "pending"
  /\ att[x].ticketId = NoTicket

(* Another open transaction has updated attachment x. *)
LockedFor(c, x) ==
  \E o \in Creations \ {c} : InTransaction(o) /\ x \in cr[o].taken

(* An updateMany that passes over the rows another transaction has updated. *)
AttachRowSkipLocked(c, x) ==
  /\ At(c, "attach")
  /\ x \in cr[c].left
  /\ cr' = [cr EXCEPT
              ![c].left = cr[c].left \ {x},
              ![c].taken = IF AttachMatches(c, x) /\ ~LockedFor(c, x)
                           THEN cr[c].taken \cup {x} ELSE cr[c].taken]
  /\ UNCHANGED <<now, ticket, att, handed, history, dl>>

(***************************************************************************)
(* The updateMany goes over the rows in an order of its own.  It passes    *)
(* over one that does not match, waits for one that another transaction    *)
(* has updated, and then judges it again.                                  *)
(***************************************************************************)
AttachRow(c, x) ==
  /\ At(c, "attach")
  /\ x \in cr[c].left
  /\ AttachMatches(c, x) => ~LockedFor(c, x)
  /\ cr' = [cr EXCEPT
              ![c].left = cr[c].left \ {x},
              ![c].taken = IF AttachMatches(c, x) THEN cr[c].taken \cup {x}
                                                  ELSE cr[c].taken]
  /\ UNCHANGED <<now, ticket, att, handed, history, dl>>

(* The row, its ticket_creado and its attachments become visible at once. *)
Commit(c) ==
  LET q == cr[c]
  IN /\ At(c, "attach")
     /\ q.left = {}
     /\ ticket' = [ticket EXCEPT ![c] =
                    [reporter |-> q.user, key |-> q.key,
                     createdAt |-> q.createdAt]]
     /\ att' = [x \in Files |->
                 IF x \in q.taken
                 THEN [att[x] EXCEPT !.ticketId = c, !.status = "attached",
                                     !.expiresAt = 0]
                 ELSE att[x]]
     /\ history' = history \cup {[kind |-> "ticket_creado", ticket |-> c,
                                  actor |-> q.user, file |-> NoFile]}
     /\ Reply(c, 201, c)
     /\ UNCHANGED <<now, handed, dl>>

(* The findFirst of the catch, if it kept the window of the first one. *)
LookupInWindow(c) ==
  LET recent == {t \in WithKey(cr[c].key) :
                   ticket[t].createdAt > now - IDEMPOTENCY_WINDOW_MS}
  IN /\ At(c, "lookup")
     /\ IF recent = {} THEN Throw(c, "P2002")
                       ELSE \E t \in recent : Reply(c, 200, t)
     /\ UNCHANGED <<now, ticket, att, handed, history, dl>>

(* A catch that tries the whole creation again. *)
LookupRetrying(c) ==
  /\ At(c, "lookup")
  /\ cr' = [cr EXCEPT ![c].pc = "insert"]
  /\ UNCHANGED <<now, ticket, att, handed, history, dl>>

(* After the P2002: findFirst by the key alone, or the error is rethrown. *)
Lookup(c) ==
  /\ At(c, "lookup")
  /\ IF WithKey(cr[c].key) = {}
       THEN Throw(c, "P2002")
       ELSE \E t \in WithKey(cr[c].key) : Reply(c, 200, t)
  /\ UNCHANGED <<now, ticket, att, handed, history, dl>>

(* The answer reaches the client. *)
Answer(c) ==
  /\ At(c, "reply")
  /\ cr' = [cr EXCEPT ![c].pc = "done"]
  /\ UNCHANGED <<now, ticket, att, handed, history, dl>>

(* A statement fails or the transaction times out, and is rolled back.     *)
TransactionFails(c) ==
  /\ InTransaction(c)
  /\ Throw(c, "other")
  /\ UNCHANGED <<now, ticket, att, handed, history, dl>>

(* A query outside the transaction fails, be it the one of the catch, or   *)
(* the transaction does not begin.                                         *)
QueryFails(c) ==
  /\ cr[c].pc \in {"find", "insert", "lookup"}
  /\ Throw(c, "other")
  /\ UNCHANGED <<now, ticket, att, handed, history, dl>>

(* The process or its connection dies, or the client stops waiting: no     *)
(* answer reaches it.  An open transaction is rolled back.                 *)
Crash(c) ==
  /\ cr[c].pc \notin {"idle", "done"}
  /\ cr' = [cr EXCEPT ![c].pc = "done", ![c].left = {}, ![c].code = 0,
                      ![c].thrown = "none",
                      ![c].taken = IF InTransaction(c) THEN {} ELSE @]
  /\ UNCHANGED <<now, ticket, att, handed, history, dl>>

(* c waits for a row that o has updated. *)
WaitsFor(c, o) ==
  /\ c # o
  /\ InTransaction(c) /\ InTransaction(o)
  /\ \E x \in cr[c].left \cap cr[o].taken : AttachMatches(c, x)

(* PostgreSQL ends a deadlock: one of those that wait in a cycle fails.    *)
BreakDeadlock(c) ==
  /\ \E S \in SUBSET Creations :
       c \in S /\ \A p \in S : \E o \in S : WaitsFor(p, o)
  /\ TransactionFails(c)

-----------------------------------------------------------------------------
(* GET /v1/attachments/:id/download *)

DownloadAt(d, pc) == dl[d].pc = pc

(* findUnique, then the 404 of an unknown id. *)
DownloadRead(d, u, x) ==
  /\ DownloadAt(d, "idle")
  /\ x \in handed
  /\ dl' = [dl EXCEPT ![d] =
             [pc |-> "access", user |-> u, file |-> x, code |-> 0,
              ticketId |-> att[x].ticketId, uploader |-> att[x].uploader]]
  /\ UNCHANGED <<now, ticket, att, handed, history, cr>>

(* assertCanAccess without the reporter of the ticket. *)
MayAccessAnyTicket(q) ==
  q.user \in Staff \/ q.ticketId # NoTicket \/ q.uploader = q.user

(* assertCanAccess: staff, the reporter of its ticket, or, while it has     *)
(* none, its uploader.                                                      *)
MayAccess(q) ==
  \/ q.user \in Staff
  \/ q.ticketId # NoTicket /\ ticket[q.ticketId].reporter = q.user
  \/ q.ticketId = NoTicket /\ q.uploader = q.user

(* assertCanAccess on what was read, then the URL is signed. *)
DownloadAccess(d) ==
  /\ DownloadAt(d, "access")
  /\ dl' = [dl EXCEPT
              ![d].pc = IF ~MayAccess(dl[d]) \/ dl[d].ticketId = NoTicket
                        THEN "done" ELSE "event",
              ![d].code = CASE ~MayAccess(dl[d]) -> 404
                            [] MayAccess(dl[d]) /\ dl[d].ticketId = NoTicket -> 200
                            [] OTHER -> 0]
  /\ UNCHANGED <<now, ticket, att, handed, history, cr>>

(* adjunto_descargado, then the URL is returned. *)
DownloadEvent(d) ==
  /\ DownloadAt(d, "event")
  /\ history' = history \cup {[kind |-> "adjunto_descargado",
                               ticket |-> dl[d].ticketId, actor |-> dl[d].user,
                               file |-> dl[d].file]}
  /\ dl' = [dl EXCEPT ![d].pc = "done", ![d].code = 200]
  /\ UNCHANGED <<now, ticket, att, handed, cr>>

(* presignGet or a database call fails, or the process dies. *)
DownloadFails(d) ==
  /\ dl[d].pc \in {"access", "event"}
  /\ dl' = [dl EXCEPT ![d].pc = "done", ![d].code = 500]
  /\ UNCHANGED <<now, ticket, att, handed, history, cr>>

-----------------------------------------------------------------------------
Create(c) ==
  \/ \E u \in Users, k \in Keys \cup {EmptyKey, NoKey}, files \in SUBSET Files :
       Receive(c, u, k, files)
  \/ FindKey(c)
  \/ Insert(c)
  \/ \E x \in Files : AttachRow(c, x)
  \/ Commit(c)
  \/ Lookup(c)
  \/ Answer(c)
  \/ TransactionFails(c)
  \/ QueryFails(c)
  \/ BreakDeadlock(c)
  \/ Crash(c)

Download(d) ==
  \/ \E u \in Users, x \in Files : DownloadRead(d, u, x)
  \/ DownloadAccess(d)
  \/ DownloadEvent(d)
  \/ DownloadFails(d)

Upload(x) ==
  \/ \E u \in Users : UploadRow(x, u)
  \/ UploadAnswer(x)

Next ==
  \/ Tick
  \/ \E x \in Files : Upload(x)
  \/ \E c \in Creations : Create(c)
  \/ \E d \in Downloads : Download(d)

Spec == Init /\ [][Next]_vars

(* What the handler and the database do by themselves once it has begun. *)
GoesOn(c) ==
  \/ FindKey(c)
  \/ Insert(c)
  \/ \E x \in Files : AttachRow(c, x)
  \/ Commit(c)
  \/ Lookup(c)
  \/ Answer(c)
  \/ BreakDeadlock(c)

FairSpec == Spec /\ \A c \in Creations : WF_vars(GoesOn(c))

-----------------------------------------------------------------------------
(* Properties *)

Codes == {0, 200, 201, 500}

DownloadCodes == {0, 200, 404, 500}

TicketRow ==
  [reporter : Users \cup {NoUser}, key : Keys \cup {EmptyKey, NoKey},
   createdAt : 0 .. MaxTime]

AttachmentRow ==
  {NewAttachment}
  \cup [uploader : Users, ticketId : {NoTicket}, status : {"pending"},
        expiresAt : PENDING_TTL_MS .. MaxTime + PENDING_TTL_MS]
  \cup [uploader : Users, ticketId : Creations, status : {"attached"},
        expiresAt : {0}]

Event ==
  [kind : {"ticket_creado", "adjunto_descargado"}, ticket : Creations,
   actor : Users, file : Files \cup {NoFile}]

CreationLocals ==
  [pc : {"idle", "find", "insert", "attach", "lookup", "reply", "done"},
   user : Users \cup {NoUser}, key : Keys \cup {EmptyKey, NoKey},
   files : SUBSET Files, left : SUBSET Files, taken : SUBSET Files,
   createdAt : 0 .. MaxTime, code : Codes,
   thrown : {"none", "P2002", "other"}, ticket : Creations \cup {NoTicket}]

DownloadLocals ==
  [pc : {"idle", "access", "event", "done"}, user : Users \cup {NoUser},
   file : Files \cup {NoFile}, ticketId : Creations \cup {NoTicket},
   uploader : Users \cup {NoUser}, code : DownloadCodes]

(* Every column and local variable has its type; an attachment row is one  *)
(* of the three the schema means: absent, pending with an expiry, attached *)
(* to a ticket without one.                                                *)
TypeOK ==
  /\ now \in 0 .. MaxTime
  /\ ticket \in [Creations -> TicketRow]
  /\ att \in [Files -> AttachmentRow]
  /\ handed \subseteq Files
  /\ history \subseteq Event
  /\ cr \in [Creations -> CreationLocals]
  /\ dl \in [Downloads -> DownloadLocals]

(* BL-014: an idempotency key names at most one ticket, however many       *)
(* requests carry it, at once or days apart, and whichever of them die.    *)
OneTicketPerKey ==
  \A t1, t2 \in Creations :
    Exists(t1) /\ Exists(t2) /\ ticket[t1].key = ticket[t2].key
      /\ ticket[t1].key # NoKey => t1 = t2

(* Whoever sends a key is told the ticket of that key, and the two who     *)
(* send the same key are told the same one: no retry is answered with      *)
(* somebody else's ticket.                                                 *)
AnswersNameTheKeysTicket ==
  \A c \in Creations :
    cr[c].code \in {200, 201} =>
      /\ Exists(cr[c].ticket)
      /\ ticket[cr[c].ticket].key = cr[c].key
      /\ ticket[cr[c].ticket].reporter = cr[c].user
      /\ (cr[c].code = 201) <=> (cr[c].ticket = c)

(* Who loses the race on the unique index, within the 24 hours or after    *)
(* them, is answered with the winner, or its own lookup fails.  The        *)
(* violation of the index itself leaves the handler for one reason only:   *)
(* the key was empty, and a ticket has it.                                 *)
LosersAreAnswered ==
  \A c \in Creations :
    cr[c].thrown = "P2002" => cr[c].key = EmptyKey /\ WithKey(EmptyKey) # {}

(* BL-015: an attachment goes to one ticket, for good, and only to a       *)
(* ticket of its uploader that asked for it.                               *)
AttachedForGood ==
  [][\A x \in Files :
       att'[x] # att[x] /\ Uploaded(x) =>
         /\ att[x].ticketId = NoTicket
         /\ LET t == att'[x].ticketId
            IN /\ ~Exists(t) /\ ticket'[t].reporter = att[x].uploader
               /\ x \in cr[t].files]_vars

(* BL-025: what assertCanAccess concludes from the row it read holds when  *)
(* the URL is returned, although a creation may attach the file meanwhile; *)
(* and what is recorded of a download is true.                             *)
DownloadsAreAllowed ==
  /\ \A d \in Downloads :
       dl[d].code = 200 =>
         \/ dl[d].user \in Staff
         \/ IF att[dl[d].file].ticketId = NoTicket
            THEN att[dl[d].file].uploader = dl[d].user
            ELSE ticket[att[dl[d].file].ticketId].reporter = dl[d].user
  /\ \A e \in history :
       e.kind = "adjunto_descargado" =>
         /\ att[e.file].ticketId = e.ticket
         /\ e.actor \in Staff \/ ticket[e.ticket].reporter = e.actor

(* A creation always ends, although it may wait for another one's key or   *)
(* attachments: no wait is for ever.                                       *)
CreationEnds ==
  \A c \in Creations : ~At(c, "idle") ~> At(c, "done")

-----------------------------------------------------------------------------
(* The abstract specification, and what it sees of this one. *)

Told(c) == At(c, "done") /\ cr[c].code # 0

Ledger == INSTANCE CreationLedger WITH
  Keys <- Keys \cup {EmptyKey},
  made <- [t \in Creations |-> [reporter |-> ticket[t].reporter,
                                key |-> ticket[t].key]],
  owner <- [x \in Files |-> [uploader |-> att[x].uploader,
                             ticket |-> att[x].ticketId]],
  asked <- [c \in Creations |-> [user |-> cr[c].user, key |-> cr[c].key,
                                 files |-> cr[c].files]],
  told <- [c \in Creations |->
            [code |-> IF Told(c) THEN cr[c].code ELSE 0,
             ticket |-> IF Told(c) THEN cr[c].ticket ELSE NoTicket]]

(* The calls of create, its transaction, its races and its retries are as  *)
(* good as one atomic step that makes the ticket and takes every           *)
(* attachment asked for that is its uploader's and still free, or none.    *)
ImplementsLedger == Ledger!Spec

-----------------------------------------------------------------------------
(* What a comment says that the code does not do. *)

(* tickets.service.ts:160: an expired id is ignored when the ticket takes  *)
(* its attachments.                                                        *)
ExpiredAreIgnored ==
  [][\A c \in Creations, x \in Files :
       x \in cr'[c].taken \ cr[c].taken => now < att[x].expiresAt]_vars
=============================================================================
