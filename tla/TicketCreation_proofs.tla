----------------------- MODULE TicketCreation_proofs -----------------------
(***************************************************************************)
(* Proofs about TicketCreation, for any users, keys, attachments and       *)
(* concurrent creations: its invariants, and that it implements            *)
(* CreationLedger.  A creation, with its reads before the transaction, its *)
(* locks, its races on the unique index and its crashes, makes a ticket as *)
(* one atomic step would.                                                  *)
(***************************************************************************)
EXTENDS TicketCreation, TLAPS

Unmade == {"idle", "find", "insert", "attach", "lookup"}

(* A request that is under way came from a user, with a key of that user. *)
Asked ==
  \A c \in Creations :
    cr[c].pc # "idle" =>
      /\ cr[c].user \in Users
      /\ cr[c].key \in Keys => KeyOf[cr[c].key] = cr[c].user

(* A creation has a row only once its transaction has committed. *)
MadeByCommit == \A c \in Creations : cr[c].pc \in Unmade => ~Exists(c)

(* The reporter of a ticket is the owner of its key. *)
KeysOfReporters ==
  \A t \in Creations :
    Exists(t) /\ ticket[t].key \in Keys => KeyOf[ticket[t].key] = ticket[t].reporter

(* An open transaction holds its key: no ticket and no other one has it. *)
KeyIsHeld ==
  \A c \in Creations :
    InTransaction(c) /\ cr[c].key # NoKey =>
      /\ \A t \in Creations : Exists(t) => ticket[t].key # cr[c].key
      /\ \A o \in Creations :
           InTransaction(o) /\ cr[o].key = cr[c].key => o = c

(* Who lost on the unique index lost to a ticket. *)
LoserHasWinner ==
  \A c \in Creations :
    cr[c].pc = "lookup" =>
      \E t \in Creations : Exists(t) /\ ticket[t].key = cr[c].key

(* An open transaction holds the attachments it took: asked for, its       *)
(* user's own, on no ticket, and taken by no other one.                    *)
TakenIsHeld ==
  \A c \in Creations : \A x \in cr[c].taken :
    InTransaction(c) =>
      /\ AttachMatches(c, x)
      /\ x \in cr[c].files
      /\ \A o \in Creations : InTransaction(o) /\ x \in cr[o].taken => o = c

(* The findFirst calls are made only with a key. *)
HasKey ==
  \A c \in Creations : cr[c].pc \in {"find", "lookup"} => cr[c].key \in Keys

(* Nothing is taken before the transaction. *)
NothingTaken ==
  \A c \in Creations :
    cr[c].pc \in {"idle", "find", "insert", "lookup"} => cr[c].taken = {}

(* What is left to attach was asked for. *)
LeftIsAsked == \A c \in Creations : cr[c].left \subseteq cr[c].files

(* A client is told a ticket, not the null id, and nothing before the end. *)
ToldAreTickets ==
  \A c \in Creations :
    /\ cr[c].code \in {200, 201} => cr[c].ticket \in Creations
    /\ cr[c].pc \in Unmade => cr[c].code = 0

Locals ==
  /\ ToldAreTickets
  /\ LeftIsAsked
  /\ NothingTaken
  /\ HasKey
  /\ Asked
  /\ MadeByCommit
  /\ KeyIsHeld
  /\ LoserHasWinner
  /\ TakenIsHeld
  /\ AnswersNameTheKeysTicket

(* What a download read of its attachment holds still, but that one on no  *)
(* ticket may have been attached since.  It goes on only if it may.        *)
DownloadShape ==
  \A d \in Downloads :
    IF dl[d].pc = "idle" THEN dl[d].code = 0 ELSE
      /\ dl[d].user \in Users
      /\ dl[d].file \in Files
      /\ Uploaded(dl[d].file)
      /\ dl[d].uploader = att[dl[d].file].uploader
      /\ dl[d].ticketId # NoTicket => att[dl[d].file].ticketId = dl[d].ticketId
      /\ dl[d].pc = "event" => dl[d].ticketId # NoTicket /\ MayAccess(dl[d])
      /\ dl[d].code = 200 => MayAccess(dl[d])

(* A client knows only ids of rows there are. *)
HandedAreUploaded == \A x \in handed : Uploaded(x)

(* An attachment is on a ticket of its uploader. *)
AttachedByUploader ==
  \A x \in Files :
    att[x].ticketId # NoTicket =>
      /\ att[x].ticketId \in Creations
      /\ Exists(att[x].ticketId)
      /\ ticket[att[x].ticketId].reporter = att[x].uploader

(* A recorded download is of a file on a ticket that its actor may read. *)
RecordedDownloads ==
  \A e \in history :
    e.kind = "adjunto_descargado" =>
      /\ e.file \in Files
      /\ att[e.file].ticketId = e.ticket
      /\ e.actor \in Staff \/ ticket[e.ticket].reporter = e.actor

IInv ==
  /\ TypeOK
  /\ Locals
  /\ DownloadShape
  /\ HandedAreUploaded
  /\ AttachedByUploader
  /\ RecordedDownloads
  /\ KeysOfReporters
  /\ OneTicketPerKey

-----------------------------------------------------------------------------
LEMMA InitIInv ==
  ASSUME Init
  PROVE  IInv
<1> USE CreationAssumption DEF Init
<1>1. TypeOK
  BY DEF TypeOK, TicketRow, NoRow, AttachmentRow, NewAttachment, Event,
         CreationLocals, IdleCreation, DownloadLocals, IdleDownload, Codes,
         DownloadCodes
<1>2. /\ \A t \in Creations : ~Exists(t) /\ cr[t] = IdleCreation
      /\ \A d \in Downloads : dl[d] = IdleDownload
      /\ \A x \in Files : att[x] = NewAttachment
  BY DEF Exists, NoRow
<1> QED
  BY <1>1, <1>2
     DEF IInv, DownloadShape, AttachedByUploader, RecordedDownloads,
         HandedAreUploaded, IdleDownload, NewAttachment, Locals, ToldAreTickets, LeftIsAsked, NothingTaken, HasKey, Asked, MadeByCommit,
         KeysOfReporters, KeyIsHeld, LoserHasWinner, TakenIsHeld, OneTicketPerKey,
         AnswersNameTheKeysTicket, IdleCreation, InTransaction, At

-----------------------------------------------------------------------------
(***************************************************************************)
(* The steps of a creation, as what they do to the local variables of c.   *)
(* Only Commit changes a table.                                            *)
(***************************************************************************)

(* c goes to pc and keeps what it asked for; the other creations stay. *)
Goes(c, pc, left, taken, code, t) ==
  /\ \A o \in Creations \ {c} : cr'[o] = cr[o]
  /\ cr'[c].pc = pc
  /\ cr'[c].user = cr[c].user
  /\ cr'[c].key = cr[c].key
  /\ cr'[c].files = cr[c].files
  /\ cr'[c].left = left
  /\ cr'[c].taken = taken
  /\ cr'[c].code = code
  /\ cr'[c].ticket = t

LEMMA ReplyGoes ==
  ASSUME TypeOK, NEW c \in Creations, NEW code, NEW t, Reply(c, code, t)
  PROVE  Goes(c, "reply", cr[c].left, cr[c].taken, code, t)
BY DEF TypeOK, CreationLocals, Goes, Reply

LEMMA PcGoes ==
  ASSUME TypeOK, NEW c \in Creations, NEW pc, cr' = [cr EXCEPT ![c].pc = pc]
  PROVE  Goes(c, pc, cr[c].left, cr[c].taken, cr[c].code, cr[c].ticket)
BY DEF TypeOK, CreationLocals, Goes

LEMMA BeginGoes ==
  ASSUME TypeOK, NEW c \in Creations,
         cr' = [cr EXCEPT ![c].pc = "attach", ![c].left = cr[c].files,
                          ![c].createdAt = now]
  PROVE  Goes(c, "attach", cr[c].files, cr[c].taken, cr[c].code, cr[c].ticket)
BY DEF TypeOK, CreationLocals, Goes

LEMMA AttachGoes ==
  ASSUME TypeOK, NEW c \in Creations, NEW x, AttachRow(c, x)
  PROVE  Goes(c, "attach", cr[c].left \ {x},
              IF AttachMatches(c, x) THEN cr[c].taken \cup {x}
                                     ELSE cr[c].taken,
              cr[c].code, cr[c].ticket)
BY DEF TypeOK, CreationLocals, Goes, AttachRow, At

LEMMA ThrowGoes ==
  ASSUME TypeOK, NEW c \in Creations, NEW error, Throw(c, error)
  PROVE  Goes(c, "reply", {}, {}, 500, cr[c].ticket)
BY DEF TypeOK, CreationLocals, Goes, Throw

LEMMA CrashGoes ==
  ASSUME TypeOK, NEW c \in Creations, Crash(c)
  PROVE  Goes(c, "done", {}, IF InTransaction(c) THEN {} ELSE cr[c].taken, 0,
              cr[c].ticket)
BY DEF TypeOK, CreationLocals, Goes, Crash

(* Of the steps of a creation, only the commit changes what others see. *)
LEMMA OnlyCommit ==
  ASSUME NEW c \in Creations, Create(c), ~Commit(c)
  PROVE  UNCHANGED <<now, ticket, att, handed, history, dl>>
BY DEF Create, Receive, FindKey, Insert, AttachRow, Lookup, Answer,
       TransactionFails, QueryFails, BreakDeadlock, Crash

(***************************************************************************)
(* A request in the part of create that is run only with a key, and a      *)
(* ticket under that key, are of one user.                                 *)
(***************************************************************************)
LEMMA KeyedRequest ==
  ASSUME IInv, NEW c \in Creations, cr[c].pc \in {"find", "lookup"},
         NEW t \in Creations, Exists(t), ticket[t].key = cr[c].key
  PROVE  ticket[t].reporter = cr[c].user
BY DEF IInv, Locals, Asked, KeysOfReporters, HasKey

(***************************************************************************)
(* A step of c that leaves the tables alone preserves what is said of the  *)
(* local variables, if c's own new ones satisfy it.                        *)
(***************************************************************************)
LEMMA QuietStep ==
  ASSUME Locals, NEW c \in Creations,
         NEW pc, NEW left, NEW taken, NEW code, NEW t,
         Goes(c, pc, left, taken, code, t), UNCHANGED <<ticket, att>>,
         cr[c].pc # "idle",
         left \subseteq cr[c].files,
         pc \in {"find", "lookup"} => cr[c].key \in Keys,
         pc \in Unmade => cr[c].pc \in Unmade /\ code = cr[c].code,
         pc \in {"idle", "find", "insert", "lookup"} => taken = {},
         pc = "attach" =>
           \/ InTransaction(c)
           \/ cr[c].key = NoKey
           \/ /\ \A o \in Creations : InTransaction(o) => cr[o].key # cr[c].key
              /\ \A o \in Creations : Exists(o) => ticket[o].key # cr[c].key,
         pc = "lookup" =>
           \E o \in Creations : Exists(o) /\ ticket[o].key = cr[c].key,
         pc = "attach" =>
           \A x \in taken :
             /\ AttachMatches(c, x)
             /\ x \in cr[c].files
             /\ \A o \in Creations \ {c} :
                  InTransaction(o) => x \notin cr[o].taken,
         \/ code \notin {200, 201}
         \/ code = cr[c].code /\ t = cr[c].ticket
         \/ /\ code = 200 /\ t \in Creations /\ t # c /\ Exists(t)
            /\ ticket[t].key = cr[c].key /\ ticket[t].reporter = cr[c].user
  PROVE  Locals'
<1> USE DEF Goes, At
<1>1. NothingTaken'
  BY DEF Locals, NothingTaken
<1>9. LeftIsAsked' /\ ToldAreTickets'
  BY DEF Locals, LeftIsAsked, ToldAreTickets
<1>8. HasKey'
  BY DEF Locals, HasKey
<1>2. Asked'
  BY DEF Locals, Asked
<1>3. MadeByCommit'
  BY DEF Locals, MadeByCommit, Exists
<1>4. KeyIsHeld'
  BY DEF Locals, KeyIsHeld, Exists, InTransaction
<1>5. LoserHasWinner'
  BY DEF Locals, LoserHasWinner, Exists
<1>6. TakenIsHeld'
  BY DEF Locals, TakenIsHeld, InTransaction, AttachMatches
<1>7. AnswersNameTheKeysTicket'
  BY DEF Locals, AnswersNameTheKeysTicket, Exists
<1> QED BY <1>1, <1>2, <1>3, <1>4, <1>5, <1>6, <1>7, <1>8, <1>9 DEF Locals

LEMMA LeftAsked ==
  ASSUME IInv, NEW c \in Creations
  PROVE  cr[c].left \subseteq cr[c].files
BY DEF IInv, Locals, LeftIsAsked

(* An error before the ticket is made. *)
Fails(c) ==
  /\ cr[c].pc \in Unmade /\ cr[c].pc # "idle"
  /\ \E error \in {"P2002", "other"} : Throw(c, error)
  /\ UNCHANGED <<now, ticket, att, handed, history, dl>>

LEMMA Failures ==
  ASSUME NEW c \in Creations, TransactionFails(c) \/ QueryFails(c)
  PROVE  Fails(c)
BY DEF TransactionFails, QueryFails, Fails, InTransaction, At, Unmade

LEMMA FailStep ==
  ASSUME IInv, NEW c \in Creations, Fails(c)
  PROVE  Locals'
<1>1. Goes(c, "reply", {}, {}, 500, cr[c].ticket)
  BY ThrowGoes DEF Fails, IInv
<1>2. cr[c].pc # "idle" /\ UNCHANGED <<ticket, att>>
  BY DEF Fails
<1> QED BY <1>1, <1>2, QuietStep DEF IInv, Unmade

LEMMA FindKeyStep ==
  ASSUME IInv, NEW c \in Creations, FindKey(c)
  PROVE  Locals'
<1>1. cr[c].pc = "find" /\ cr[c].taken = {} /\ UNCHANGED <<ticket, att>>
  BY DEF FindKey, At, IInv, Locals, NothingTaken
<1>2. CASE cr' = [cr EXCEPT ![c].pc = "insert"]
  <2>1. Goes(c, "insert", cr[c].left, cr[c].taken, cr[c].code, cr[c].ticket)
    BY <1>2, PcGoes DEF IInv
  <2> QED BY <1>1, <2>1, LeftAsked, QuietStep DEF IInv, Unmade
<1>3. ASSUME NEW t \in WithKey(cr[c].key), Reply(c, 200, t)
      PROVE  Locals'
  <2>1. Goes(c, "reply", cr[c].left, cr[c].taken, 200, t)
    BY <1>3, ReplyGoes DEF IInv
  <2>2. t \in Creations /\ Exists(t) /\ ticket[t].key = cr[c].key
    BY <1>3 DEF WithKey
  <2>3. t # c
    BY <1>1, <2>2 DEF IInv, Locals, MadeByCommit, Unmade
  <2>4. ticket[t].reporter = cr[c].user
    BY <1>1, <2>2, KeyedRequest
  <2> QED BY <1>1, <2>1, <2>2, <2>3, <2>4, LeftAsked, QuietStep DEF IInv, Unmade
<1> QED BY <1>1, <1>2, <1>3 DEF FindKey

LEMMA InsertStep ==
  ASSUME IInv, NEW c \in Creations, Insert(c)
  PROVE  Locals'
<1>1. /\ cr[c].pc = "insert" /\ cr[c].taken = {} /\ UNCHANGED <<ticket, att>>
      /\ cr[c].key \in Keys \cup {EmptyKey, NoKey}
  BY DEF Insert, At, IInv, Locals, NothingTaken, TypeOK, CreationLocals
<1>2. CASE cr[c].key # NoKey /\ WithKey(cr[c].key) # {}
  <2>1. CASE Truthy(cr[c].key)
    <3>1. cr' = [cr EXCEPT ![c].pc = "lookup"] /\ cr[c].key \in Keys
      BY <1>2, <2>1 DEF Insert, Truthy
    <3>2. Goes(c, "lookup", cr[c].left, cr[c].taken, cr[c].code, cr[c].ticket)
      BY <3>1, PcGoes DEF IInv
    <3>3. \E o \in Creations : Exists(o) /\ ticket[o].key = cr[c].key
      BY <1>2 DEF WithKey
    <3> QED BY <1>1, <3>1, <3>2, <3>3, LeftAsked, QuietStep DEF IInv, Unmade
  <2>2. CASE ~Truthy(cr[c].key)
    BY <1>1, <1>2, <2>2, FailStep DEF Insert, Fails, Unmade
  <2> QED BY <2>1, <2>2
<1>3. CASE ~(cr[c].key # NoKey /\ WithKey(cr[c].key) # {})
  <2>1. cr' = [cr EXCEPT ![c].pc = "attach", ![c].left = cr[c].files,
                         ![c].createdAt = now]
    BY <1>3 DEF Insert
  <2>2. Goes(c, "attach", cr[c].files, cr[c].taken, cr[c].code, cr[c].ticket)
    BY <2>1, BeginGoes DEF IInv
  <2>3. \/ cr[c].key = NoKey
        \/ /\ \A o \in Creations : InTransaction(o) => cr[o].key # cr[c].key
           /\ \A o \in Creations : Exists(o) => ticket[o].key # cr[c].key
    BY <1>3 DEF Insert, WithKey
  <2> QED BY <1>1, <2>2, <2>3, LeftAsked, QuietStep DEF IInv, Unmade
<1> QED BY <1>2, <1>3

(* A row that is judged to match is one no open transaction has taken. *)
LEMMA AttachRowStep ==
  ASSUME IInv, NEW c \in Creations, NEW x \in Files, AttachRow(c, x)
  PROVE  Locals'
<1> DEFINE taken == IF AttachMatches(c, x) THEN cr[c].taken \cup {x}
                                           ELSE cr[c].taken
<1>1. /\ cr[c].pc = "attach" /\ InTransaction(c) /\ UNCHANGED <<ticket, att>>
      /\ x \in cr[c].files
  BY DEF AttachRow, At, InTransaction, IInv, Locals, LeftIsAsked
<1>2. Goes(c, "attach", cr[c].left \ {x}, taken, cr[c].code, cr[c].ticket)
  BY AttachGoes DEF IInv
<1>3. \A y \in taken :
        /\ AttachMatches(c, y)
        /\ y \in cr[c].files
        /\ \A o \in Creations \ {c} : InTransaction(o) => y \notin cr[o].taken
  <2>1. ASSUME NEW y \in cr[c].taken
        PROVE  /\ AttachMatches(c, y)
               /\ y \in cr[c].files
               /\ \A o \in Creations \ {c} :
                    InTransaction(o) => y \notin cr[o].taken
    BY <1>1 DEF IInv, Locals, TakenIsHeld
  <2>2. ASSUME AttachMatches(c, x)
        PROVE  \A o \in Creations \ {c} : InTransaction(o) => x \notin cr[o].taken
    BY <2>2 DEF AttachRow, LockedFor
  <2> QED BY <1>1, <2>1, <2>2
<1> HIDE DEF taken
<1> QED BY <1>1, <1>2, <1>3, LeftAsked, QuietStep DEF IInv, Unmade

LEMMA LookupStep ==
  ASSUME IInv, NEW c \in Creations, Lookup(c)
  PROVE  Locals'
<1>1. cr[c].pc = "lookup" /\ UNCHANGED <<ticket, att>>
  BY DEF Lookup, At
<1>2. PICK t \in WithKey(cr[c].key) : Reply(c, 200, t)
  <2>1. WithKey(cr[c].key) # {}
    BY <1>1 DEF IInv, Locals, LoserHasWinner, WithKey
  <2> QED BY <2>1 DEF Lookup
<1>3. Goes(c, "reply", cr[c].left, cr[c].taken, 200, t)
  BY <1>2, ReplyGoes DEF IInv
<1>4. t \in Creations /\ Exists(t) /\ ticket[t].key = cr[c].key
  BY <1>2 DEF WithKey
<1>5. t # c
  BY <1>1, <1>4 DEF IInv, Locals, MadeByCommit, Unmade
<1>6. ticket[t].reporter = cr[c].user
  BY <1>1, <1>4, KeyedRequest
<1> QED BY <1>1, <1>3, <1>4, <1>5, <1>6, LeftAsked, QuietStep DEF IInv, Unmade

LEMMA EndingStep ==
  ASSUME IInv, NEW c \in Creations,
         Answer(c) \/ TransactionFails(c) \/ QueryFails(c) \/ Crash(c)
  PROVE  Locals'
<1>1. CASE Answer(c)
  <2>1. Goes(c, "done", cr[c].left, cr[c].taken, cr[c].code, cr[c].ticket)
    BY <1>1, PcGoes DEF IInv, Answer
  <2> QED BY <1>1, <2>1, LeftAsked, QuietStep DEF IInv, Answer, At, Unmade
<1>2. CASE TransactionFails(c) \/ QueryFails(c)
  BY <1>2, Failures, FailStep
<1>3. CASE Crash(c)
  <2> DEFINE taken == IF InTransaction(c) THEN {} ELSE cr[c].taken
  <2>1. Goes(c, "done", {}, taken, 0, cr[c].ticket)
    BY <1>3, CrashGoes DEF IInv
  <2> HIDE DEF taken
  <2> QED BY <1>3, <2>1, LeftAsked, QuietStep DEF IInv, Crash, Unmade
<1> QED BY <1>1, <1>2, <1>3

-----------------------------------------------------------------------------
(* The commit. *)

(* What a commit does, in flat facts. *)
Commits(c) ==
  /\ Goes(c, "reply", cr[c].left, cr[c].taken, 201, c)
  /\ cr[c].pc = "attach" /\ cr[c].left = {}
  /\ ~Exists(c) /\ ticket'[c].reporter # NoUser
  /\ ticket'[c].reporter = cr[c].user /\ ticket'[c].key = cr[c].key
  /\ \A t \in Creations \ {c} : ticket'[t] = ticket[t]
  /\ \A x \in Files \ cr[c].taken : att'[x] = att[x]

LEMMA CommitTables ==
  ASSUME IInv, NEW c \in Creations, Commit(c)
  PROVE  Commits(c)
<1>1. cr[c].pc = "attach" /\ cr[c].left = {} /\ Reply(c, 201, c)
  BY DEF Commit, At
<1>2. Goes(c, "reply", cr[c].left, cr[c].taken, 201, c)
  BY <1>1, ReplyGoes DEF IInv
<1>3. ticket' = [ticket EXCEPT ![c] = [reporter |-> cr[c].user,
                                       key |-> cr[c].key,
                                       createdAt |-> cr[c].createdAt]]
  BY DEF Commit
<1>4. ticket'[c] = [reporter |-> cr[c].user, key |-> cr[c].key,
                    createdAt |-> cr[c].createdAt]
      /\ \A t \in Creations \ {c} : ticket'[t] = ticket[t]
  BY <1>3 DEF IInv, TypeOK
<1>5. ~Exists(c)
  BY <1>1 DEF IInv, Locals, MadeByCommit, Unmade
<1>6. cr[c].user # NoUser
  BY <1>1, CreationAssumption DEF IInv, Locals, Asked
<1>7. \A x \in Files \ cr[c].taken : att'[x] = att[x]
  BY DEF Commit
<1>8. ticket'[c].reporter = cr[c].user /\ ticket'[c].key = cr[c].key
  BY <1>4
<1> QED BY <1>1, <1>2, <1>4, <1>5, <1>6, <1>7, <1>8 DEF Commits

LEMMA CommitStep ==
  ASSUME IInv, NEW c \in Creations, Commit(c)
  PROVE  Locals' /\ KeysOfReporters' /\ OneTicketPerKey'
<1>0. Commits(c)
  BY CommitTables
<1> USE <1>0 DEF Commits, Goes, Exists, At, InTransaction
<1>1. ToldAreTickets' /\ LeftIsAsked' /\ NothingTaken' /\ HasKey' /\ Asked'
  BY DEF IInv, Locals, ToldAreTickets, LeftIsAsked, NothingTaken, HasKey,
         Asked, Unmade
<1>2. MadeByCommit'
  BY DEF IInv, Locals, MadeByCommit, Goes, Unmade
<1>3. cr[c].key # NoKey =>
        \A t \in Creations : Exists(t) => ticket[t].key # cr[c].key
  BY DEF IInv, Locals, KeyIsHeld, InTransaction, At
<1>4. \A o \in Creations \ {c} :
        InTransaction(o) /\ cr[o].key # NoKey => cr[o].key # cr[c].key
  BY DEF IInv, Locals, KeyIsHeld, InTransaction, At
<1>5. KeyIsHeld'
  BY <1>4 DEF IInv, Locals, KeyIsHeld, InTransaction, At, Goes
<1>6. LoserHasWinner'
  <2> SUFFICES ASSUME NEW o \in Creations, cr'[o].pc = "lookup"
               PROVE  \E t \in Creations : Exists(t)' /\ ticket'[t].key = cr'[o].key
    BY DEF LoserHasWinner
  <2>1. o # c /\ cr'[o] = cr[o]
    BY DEF Goes
  <2>2. PICK t \in Creations : Exists(t) /\ ticket[t].key = cr[o].key
    BY <2>1 DEF IInv, Locals, LoserHasWinner
  <2> QED BY <2>1, <2>2
<1>7. TakenIsHeld'
  <2> SUFFICES ASSUME NEW o \in Creations, NEW x \in cr'[o].taken,
                      InTransaction(o)'
               PROVE  /\ AttachMatches(o, x)'
                      /\ x \in cr'[o].files
                      /\ \A p \in Creations :
                           InTransaction(p)' /\ x \in cr'[p].taken => p = o
    BY DEF TakenIsHeld
  <2>1. o # c /\ cr'[o] = cr[o] /\ InTransaction(o) /\ x \in cr[o].taken
    BY DEF Goes, InTransaction, At
  <2>2. InTransaction(c)
    BY DEF InTransaction, At
  <2>3. x \notin cr[c].taken
    BY <2>1, <2>2 DEF IInv, Locals, TakenIsHeld
  <2>4. x \in Files
    BY <2>1 DEF IInv, TypeOK, CreationLocals
  <2>5. AttachMatches(o, x) /\ x \in cr[o].files
    BY <2>1 DEF IInv, Locals, TakenIsHeld
  <2>6. AttachMatches(o, x)'
    BY <2>1, <2>3, <2>4, <2>5 DEF AttachMatches
  <2>7. \A p \in Creations : InTransaction(p)' /\ x \in cr'[p].taken => p = o
    BY <2>1 DEF IInv, Locals, TakenIsHeld, Goes, InTransaction, At
  <2> QED BY <2>1, <2>5, <2>6, <2>7
<1>8. AnswersNameTheKeysTicket'
  <2> SUFFICES ASSUME NEW o \in Creations, cr'[o].code \in {200, 201}
               PROVE  /\ ticket'[cr'[o].ticket].reporter # NoUser
                      /\ ticket'[cr'[o].ticket].key = cr'[o].key
                      /\ ticket'[cr'[o].ticket].reporter = cr'[o].user
                      /\ (cr'[o].code = 201) <=> (cr'[o].ticket = o)
    BY DEF AnswersNameTheKeysTicket
  <2>1. CASE o = c
    BY <2>1 DEF Goes
  <2>2. CASE o # c
    <3>1. cr'[o] = cr[o]
      BY <2>2 DEF Goes
    <3>2. /\ Exists(cr[o].ticket)
          /\ ticket[cr[o].ticket].key = cr[o].key
          /\ ticket[cr[o].ticket].reporter = cr[o].user
          /\ (cr[o].code = 201) <=> (cr[o].ticket = o)
      BY <3>1 DEF IInv, Locals, AnswersNameTheKeysTicket
    <3>3. cr[o].ticket # c
      BY <3>2
    <3>4. cr[o].ticket \in Creations
      BY <3>1 DEF IInv, Locals, AnswersNameTheKeysTicket, ToldAreTickets
    <3> QED BY <3>1, <3>2, <3>3, <3>4
  <2> QED BY <2>1, <2>2
<1>9. KeysOfReporters'
  BY DEF IInv, Locals, KeysOfReporters, Asked
<1>10. OneTicketPerKey'
  BY <1>3 DEF IInv, OneTicketPerKey
<1> QED
  BY <1>1, <1>2, <1>5, <1>6, <1>7, <1>8, <1>9, <1>10 DEF Locals

-----------------------------------------------------------------------------
(* The other steps. *)

LEMMA ReceiveStep ==
  ASSUME IInv, NEW c \in Creations, NEW u \in Users,
         NEW k \in Keys \cup {EmptyKey, NoKey}, NEW files \in SUBSET Files,
         Receive(c, u, k, files)
  PROVE  Locals'
<1>1. /\ cr[c].pc = "idle" /\ UNCHANGED <<ticket, att>>
      /\ k \in Keys => KeyOf[k] = u
  BY DEF Receive, At
<1>2. /\ cr'[c].pc = IF Truthy(k) THEN "find" ELSE "insert"
      /\ cr'[c].user = u /\ cr'[c].key = k /\ cr'[c].left = {}
      /\ cr'[c].taken = {} /\ cr'[c].code = 0
      /\ \A o \in Creations \ {c} : cr'[o] = cr[o]
  BY DEF Receive, IInv, TypeOK, IdleCreation
<1> USE <1>1, <1>2 DEF IInv, Locals, Exists, InTransaction, At
<1>3. ToldAreTickets' /\ LeftIsAsked' /\ NothingTaken' /\ HasKey'
  BY DEF ToldAreTickets, LeftIsAsked, NothingTaken, HasKey, Truthy
<1>4. Asked'
  BY DEF Asked
<1>5. MadeByCommit'
  BY DEF MadeByCommit, Unmade
<1>6. KeyIsHeld'
  BY DEF KeyIsHeld
<1>7. LoserHasWinner'
  BY DEF LoserHasWinner
<1>8. TakenIsHeld'
  BY DEF TakenIsHeld, AttachMatches
<1>9. AnswersNameTheKeysTicket'
  BY DEF AnswersNameTheKeysTicket
<1> QED BY <1>3, <1>4, <1>5, <1>6, <1>7, <1>8, <1>9

(* A step that is not a creation's, and leaves uploaded rows as they are. *)
LEMMA BystanderStep ==
  ASSUME IInv, UNCHANGED <<ticket, cr>>,
         \A x \in Files : Uploaded(x) => att'[x] = att[x]
  PROVE  Locals' /\ KeysOfReporters' /\ OneTicketPerKey'
<1> USE DEF IInv, Locals, Exists, InTransaction, At
<1>1. TakenIsHeld'
  <2>1. \A c \in Creations : \A x \in cr[c].taken :
          InTransaction(c) => x \in Files /\ Uploaded(x)
    BY DEF TakenIsHeld, AttachMatches, Uploaded, TypeOK, CreationLocals
  <2> QED BY <2>1 DEF TakenIsHeld, AttachMatches
<1>2. /\ ToldAreTickets' /\ LeftIsAsked' /\ NothingTaken' /\ HasKey' /\ Asked'
      /\ MadeByCommit' /\ KeyIsHeld' /\ LoserHasWinner'
      /\ AnswersNameTheKeysTicket'
  BY DEF ToldAreTickets, LeftIsAsked, NothingTaken, HasKey, Asked,
         MadeByCommit, KeyIsHeld, LoserHasWinner, AnswersNameTheKeysTicket
<1>3. KeysOfReporters' /\ OneTicketPerKey'
  BY DEF KeysOfReporters, OneTicketPerKey
<1> QED BY <1>1, <1>2, <1>3

-----------------------------------------------------------------------------
(* Type correctness. *)

LEMMA DownloadGoes ==
  ASSUME NEW q \in DownloadLocals, NEW pc \in {"done", "event"},
         NEW code \in DownloadCodes
  PROVE  [q EXCEPT !.pc = pc, !.code = code] \in DownloadLocals
BY DEF DownloadLocals

LEMMA DownloadEnds ==
  ASSUME NEW q \in DownloadLocals, NEW code \in DownloadCodes
  PROVE  [q EXCEPT !.pc = "done", !.code = code] \in DownloadLocals
<1>1. PICK pc \in {"done", "event"} : pc = "done"
  OBVIOUS
<1>2. [q EXCEPT !.pc = pc, !.code = code] \in DownloadLocals
  BY DownloadGoes
<1> QED BY <1>1, <1>2

LEMMA RequestType ==
  ASSUME NEW u \in Users, NEW k \in Keys \cup {EmptyKey, NoKey},
         NEW files \in SUBSET Files, NEW pc \in {"find", "insert"}
  PROVE  [IdleCreation EXCEPT !.pc = pc, !.user = u, !.key = k, !.files = files]
           \in CreationLocals
<1>1. IdleCreation \in CreationLocals
  BY CreationAssumption DEF IdleCreation, CreationLocals, Codes
<1> QED BY <1>1 DEF CreationLocals

LEMMA CreateType ==
  ASSUME IInv, NEW c \in Creations, Create(c)
  PROVE  cr' \in [Creations -> CreationLocals]
<1>0. TypeOK /\ cr[c] \in CreationLocals
  BY DEF IInv, TypeOK
<1>1. ASSUME NEW u \in Users, NEW k \in Keys \cup {EmptyKey, NoKey},
             NEW files \in SUBSET Files, Receive(c, u, k, files)
      PROVE  cr' \in [Creations -> CreationLocals]
  <2> DEFINE pc == IF Truthy(k) THEN "find" ELSE "insert"
             q == [IdleCreation EXCEPT !.pc = pc, !.user = u, !.key = k,
                                       !.files = files]
  <2>1. pc \in {"find", "insert"}
    OBVIOUS
  <2>2. cr' = [cr EXCEPT ![c] = q]
    BY <1>1 DEF Receive
  <2> HIDE DEF pc
  <2>3. q \in CreationLocals
    BY <2>1, RequestType
  <2> HIDE DEF q
  <2> QED BY <1>0, <2>2, <2>3 DEF TypeOK
<1>2. ASSUME NEW code \in Codes, NEW t \in Creations \cup {NoTicket},
             Reply(c, code, t)
      PROVE  cr' \in [Creations -> CreationLocals]
  <2>1. [cr[c] EXCEPT !.pc = "reply", !.code = code, !.ticket = t]
          \in CreationLocals
    BY <1>0 DEF CreationLocals
  <2> QED BY <1>0, <1>2, <2>1 DEF Reply, TypeOK
<1>3. ASSUME NEW pc \in {"insert", "lookup", "done"},
             cr' = [cr EXCEPT ![c].pc = pc]
      PROVE  cr' \in [Creations -> CreationLocals]
  <2>1. [cr[c] EXCEPT !.pc = pc] \in CreationLocals
    BY <1>0 DEF CreationLocals
  <2> QED BY <1>0, <1>3, <2>1 DEF TypeOK
<1>12. ASSUME NEW error \in {"P2002", "other"}, Throw(c, error)
       PROVE  cr' \in [Creations -> CreationLocals]
  <2> DEFINE none == {}
             code == 500
  <2>1. none \in SUBSET Files /\ code \in Codes
    BY DEF Codes
  <2>2. cr' = [cr EXCEPT ![c].pc = "reply", ![c].code = code,
                         ![c].thrown = error, ![c].left = none,
                         ![c].taken = none]
    BY <1>12 DEF Throw
  <2> HIDE DEF none, code
  <2>3. [cr[c] EXCEPT !.pc = "reply", !.code = code, !.thrown = error,
                      !.left = none, !.taken = none] \in CreationLocals
    BY <1>0, <2>1 DEF CreationLocals
  <2> QED BY <1>0, <2>2, <2>3 DEF TypeOK
<1>4. CASE FindKey(c)
  BY <1>2, <1>3, <1>4 DEF FindKey, WithKey, Codes
<1>5. CASE Insert(c)
  <2>1. [cr[c] EXCEPT !.pc = "attach", !.left = cr[c].files, !.createdAt = now]
          \in CreationLocals
    BY <1>0 DEF CreationLocals, TypeOK
  <2>2. \/ cr' = [cr EXCEPT ![c].pc = "lookup"]
        \/ cr' = [cr EXCEPT ![c] = [cr[c] EXCEPT !.pc = "attach",
                                     !.left = cr[c].files, !.createdAt = now]]
        \/ Throw(c, "P2002")
    BY <1>0, <1>5 DEF Insert, TypeOK
  <2> QED BY <1>0, <1>3, <1>12, <2>1, <2>2 DEF TypeOK
<1>6. ASSUME NEW x \in Files, AttachRow(c, x)
      PROVE  cr' \in [Creations -> CreationLocals]
  <2> DEFINE taken == IF AttachMatches(c, x) THEN cr[c].taken \cup {x}
                                             ELSE cr[c].taken
  <2>1. taken \in SUBSET Files
    BY <1>0 DEF CreationLocals
  <2>2. cr' = [cr EXCEPT ![c].left = cr[c].left \ {x}, ![c].taken = taken]
    BY <1>6 DEF AttachRow
  <2> HIDE DEF taken
  <2>3. [cr[c] EXCEPT !.left = cr[c].left \ {x}, !.taken = taken]
          \in CreationLocals
    BY <1>0, <2>1 DEF CreationLocals
  <2> QED BY <1>0, <2>2, <2>3 DEF TypeOK
<1>7. CASE Commit(c)
  <2>1. Reply(c, 201, c)
    BY <1>7 DEF Commit
  <2>2. 201 \in Codes
    BY DEF Codes
  <2> QED BY <1>2, <2>1, <2>2
<1>8. CASE Lookup(c)
  BY <1>2, <1>8, <1>12 DEF Lookup, WithKey, Codes
<1>9. CASE Answer(c)
  BY <1>3, <1>9 DEF Answer
<1>10. CASE TransactionFails(c) \/ QueryFails(c)
  BY <1>10, <1>12 DEF TransactionFails, QueryFails
<1>11. CASE Crash(c)
  <2> DEFINE taken == IF InTransaction(c) THEN {} ELSE cr[c].taken
             none == {}
             code == 0
  <2>1. taken \in SUBSET Files /\ none \in SUBSET Files /\ code \in Codes
    BY <1>0 DEF CreationLocals, Codes
  <2>2. cr' = [cr EXCEPT ![c].pc = "done", ![c].left = none, ![c].code = code,
                         ![c].thrown = "none", ![c].taken = taken]
    BY <1>11 DEF Crash
  <2> HIDE DEF taken, none, code
  <2>3. [cr[c] EXCEPT !.pc = "done", !.left = none, !.code = code,
                      !.thrown = "none", !.taken = taken] \in CreationLocals
    BY <1>0, <2>1 DEF CreationLocals
  <2> QED BY <1>0, <2>2, <2>3 DEF TypeOK
<1> QED
  BY <1>1, <1>4, <1>5, <1>6, <1>7, <1>8, <1>9, <1>10, <1>11
     DEF Create, BreakDeadlock

LEMMA TypeStep ==
  ASSUME IInv, [Next]_vars
  PROVE  TypeOK'
<1> USE CreationAssumption DEF IInv
<1>1. ASSUME NEW c \in Creations, Create(c)
      PROVE  TypeOK'
  <2>1. cr' \in [Creations -> CreationLocals]
    BY <1>1, CreateType
  <2>2. CASE UNCHANGED <<now, ticket, att, handed, history, dl>>
    BY <2>1, <2>2 DEF TypeOK
  <2>3. CASE Commit(c)
    <3>1. cr[c].user \in Users /\ cr[c] \in CreationLocals
      BY <2>3 DEF Commit, At, Locals, Asked, TypeOK
    <3>2. ticket' \in [Creations -> TicketRow]
      <4>1. [reporter |-> cr[c].user, key |-> cr[c].key,
             createdAt |-> cr[c].createdAt] \in TicketRow
        BY <3>1 DEF CreationLocals, TicketRow
      <4> QED BY <4>1, <2>3 DEF TypeOK, Commit
    <3>3. att' \in [Files -> AttachmentRow]
      <4>1. ASSUME NEW x \in Files, x \in cr[c].taken
            PROVE  [att[x] EXCEPT !.ticketId = c, !.status = "attached",
                                  !.expiresAt = 0] \in AttachmentRow
        <5>1. att[x].status = "pending"
          BY <2>3, <4>1 DEF Commit, At, InTransaction, Locals, TakenIsHeld,
                            AttachMatches
        <5>2. att[x] \in [uploader : Users, ticketId : {NoTicket},
                          status : {"pending"},
                          expiresAt : PENDING_TTL_MS .. MaxTime + PENDING_TTL_MS]
          BY <5>1 DEF TypeOK, AttachmentRow, NewAttachment
        <5> QED BY <5>2 DEF AttachmentRow
      <4>2. att' = [x \in Files |->
                     IF x \in cr[c].taken
                     THEN [att[x] EXCEPT !.ticketId = c, !.status = "attached",
                                         !.expiresAt = 0]
                     ELSE att[x]]
        BY <2>3 DEF Commit
      <4> DEFINE a(x) == [att[x] EXCEPT !.ticketId = c, !.status = "attached",
                                        !.expiresAt = 0]
      <4>3. \A x \in Files : x \in cr[c].taken => a(x) \in AttachmentRow
        BY <4>1
      <4>4. \A x \in Files : att[x] \in AttachmentRow
        BY DEF TypeOK
      <4> HIDE DEF a
      <4>5. att' = [x \in Files |-> IF x \in cr[c].taken THEN a(x) ELSE att[x]]
        BY <4>2 DEF a
      <4> QED BY <4>3, <4>4, <4>5
    <3>4. history' \subseteq Event
      <4>1. [kind |-> "ticket_creado", ticket |-> c, actor |-> cr[c].user,
             file |-> NoFile] \in Event
        BY <3>1 DEF Event
      <4> QED BY <2>3, <4>1 DEF Commit, TypeOK
    <3> QED BY <2>1, <2>3, <3>2, <3>3, <3>4 DEF TypeOK, Commit
  <2> QED BY <1>1, <2>2, <2>3, OnlyCommit
<1>2. ASSUME NEW d \in Downloads, Download(d)
      PROVE  TypeOK'
  <2>1. UNCHANGED <<now, ticket, att, handed, cr>>
    BY <1>2 DEF Download, DownloadRead, DownloadAccess, DownloadEvent,
                DownloadFails
  <2>2. dl[d] \in DownloadLocals
    BY DEF TypeOK
  <2>3. dl' \in [Downloads -> DownloadLocals] /\ history' \subseteq Event
    <3>1. ASSUME NEW u \in Users, NEW x \in Files, DownloadRead(d, u, x)
          PROVE  dl' \in [Downloads -> DownloadLocals] /\ history' \subseteq Event
      <4>0. 0 \in DownloadCodes
        BY DEF DownloadCodes
      <4>1. att[x].ticketId \in Creations \cup {NoTicket}
            /\ att[x].uploader \in Users \cup {NoUser}
        BY DEF TypeOK, AttachmentRow, NewAttachment
      <4>2. [pc |-> "access", user |-> u, file |-> x, code |-> 0,
             ticketId |-> att[x].ticketId, uploader |-> att[x].uploader]
              \in DownloadLocals
        BY <4>0, <4>1 DEF DownloadLocals
      <4> QED BY <3>1, <4>2 DEF DownloadRead, TypeOK
    <3>2. CASE DownloadAccess(d)
      <4> DEFINE pc == IF ~MayAccess(dl[d]) \/ dl[d].ticketId = NoTicket
                       THEN "done" ELSE "event"
                 code == CASE ~MayAccess(dl[d]) -> 404
                           [] MayAccess(dl[d]) /\ dl[d].ticketId = NoTicket -> 200
                           [] OTHER -> 0
      <4>1. pc \in {"done", "event"} /\ code \in DownloadCodes
        BY DEF DownloadCodes
      <4>2. dl' = [dl EXCEPT ![d].pc = pc, ![d].code = code]
        BY <3>2 DEF DownloadAccess
      <4> HIDE DEF pc, code
      <4>3. [dl[d] EXCEPT !.pc = pc, !.code = code] \in DownloadLocals
        BY <2>2, <4>1, DownloadGoes
      <4>4. dl \in [Downloads -> DownloadLocals] /\ history \subseteq Event
        BY DEF TypeOK
      <4>5. dl' = [dl EXCEPT ![d] = [dl[d] EXCEPT !.pc = pc, !.code = code]]
        BY <4>2, <4>4
      <4>6. dl' \in [Downloads -> DownloadLocals]
        BY <4>3, <4>4, <4>5
      <4>7. UNCHANGED history
        BY <3>2 DEF DownloadAccess
      <4> QED BY <4>4, <4>6, <4>7
    <3>3. CASE DownloadEvent(d)
      <4>0. PICK code \in DownloadCodes : code = 200
        BY DEF DownloadCodes
      <4>1. [dl[d] EXCEPT !.pc = "done", !.code = code] \in DownloadLocals
        BY <2>2, DownloadEnds
      <4>2. [kind |-> "adjunto_descargado", ticket |-> dl[d].ticketId,
             actor |-> dl[d].user, file |-> dl[d].file] \in Event
        BY <2>2, <3>3 DEF DownloadEvent, DownloadAt, DownloadShape,
                          DownloadLocals, Event
      <4> QED BY <3>3, <4>0, <4>1, <4>2 DEF TypeOK, DownloadEvent
    <3>4. CASE DownloadFails(d)
      <4>0. PICK code \in DownloadCodes : code = 500
        BY DEF DownloadCodes
      <4>1. [dl[d] EXCEPT !.pc = "done", !.code = code] \in DownloadLocals
        BY <2>2, DownloadEnds
      <4> QED BY <3>4, <4>0, <4>1 DEF TypeOK, DownloadFails
    <3> QED BY <1>2, <3>1, <3>2, <3>3, <3>4 DEF Download
  <2> QED BY <2>1, <2>3 DEF TypeOK
<1>3. ASSUME NEW x \in Files, NEW u \in Users, UploadRow(x, u)
      PROVE  TypeOK'
  <2>1. [uploader |-> u, ticketId |-> NoTicket, status |-> "pending",
         expiresAt |-> now + PENDING_TTL_MS] \in AttachmentRow
    BY DEF TypeOK, AttachmentRow, PENDING_TTL_MS
  <2> QED BY <1>3, <2>1 DEF TypeOK, UploadRow
<1>4. ASSUME NEW x \in Files, UploadAnswer(x)
      PROVE  TypeOK'
  BY <1>4 DEF TypeOK, UploadAnswer
<1>5. CASE Tick
  BY <1>5 DEF TypeOK, Tick
<1>6. CASE UNCHANGED vars
  BY <1>6 DEF TypeOK, vars
<1> QED BY <1>1, <1>2, <1>3, <1>4, <1>5, <1>6 DEF Next, Upload

-----------------------------------------------------------------------------
(* Downloads. *)

(***************************************************************************)
(* A creation may attach the file between the read and the answer of a     *)
(* download.  It attaches it to a ticket of its uploader, so that what was *)
(* concluded from the row still holds.                                     *)
(***************************************************************************)
LEMMA DownloadsFollow ==
  ASSUME IInv
  PROVE  DownloadsAreAllowed
<1>1. ASSUME NEW d \in Downloads, dl[d].code = 200, dl[d].user \notin Staff
      PROVE  IF att[dl[d].file].ticketId = NoTicket
             THEN att[dl[d].file].uploader = dl[d].user
             ELSE ticket[att[dl[d].file].ticketId].reporter = dl[d].user
  <2>1. /\ dl[d].file \in Files
        /\ dl[d].uploader = att[dl[d].file].uploader
        /\ dl[d].ticketId # NoTicket => att[dl[d].file].ticketId = dl[d].ticketId
        /\ MayAccess(dl[d])
    BY <1>1 DEF IInv, DownloadShape
  <2>2. att[dl[d].file].ticketId # NoTicket =>
          ticket[att[dl[d].file].ticketId].reporter = att[dl[d].file].uploader
    BY <2>1 DEF IInv, AttachedByUploader
  <2> QED BY <1>1, <2>1, <2>2 DEF MayAccess
<1> QED BY <1>1 DEF DownloadsAreAllowed, IInv, RecordedDownloads

(* A commit attaches only files on no ticket, and only to its new ticket. *)
LEMMA CommitDownloads ==
  ASSUME IInv, NEW c \in Creations, Commit(c)
  PROVE  DownloadShape' /\ AttachedByUploader' /\ RecordedDownloads'
<1>1. /\ ~Exists(c)
      /\ \A x \in cr[c].taken : AttachMatches(c, x) /\ x \in Files
      /\ cr[c].user \in Users
  BY DEF Commit, At, InTransaction, IInv, Locals, MadeByCommit, Unmade, Asked,
         TakenIsHeld, TypeOK, CreationLocals
<1>2. \A t \in Creations \ {c} : ticket'[t] = ticket[t]
  BY DEF Commit, IInv, TypeOK
<1>3. ticket'[c].reporter = cr[c].user
  BY DEF Commit, IInv, TypeOK
<1>4. \A x \in Files :
        IF x \in cr[c].taken
        THEN /\ att[x].ticketId = NoTicket
             /\ att[x].uploader = cr[c].user
             /\ att'[x].ticketId = c
             /\ att'[x].uploader = att[x].uploader
             /\ att'[x].status = "attached"
        ELSE att'[x] = att[x]
  <2>1. ASSUME NEW x \in Files, x \in cr[c].taken
        PROVE  /\ att'[x].ticketId = c
               /\ att'[x].uploader = att[x].uploader
               /\ att'[x].status = "attached"
    <3>1. att'[x] = [att[x] EXCEPT !.ticketId = c, !.status = "attached",
                                   !.expiresAt = 0]
      BY <2>1 DEF Commit
    <3>2. att[x] \in AttachmentRow
      BY DEF IInv, TypeOK
    <3> QED BY <3>1, <3>2 DEF AttachmentRow, NewAttachment
  <2>2. \A x \in Files : x \notin cr[c].taken => att'[x] = att[x]
    BY DEF Commit
  <2> QED BY <1>1, <2>1, <2>2 DEF AttachMatches
<1>5. AttachedByUploader'
  <2> SUFFICES ASSUME NEW x \in Files, att'[x].ticketId # NoTicket
               PROVE  /\ att'[x].ticketId \in Creations
                      /\ ticket'[att'[x].ticketId].reporter # NoUser
                      /\ ticket'[att'[x].ticketId].reporter = att'[x].uploader
    BY DEF AttachedByUploader, Exists
  <2>1. CASE x \in cr[c].taken
    BY <1>1, <1>3, <1>4, <2>1, CreationAssumption
  <2>2. CASE x \notin cr[c].taken
    <3>1. att'[x] = att[x]
      BY <1>4, <2>2
    <3>2. /\ att[x].ticketId \in Creations
          /\ Exists(att[x].ticketId)
          /\ ticket[att[x].ticketId].reporter = att[x].uploader
      BY <3>1 DEF IInv, AttachedByUploader
    <3> QED BY <1>1, <1>2, <3>1, <3>2 DEF Exists
  <2> QED BY <2>1, <2>2
<1>6. DownloadShape'
  <2>1. dl' = dl
    BY DEF Commit
  <2> SUFFICES ASSUME NEW d \in Downloads, dl[d].pc # "idle"
               PROVE  /\ att'[dl[d].file].status # "absent"
                      /\ dl[d].uploader = att'[dl[d].file].uploader
                      /\ dl[d].ticketId # NoTicket =>
                           att'[dl[d].file].ticketId = dl[d].ticketId
                      /\ MayAccess(dl[d]) => MayAccess(dl[d])'
    BY <2>1 DEF DownloadShape, IInv, Uploaded
  <2>2. /\ dl[d].file \in Files
        /\ Uploaded(dl[d].file)
        /\ dl[d].uploader = att[dl[d].file].uploader
        /\ dl[d].ticketId # NoTicket => att[dl[d].file].ticketId = dl[d].ticketId
    BY DEF IInv, DownloadShape
  <2>3. dl[d].ticketId # NoTicket =>
          /\ dl[d].ticketId \in Creations
          /\ Exists(dl[d].ticketId)
    BY <2>2 DEF IInv, AttachedByUploader
  <2>4. dl[d].ticketId # NoTicket =>
          ticket'[dl[d].ticketId] = ticket[dl[d].ticketId]
    BY <1>1, <1>2, <2>3
  <2>5. MayAccess(dl[d]) => MayAccess(dl[d])'
    BY <2>1, <2>4 DEF MayAccess
  <2> QED BY <1>4, <2>2, <2>5 DEF Uploaded
<1>7. RecordedDownloads'
  <2> SUFFICES ASSUME NEW e \in history', e.kind = "adjunto_descargado"
               PROVE  /\ e.file \in Files
                      /\ att'[e.file].ticketId = e.ticket
                      /\ \/ e.actor \in Staff
                         \/ ticket'[e.ticket].reporter = e.actor
    BY DEF RecordedDownloads
  <2>1. e \in history
    <3> DEFINE new == [kind |-> "ticket_creado", ticket |-> c,
                       actor |-> cr[c].user, file |-> NoFile]
    <3>1. history' = history \cup {new}
      BY DEF Commit
    <3>2. new.kind # "adjunto_descargado"
      OBVIOUS
    <3> HIDE DEF new
    <3> QED BY <3>1, <3>2
  <2>2. /\ e.file \in Files /\ att[e.file].ticketId = e.ticket
        /\ e.ticket \in Creations
        /\ e.actor \in Staff \/ ticket[e.ticket].reporter = e.actor
    BY <2>1 DEF IInv, RecordedDownloads, TypeOK, Event
  <2>3. e.ticket # c
    BY <1>1, <2>2, CreationAssumption DEF IInv, AttachedByUploader
  <2> QED BY <1>2, <1>4, <2>2, <2>3, CreationAssumption
<1> QED BY <1>5, <1>6, <1>7

LEMMA DownloadSteps ==
  ASSUME IInv, NEW d \in Downloads, Download(d)
  PROVE  DownloadShape' /\ AttachedByUploader' /\ RecordedDownloads'
<1>1. UNCHANGED <<ticket, att>>
  BY DEF Download, DownloadRead, DownloadAccess, DownloadEvent, DownloadFails
<1>2. AttachedByUploader'
  BY <1>1 DEF IInv, AttachedByUploader, Exists
<1>3. ASSUME NEW u \in Users, NEW x \in Files, DownloadRead(d, u, x)
      PROVE  DownloadShape' /\ RecordedDownloads'
  <2>1. /\ dl'[d].pc = "access" /\ dl'[d].user = u /\ dl'[d].file = x
        /\ dl'[d].code = 0 /\ dl'[d].ticketId = att[x].ticketId
        /\ dl'[d].uploader = att[x].uploader
        /\ \A o \in Downloads \ {d} : dl'[o] = dl[o]
        /\ history' = history
    BY <1>3 DEF DownloadRead, IInv, TypeOK
  <2>2. Uploaded(x)
    BY <1>3 DEF DownloadRead, IInv, HandedAreUploaded
  <2>3. DownloadShape'
    BY <1>1, <2>1, <2>2 DEF IInv, DownloadShape, Uploaded, MayAccess
  <2> QED BY <1>1, <2>1, <2>3 DEF IInv, RecordedDownloads
<1>4. ASSUME dl[d].pc \in {"access", "event"},
             NEW pc \in {"event", "done"}, NEW code \in DownloadCodes,
             dl' = [dl EXCEPT ![d].pc = pc, ![d].code = code],
             pc = "event" => dl[d].ticketId # NoTicket /\ MayAccess(dl[d]),
             code = 200 => MayAccess(dl[d])
      PROVE  DownloadShape'
  <2>1. /\ dl'[d].pc = pc /\ dl'[d].user = dl[d].user
        /\ dl'[d].file = dl[d].file /\ dl'[d].code = code
        /\ dl'[d].ticketId = dl[d].ticketId
        /\ dl'[d].uploader = dl[d].uploader
        /\ \A o \in Downloads \ {d} : dl'[o] = dl[o]
    BY <1>4 DEF IInv, TypeOK, DownloadLocals
  <2>2. /\ dl[d].user \in Users /\ dl[d].file \in Files
        /\ Uploaded(dl[d].file)
        /\ dl[d].uploader = att[dl[d].file].uploader
        /\ dl[d].ticketId # NoTicket => att[dl[d].file].ticketId = dl[d].ticketId
    BY <1>4 DEF IInv, DownloadShape
  <2>3. MayAccess(dl[d]) => MayAccess(dl[d])'
    BY <1>1, <2>1 DEF MayAccess
  <2> SUFFICES ASSUME NEW o \in Downloads
               PROVE  (IF dl[o].pc = "idle" THEN dl[o].code = 0 ELSE
                        /\ dl[o].user \in Users
                        /\ dl[o].file \in Files
                        /\ Uploaded(dl[o].file)
                        /\ dl[o].uploader = att[dl[o].file].uploader
                        /\ dl[o].ticketId # NoTicket =>
                             att[dl[o].file].ticketId = dl[o].ticketId
                        /\ dl[o].pc = "event" =>
                             dl[o].ticketId # NoTicket /\ MayAccess(dl[o])
                        /\ dl[o].code = 200 => MayAccess(dl[o]))'
    BY DEF DownloadShape
  <2>4. CASE o = d
    BY <1>1, <1>4, <2>1, <2>2, <2>3, <2>4 DEF Uploaded
  <2>5. CASE o # d
    BY <1>1, <2>1, <2>5 DEF IInv, DownloadShape, Uploaded, MayAccess
  <2> QED BY <2>4, <2>5
<1>5. CASE DownloadAccess(d)
  <2> DEFINE pc == IF ~MayAccess(dl[d]) \/ dl[d].ticketId = NoTicket
                   THEN "done" ELSE "event"
             code == CASE ~MayAccess(dl[d]) -> 404
                       [] MayAccess(dl[d]) /\ dl[d].ticketId = NoTicket -> 200
                       [] OTHER -> 0
  <2>1. /\ pc \in {"event", "done"} /\ code \in DownloadCodes
        /\ pc = "event" => dl[d].ticketId # NoTicket /\ MayAccess(dl[d])
        /\ code = 200 => MayAccess(dl[d])
    BY DEF DownloadCodes
  <2>2. /\ dl' = [dl EXCEPT ![d].pc = pc, ![d].code = code]
        /\ dl[d].pc = "access" /\ history' = history
    BY <1>5 DEF DownloadAccess, DownloadAt
  <2> HIDE DEF pc, code
  <2>3. DownloadShape'
    BY <1>4, <2>1, <2>2
  <2> QED BY <1>1, <1>2, <2>2, <2>3 DEF IInv, RecordedDownloads
<1>6. CASE DownloadEvent(d)
  <2>1. /\ dl' = [dl EXCEPT ![d].pc = "done", ![d].code = 200]
        /\ dl[d].pc = "event"
    BY <1>6 DEF DownloadEvent, DownloadAt
  <2>2. /\ dl[d].ticketId # NoTicket /\ MayAccess(dl[d])
        /\ dl[d].file \in Files
        /\ att[dl[d].file].ticketId = dl[d].ticketId
    BY <2>1 DEF IInv, DownloadShape
  <2>3. 200 \in DownloadCodes
    BY DEF DownloadCodes
  <2>4. DownloadShape'
    BY <1>4, <2>1, <2>2, <2>3
  <2>5. RecordedDownloads'
    <3> DEFINE new == [kind |-> "adjunto_descargado",
                       ticket |-> dl[d].ticketId, actor |-> dl[d].user,
                       file |-> dl[d].file]
    <3>1. history' = history \cup {new}
      BY <1>6 DEF DownloadEvent
    <3>2. /\ new.file = dl[d].file /\ new.ticket = dl[d].ticketId
          /\ new.actor = dl[d].user
      OBVIOUS
    <3> HIDE DEF new
    <3> QED BY <1>1, <2>2, <3>1, <3>2 DEF IInv, RecordedDownloads, MayAccess
  <2> QED BY <1>2, <2>4, <2>5
<1>7. CASE DownloadFails(d)
  <2> DEFINE code == 500
  <2>1. code \in DownloadCodes /\ code # 200
    BY DEF DownloadCodes
  <2>3. /\ dl' = [dl EXCEPT ![d].pc = "done", ![d].code = code]
        /\ dl[d].pc \in {"access", "event"}
    BY <1>7 DEF DownloadFails
  <2> HIDE DEF code
  <2>2. DownloadShape'
    BY <1>4, <2>1, <2>3
  <2> QED BY <1>1, <1>2, <1>7, <2>2 DEF DownloadFails, IInv, RecordedDownloads
<1> QED BY <1>2, <1>3, <1>5, <1>6, <1>7 DEF Download

LEMMA UploadSteps ==
  ASSUME IInv, NEW x \in Files, Upload(x)
  PROVE  /\ DownloadShape' /\ AttachedByUploader' /\ RecordedDownloads'
         /\ HandedAreUploaded'
         /\ UNCHANGED <<ticket, cr>>
         /\ \A y \in Files : Uploaded(y) => att'[y] = att[y]
<1>1. CASE UploadAnswer(x)
  BY <1>1 DEF UploadAnswer, IInv, DownloadShape, AttachedByUploader,
              RecordedDownloads, HandedAreUploaded, Uploaded, MayAccess, Exists
<1>2. ASSUME NEW u \in Users, UploadRow(x, u)
      PROVE  /\ DownloadShape' /\ AttachedByUploader' /\ RecordedDownloads'
             /\ HandedAreUploaded'
             /\ UNCHANGED <<ticket, cr>>
             /\ \A y \in Files : Uploaded(y) => att'[y] = att[y]
  <2>1. /\ ~Uploaded(x) /\ att'[x].ticketId = NoTicket
        /\ att'[x].status = "pending"
        /\ \A y \in Files \ {x} : att'[y] = att[y]
        /\ UNCHANGED <<ticket, handed, history, cr, dl>>
    BY <1>2 DEF UploadRow, IInv, TypeOK
  <2>2. att[x].ticketId = NoTicket
    BY <2>1 DEF Uploaded, IInv, TypeOK, AttachmentRow, NewAttachment
  <2>3. \A e \in history : e.ticket # NoTicket
    BY CreationAssumption DEF IInv, TypeOK, Event
  <2>4. DownloadShape'
    BY <2>1 DEF IInv, DownloadShape, Uploaded, MayAccess
  <2>5. AttachedByUploader' /\ HandedAreUploaded'
    BY <2>1 DEF IInv, AttachedByUploader, Exists, HandedAreUploaded, Uploaded,
                TypeOK
  <2>6. RecordedDownloads'
    BY <2>1, <2>2, <2>3 DEF IInv, RecordedDownloads
  <2> QED BY <2>1, <2>4, <2>5, <2>6
<1> QED BY <1>1, <1>2 DEF Upload

-----------------------------------------------------------------------------
LEMMA NextIInv ==
  ASSUME IInv, [Next]_vars
  PROVE  IInv'
<1>0. TypeOK'
  BY TypeStep
<1>1. ASSUME NEW c \in Creations, Create(c)
      PROVE  IInv'
  <2>1. CASE Commit(c)
    <3>1. HandedAreUploaded'
      <4>1. \A x \in Files : x \notin cr[c].taken => att'[x] = att[x]
        BY <2>1 DEF Commit
      <4>2. ASSUME NEW x \in Files, x \in cr[c].taken
            PROVE  att'[x].status = "attached"
        <5>1. att'[x] = [att[x] EXCEPT !.ticketId = c, !.status = "attached",
                                       !.expiresAt = 0]
          BY <2>1, <4>2 DEF Commit
        <5>2. att[x] \in AttachmentRow
          BY DEF IInv, TypeOK
        <5> QED BY <5>1, <5>2 DEF AttachmentRow, NewAttachment
      <4> QED BY <4>1, <4>2, <2>1
              DEF Commit, IInv, TypeOK, HandedAreUploaded, Uploaded
    <3> QED BY <1>0, <2>1, <3>1, CommitStep, CommitDownloads DEF IInv
  <2>2. CASE ~Commit(c)
    <3>1. UNCHANGED <<now, ticket, att, handed, history, dl>>
      BY <1>1, <2>2, OnlyCommit
    <3>2. Locals'
      BY <1>1, <2>2, ReceiveStep, FindKeyStep, InsertStep, AttachRowStep,
         LookupStep, EndingStep DEF Create, BreakDeadlock
    <3>3. /\ DownloadShape' /\ AttachedByUploader' /\ RecordedDownloads'
          /\ HandedAreUploaded' /\ KeysOfReporters' /\ OneTicketPerKey'
      BY <3>1 DEF IInv, DownloadShape, AttachedByUploader, RecordedDownloads,
                  HandedAreUploaded, KeysOfReporters, OneTicketPerKey,
                  Uploaded, MayAccess, Exists
    <3> QED BY <1>0, <3>2, <3>3 DEF IInv
  <2> QED BY <2>1, <2>2
<1>2. ASSUME NEW d \in Downloads, Download(d)
      PROVE  IInv'
  <2>1. UNCHANGED <<ticket, att, handed, cr>>
    BY <1>2 DEF Download, DownloadRead, DownloadAccess, DownloadEvent,
                DownloadFails
  <2>2. Locals' /\ KeysOfReporters' /\ OneTicketPerKey'
    BY <2>1, BystanderStep
  <2>3. HandedAreUploaded'
    BY <2>1 DEF IInv, HandedAreUploaded, Uploaded
  <2> QED BY <1>0, <1>2, <2>2, <2>3, DownloadSteps DEF IInv
<1>3. ASSUME NEW x \in Files, Upload(x)
      PROVE  IInv'
  BY <1>0, <1>3, UploadSteps, BystanderStep DEF IInv
<1>4. CASE Tick \/ UNCHANGED vars
  <2>1. UNCHANGED <<ticket, att, handed, history, cr, dl>>
    BY <1>4 DEF Tick, vars
  <2>2. Locals' /\ KeysOfReporters' /\ OneTicketPerKey'
    BY <2>1, BystanderStep
  <2>3. /\ DownloadShape' /\ AttachedByUploader' /\ RecordedDownloads'
        /\ HandedAreUploaded'
    BY <2>1 DEF IInv, DownloadShape, AttachedByUploader, RecordedDownloads,
                HandedAreUploaded, Uploaded, MayAccess, Exists
  <2> QED BY <1>0, <2>2, <2>3 DEF IInv
<1> QED BY <1>1, <1>2, <1>3, <1>4 DEF Next

(* The inductive invariant holds in every reachable state. *)
THEOREM Invariance == Spec => []IInv
<1>1. Init => IInv
  BY InitIInv
<1>2. IInv /\ [Next]_vars => IInv'
  BY NextIInv
<1> QED BY <1>1, <1>2, PTL DEF Spec

-----------------------------------------------------------------------------
(* What follows from it. *)

(* Every column and local variable of the creation and the download of     *)
(* attachments keeps its type.                                             *)
THEOREM TypeCorrect == Spec => []TypeOK
<1>1. IInv => TypeOK
  BY DEF IInv
<1> QED BY <1>1, Invariance, PTL

(* TicketsService.create makes at most one ticket of an idempotency key,   *)
(* for any number of requests that carry it.                               *)
THEOREM KeysNameOneTicket == Spec => []OneTicketPerKey
<1>1. IInv => OneTicketPerKey
  BY DEF IInv
<1> QED BY <1>1, Invariance, PTL

(* Every 200 and 201 of TicketsService.create names the ticket of the key  *)
(* that was sent, and one of the user who sent it.                         *)
THEOREM AnswersAreRight == Spec => []AnswersNameTheKeysTicket
<1>1. IInv => AnswersNameTheKeysTicket
  BY DEF IInv, Locals
<1> QED BY <1>1, Invariance, PTL

(* AttachmentsService.getDownload never returns a URL, or records it, for  *)
(* one who may not read the file at that moment.                           *)
THEOREM DownloadsAreSafe == Spec => []DownloadsAreAllowed
<1>1. IInv => DownloadsAreAllowed
  BY DownloadsFollow
<1> QED BY <1>1, Invariance, PTL

(* A step of a creation changes the local variables of that one only. *)
LEMMA OneCreation ==
  ASSUME IInv, NEW o \in Creations, Create(o)
  PROVE  \A c \in Creations \ {o} : cr'[c] = cr[c]
<1>1. ASSUME NEW c \in Creations \ {o}
      PROVE  cr'[c] = cr[c]
  <2>1. CASE FindKey(o)
    BY <2>1 DEF FindKey, Reply, IInv, TypeOK
  <2>2. CASE Insert(o)
    BY <2>2 DEF Insert, Throw, IInv, TypeOK
  <2>3. CASE Commit(o)
    BY <2>3 DEF Commit, Reply, IInv, TypeOK
  <2>4. CASE Lookup(o)
    BY <2>4 DEF Lookup, Reply, Throw, IInv, TypeOK
  <2>5. CASE \/ Answer(o) \/ TransactionFails(o) \/ QueryFails(o)
             \/ BreakDeadlock(o) \/ Crash(o)
    BY <2>5 DEF Answer, TransactionFails, QueryFails, BreakDeadlock, Crash,
                Throw, IInv, TypeOK
  <2>6. ASSUME NEW x \in Files, AttachRow(o, x)
        PROVE  cr'[c] = cr[c]
    BY <2>6 DEF AttachRow, IInv, TypeOK
  <2>7. ASSUME NEW u \in Users, NEW k \in Keys \cup {EmptyKey, NoKey},
               NEW files \in SUBSET Files, Receive(o, u, k, files)
        PROVE  cr'[c] = cr[c]
    BY <2>7 DEF Receive, IInv, TypeOK
  <2> QED BY <2>1, <2>2, <2>3, <2>4, <2>5, <2>6, <2>7 DEF Create
<1> QED BY <1>1

(* A step of a creation keeps its key and does not throw a P2002, unless   *)
(* its INSERT under the empty key met a ticket.                            *)
LEMMA ThrownBy ==
  ASSUME IInv, NEW c \in Creations, Create(c), cr'[c].thrown = "P2002"
  PROVE  /\ cr'[c].key = cr[c].key
         /\ \/ cr[c].thrown = "P2002"
            \/ cr[c].key = EmptyKey /\ WithKey(EmptyKey) # {}
<1>0. cr[c] \in CreationLocals /\ cr \in [Creations -> CreationLocals]
  BY DEF IInv, TypeOK
<1>1. ASSUME NEW u \in Users, NEW k \in Keys \cup {EmptyKey, NoKey},
             NEW files \in SUBSET Files, Receive(c, u, k, files)
      PROVE  FALSE
  BY <1>0, <1>1 DEF Receive, IdleCreation
<1>2. CASE FindKey(c)
  BY <1>0, <1>2 DEF FindKey, Reply, CreationLocals
<1>3. CASE Insert(c)
  <2>1. CASE cr[c].key # NoKey /\ WithKey(cr[c].key) # {} /\ ~Truthy(cr[c].key)
    <3>1. cr[c].key = EmptyKey
      BY <1>0, <2>1 DEF CreationLocals, Truthy
    <3> QED BY <1>0, <1>3, <2>1, <3>1 DEF Insert, Throw, CreationLocals
  <2> QED BY <1>0, <1>3, <2>1 DEF Insert, CreationLocals
<1>4. ASSUME NEW x \in Files, AttachRow(c, x)
      PROVE  cr'[c].key = cr[c].key /\ cr[c].thrown = "P2002"
  BY <1>0, <1>4 DEF AttachRow, CreationLocals
<1>5. CASE Commit(c)
  <2>1. Reply(c, 201, c)
    BY <1>5 DEF Commit
  <2> QED BY <1>0, <2>1 DEF Reply, CreationLocals
<1>6. CASE Lookup(c)
  <2>1. WithKey(cr[c].key) # {}
    BY <1>6 DEF Lookup, At, IInv, Locals, LoserHasWinner, WithKey
  <2> QED BY <1>0, <1>6, <2>1 DEF Lookup, Reply, CreationLocals
<1>7. CASE Answer(c)
  BY <1>0, <1>7 DEF Answer, CreationLocals
<1>8. CASE TransactionFails(c) \/ QueryFails(c)
  BY <1>0, <1>8 DEF TransactionFails, QueryFails, Throw, CreationLocals
<1>9. CASE Crash(c)
  BY <1>0, <1>9 DEF Crash, CreationLocals
<1> QED BY <1>1, <1>2, <1>3, <1>4, <1>5, <1>6, <1>7, <1>8, <1>9
        DEF Create, BreakDeadlock

(* A ticket stays, under its key. *)
LEMMA TicketsStay ==
  ASSUME IInv, [Next]_vars, NEW t \in Creations, Exists(t)
  PROVE  ticket'[t] = ticket[t]
<1>1. ASSUME NEW c \in Creations, Commit(c)
      PROVE  ticket'[t] = ticket[t]
  BY <1>1, CommitTables DEF Commits
<1>2. ASSUME NEW c \in Creations, Create(c), ~Commit(c)
      PROVE  ticket'[t] = ticket[t]
  BY <1>2, OnlyCommit
<1> QED BY <1>1, <1>2
        DEF Next, vars, Tick, Upload, UploadRow, UploadAnswer, Download,
            DownloadRead, DownloadAccess, DownloadEvent, DownloadFails

(* Who loses the race on the unique index of TicketsService.create gets    *)
(* past the catch to its winner, with any key but the empty one, unless    *)
(* the lookup itself fails.                                                *)
THEOREM NoLoserFails == Spec => []LosersAreAnswered
<1>1. Init => LosersAreAnswered
  BY DEF Init, IdleCreation, LosersAreAnswered
<1>2. IInv /\ LosersAreAnswered /\ [Next]_vars => LosersAreAnswered'
  <2> SUFFICES ASSUME IInv, LosersAreAnswered, [Next]_vars,
                      NEW c \in Creations, cr'[c].thrown = "P2002"
               PROVE  cr'[c].key = EmptyKey /\ WithKey(EmptyKey)' # {}
    BY DEF LosersAreAnswered
  <2>1. \/ cr'[c] = cr[c]
        \/ /\ cr'[c].key = cr[c].key
           /\ \/ cr[c].thrown = "P2002"
              \/ cr[c].key = EmptyKey /\ WithKey(EmptyKey) # {}
    <3>1. ASSUME NEW o \in Creations \ {c}, Create(o)
          PROVE  cr'[c] = cr[c]
      BY <3>1, OneCreation
    <3>2. cr' = cr \/ \E o \in Creations : Create(o)
      BY DEF Next, vars, Tick, Upload, UploadRow, UploadAnswer, Download,
             DownloadRead, DownloadAccess, DownloadEvent, DownloadFails
    <3> QED BY <3>1, <3>2, ThrownBy
  <2>2. cr'[c].key = EmptyKey /\ WithKey(EmptyKey) # {}
    BY <2>1 DEF LosersAreAnswered
  <2>3. PICK t \in Creations : Exists(t) /\ ticket[t].key = EmptyKey
    BY <2>2 DEF WithKey
  <2>4. ticket'[t] = ticket[t]
    BY <2>3, TicketsStay
  <2> QED BY <2>2, <2>3, <2>4 DEF WithKey, Exists
<1> QED BY <1>1, <1>2, Invariance, PTL DEF Spec

(* AttachmentsService and the updateMany of TicketsService.create attach a *)
(* file once, to a ticket of its uploader that asked for it.               *)
THEOREM AttachmentsStay == Spec => AttachedForGood
<1>1. IInv /\ [Next]_vars =>
        [\A x \in Files :
           att'[x] # att[x] /\ Uploaded(x) =>
             /\ att[x].ticketId = NoTicket
             /\ LET t == att'[x].ticketId
                IN /\ ~Exists(t) /\ ticket'[t].reporter = att[x].uploader
                   /\ x \in cr[t].files]_vars
  <2> SUFFICES ASSUME IInv, Next, NEW x \in Files, att'[x] # att[x], Uploaded(x)
               PROVE  /\ att[x].ticketId = NoTicket
                      /\ ~Exists(att'[x].ticketId)
                      /\ ticket'[att'[x].ticketId].reporter = att[x].uploader
                      /\ x \in cr[att'[x].ticketId].files
    OBVIOUS
  <2>1. PICK c \in Creations : Commit(c)
    <3>1. \A y \in Files : ~Upload(y)
      BY UploadSteps
    <3>2. \A d \in Downloads : ~Download(d)
      BY DEF Download, DownloadRead, DownloadAccess, DownloadEvent,
             DownloadFails
    <3>3. ~Tick
      BY DEF Tick
    <3>4. \A c \in Creations : Create(c) => Commit(c)
      BY OnlyCommit
    <3> QED BY <3>1, <3>2, <3>3, <3>4 DEF Next
  <2>2. Commits(c)
    BY <2>1, CommitTables
  <2>3. x \in cr[c].taken
    BY <2>2 DEF Commits
  <2>4. AttachMatches(c, x) /\ x \in cr[c].files
    BY <2>2, <2>3 DEF Commits, InTransaction, At, IInv, Locals, TakenIsHeld
  <2>5. att'[x].ticketId = c
    <3>1. att'[x] = [att[x] EXCEPT !.ticketId = c, !.status = "attached",
                                   !.expiresAt = 0]
      BY <2>1, <2>3 DEF Commit
    <3>2. att[x] \in AttachmentRow
      BY DEF IInv, TypeOK
    <3> QED BY <3>1, <3>2 DEF AttachmentRow, NewAttachment
  <2> QED BY <2>2, <2>4, <2>5 DEF Commits, AttachMatches
<1> QED BY <1>1, Invariance, PTL DEF Spec, AttachedForGood

-----------------------------------------------------------------------------
(* The refinement of CreationLedger. *)

(* Nobody has asked for anything before the request arrives. *)
NotYetAsked ==
  \A c \in Creations : cr[c].pc = "idle" => cr[c].user = NoUser

(* A client names only attachments it was told of. *)
AskedForHanded == \A c \in Creations : cr[c].files \subseteq handed

(* An attachment that the transaction passed over is not free, and never   *)
(* will be.                                                                *)
PassedOver(c, x) ==
  att[x].uploader # cr[c].user \/ att[x].ticketId # NoTicket

OnlyTakenAreFree ==
  \A c \in Creations :
    InTransaction(c) =>
      \A x \in cr[c].files \ (cr[c].left \cup cr[c].taken) : PassedOver(c, x)

(* What is about to be answered. *)
Answers(c, code, t) ==
  \/ code = 201 /\ t = c /\ Exists(c)
  \/ /\ code = 200 /\ t \in Creations /\ Exists(t) /\ ~Exists(c)
     /\ cr[c].key \in Keys /\ ticket[t].key = cr[c].key
  \/ code = 500 /\ t = NoTicket /\ ~Exists(c)

RepliesAreTrue ==
  \A c \in Creations :
    /\ cr[c].pc = "reply" => Answers(c, cr[c].code, cr[c].ticket)
    /\ cr[c].pc \in Unmade => cr[c].ticket = NoTicket

RInv == NotYetAsked /\ AskedForHanded /\ OnlyTakenAreFree /\ RepliesAreTrue

LEMMA InitRInv ==
  ASSUME Init
  PROVE  RInv
BY DEF Init, RInv, NotYetAsked, AskedForHanded, OnlyTakenAreFree,
       RepliesAreTrue, IdleCreation, InTransaction, At

-----------------------------------------------------------------------------
(* A step of c that leaves the tables alone. *)
LEMMA LocalStep ==
  ASSUME RInv, NEW c \in Creations,
         NEW pc, NEW left, NEW taken, NEW code, NEW t,
         Goes(c, pc, left, taken, code, t), UNCHANGED <<ticket, att, handed>>,
         pc # "idle",
         pc = "attach" =>
           \A x \in cr[c].files \ (left \cup taken) : PassedOver(c, x),
         pc = "reply" => Answers(c, code, t),
         pc \in Unmade => t = NoTicket
  PROVE  RInv'
<1> USE DEF Goes, RInv
<1>1. NotYetAsked' /\ AskedForHanded'
  BY DEF NotYetAsked, AskedForHanded
<1>2. OnlyTakenAreFree'
  BY DEF OnlyTakenAreFree, InTransaction, At, PassedOver
<1>3. RepliesAreTrue'
  BY DEF RepliesAreTrue, Answers, Exists
<1> QED BY <1>1, <1>2, <1>3

(* A request under way has made nothing yet. *)
LEMMA NothingMade ==
  ASSUME IInv, RInv, NEW c \in Creations, cr[c].pc \in Unmade
  PROVE  ~Exists(c) /\ cr[c].ticket = NoTicket
BY DEF IInv, Locals, MadeByCommit, RInv, RepliesAreTrue

LEMMA FindKeyKeeps ==
  ASSUME IInv, RInv, NEW c \in Creations, FindKey(c)
  PROVE  RInv'
<1>1. cr[c].pc = "find" /\ cr[c].key \in Keys
  BY DEF FindKey, At, IInv, Locals, HasKey
<1>2. ~Exists(c) /\ cr[c].ticket = NoTicket
  BY <1>1, NothingMade DEF Unmade
<1>3. UNCHANGED <<ticket, att, handed>>
  BY DEF FindKey
<1>4. CASE cr' = [cr EXCEPT ![c].pc = "insert"]
  <2>1. Goes(c, "insert", cr[c].left, cr[c].taken, cr[c].code, cr[c].ticket)
    BY <1>4, PcGoes DEF IInv
  <2> QED BY <1>2, <1>3, <2>1, LocalStep
<1>5. ASSUME NEW t \in WithKey(cr[c].key), Reply(c, 200, t)
      PROVE  RInv'
  <2>1. Goes(c, "reply", cr[c].left, cr[c].taken, 200, t)
    BY <1>5, ReplyGoes DEF IInv
  <2>2. Answers(c, 200, t)
    BY <1>1, <1>2 DEF Answers, WithKey
  <2> QED BY <1>3, <2>1, <2>2, LocalStep DEF Unmade
<1> QED BY <1>4, <1>5 DEF FindKey

LEMMA LookupKeeps ==
  ASSUME IInv, RInv, NEW c \in Creations, Lookup(c)
  PROVE  RInv'
<1>1. cr[c].pc = "lookup" /\ cr[c].key \in Keys
  BY DEF Lookup, At, IInv, Locals, HasKey
<1>2. ~Exists(c)
  BY <1>1, NothingMade DEF Unmade
<1>3. UNCHANGED <<ticket, att, handed>>
  BY DEF Lookup
<1>4. PICK t \in WithKey(cr[c].key) : Reply(c, 200, t)
  <2>1. WithKey(cr[c].key) # {}
    BY <1>1 DEF IInv, Locals, LoserHasWinner, WithKey
  <2> QED BY <2>1 DEF Lookup
<1>5. Goes(c, "reply", cr[c].left, cr[c].taken, 200, t)
  BY <1>4, ReplyGoes DEF IInv
<1>6. Answers(c, 200, t)
  BY <1>1, <1>2 DEF Answers, WithKey
<1> QED BY <1>3, <1>5, <1>6, LocalStep DEF Unmade

LEMMA FailureKeeps ==
  ASSUME IInv, RInv, NEW c \in Creations, Fails(c)
  PROVE  RInv'
<1>1. Goes(c, "reply", {}, {}, 500, cr[c].ticket)
  BY ThrowGoes DEF Fails, IInv
<1>2. Answers(c, 500, cr[c].ticket)
  BY NothingMade DEF Fails, Answers
<1>3. UNCHANGED <<ticket, att, handed>>
  BY DEF Fails
<1> QED BY <1>1, <1>2, <1>3, LocalStep DEF Unmade

LEMMA InsertKeeps ==
  ASSUME IInv, RInv, NEW c \in Creations, Insert(c)
  PROVE  RInv'
<1>1. cr[c].pc = "insert" /\ UNCHANGED <<ticket, att, handed>>
  BY DEF Insert, At
<1>2. cr[c].ticket = NoTicket
  BY <1>1, NothingMade DEF Unmade
<1>3. CASE cr' = [cr EXCEPT ![c].pc = "lookup"]
  <2>1. Goes(c, "lookup", cr[c].left, cr[c].taken, cr[c].code, cr[c].ticket)
    BY <1>3, PcGoes DEF IInv
  <2> QED BY <1>1, <1>2, <2>1, LocalStep
<1>4. CASE cr' = [cr EXCEPT ![c].pc = "attach", ![c].left = cr[c].files,
                            ![c].createdAt = now]
  <2>1. Goes(c, "attach", cr[c].files, cr[c].taken, cr[c].code, cr[c].ticket)
    BY <1>4, BeginGoes DEF IInv
  <2> QED BY <1>1, <1>2, <2>1, LocalStep
<1>5. CASE Throw(c, "P2002")
  BY <1>1, <1>5, FailureKeeps DEF Insert, Fails, Unmade
<1> QED BY <1>3, <1>4, <1>5 DEF Insert

(* Whoever of the attachments asked for does not match is not free: the    *)
(* row exists, so that it is pending, or on a ticket.                      *)
LEMMA AttachKeeps ==
  ASSUME IInv, RInv, NEW c \in Creations, NEW x \in Files, AttachRow(c, x)
  PROVE  RInv'
<1> DEFINE left  == cr[c].left \ {x}
           taken == IF AttachMatches(c, x) THEN cr[c].taken \cup {x}
                                           ELSE cr[c].taken
<1>1. /\ cr[c].pc = "attach" /\ UNCHANGED <<ticket, att, handed>>
      /\ x \in cr[c].files
  BY DEF AttachRow, At, IInv, Locals, LeftIsAsked
<1>2. cr[c].ticket = NoTicket
  BY <1>1, NothingMade DEF Unmade
<1>3. Goes(c, "attach", left, taken, cr[c].code, cr[c].ticket)
  BY AttachGoes DEF IInv
<1>4. \A y \in cr[c].files \ (left \cup taken) : PassedOver(c, y)
  <2>1. \A y \in cr[c].files \ (cr[c].left \cup cr[c].taken) : PassedOver(c, y)
    BY <1>1 DEF RInv, OnlyTakenAreFree, InTransaction, At
  <2>2. ~AttachMatches(c, x) => PassedOver(c, x)
    <3>1. Uploaded(x)
      BY <1>1 DEF RInv, AskedForHanded, IInv, HandedAreUploaded
    <3>2. att[x].status = "pending" \/ att[x].ticketId # NoTicket
      BY <3>1, CreationAssumption
         DEF IInv, TypeOK, AttachmentRow, NewAttachment, Uploaded
    <3> QED BY <3>2 DEF AttachMatches, PassedOver
  <2> QED BY <2>1, <2>2
<1> HIDE DEF left, taken
<1> QED BY <1>1, <1>2, <1>3, <1>4, LocalStep

LEMMA EndKeeps ==
  ASSUME IInv, RInv, NEW c \in Creations,
         Answer(c) \/ TransactionFails(c) \/ QueryFails(c) \/ Crash(c)
  PROVE  RInv'
<1>2. CASE Answer(c)
  <2>1. Goes(c, "done", cr[c].left, cr[c].taken, cr[c].code, cr[c].ticket)
    BY <1>2, PcGoes DEF IInv, Answer
  <2>2. UNCHANGED <<ticket, att, handed>>
    BY <1>2 DEF Answer
  <2> QED BY <2>1, <2>2, LocalStep DEF Unmade
<1>3. CASE TransactionFails(c) \/ QueryFails(c)
  BY <1>3, Failures, FailureKeeps
<1>4. CASE Crash(c)
  <2>1. Goes(c, "done", {}, IF InTransaction(c) THEN {} ELSE cr[c].taken, 0,
             cr[c].ticket)
    BY <1>4, CrashGoes DEF IInv
  <2>2. UNCHANGED <<ticket, att, handed>>
    BY <1>4 DEF Crash
  <2> QED BY <2>1, <2>2, LocalStep DEF Unmade
<1> QED BY <1>2, <1>3, <1>4

LEMMA CommittedRows ==
  ASSUME IInv, NEW c \in Creations, Commit(c), NEW x \in Files
  PROVE  /\ att'[x].uploader = att[x].uploader
         /\ att'[x].ticketId = IF x \in cr[c].taken THEN c ELSE att[x].ticketId
<1>1. att[x] \in AttachmentRow
  BY DEF IInv, TypeOK
<1>2. att'[x] = IF x \in cr[c].taken
                THEN [att[x] EXCEPT !.ticketId = c, !.status = "attached",
                                    !.expiresAt = 0]
                ELSE att[x]
  BY DEF Commit
<1> QED BY <1>1, <1>2 DEF AttachmentRow, NewAttachment

LEMMA CommitKeeps ==
  ASSUME IInv, RInv, NEW c \in Creations, Commit(c)
  PROVE  RInv'
<1>1. Commits(c) /\ UNCHANGED handed
  BY CommitTables DEF Commit
<1> USE <1>1 DEF Commits, Goes, RInv
<1>2. NotYetAsked' /\ AskedForHanded'
  BY DEF NotYetAsked, AskedForHanded
<1>3. OnlyTakenAreFree'
  <2> SUFFICES ASSUME NEW o \in Creations, InTransaction(o)',
                      NEW x \in cr'[o].files \ (cr'[o].left \cup cr'[o].taken)
               PROVE  PassedOver(o, x)'
    BY DEF OnlyTakenAreFree
  <2>1. o # c /\ cr'[o] = cr[o] /\ InTransaction(o)
    BY DEF InTransaction, At
  <2>2. PassedOver(o, x)
    BY <2>1 DEF OnlyTakenAreFree
  <2>3. x \in Files
    BY <2>1 DEF IInv, TypeOK, CreationLocals
  <2> QED BY <2>1, <2>2, <2>3, CommittedRows, CreationAssumption DEF PassedOver
<1>4. \A t \in Creations : Exists(t) => t # c /\ ticket'[t] = ticket[t]
  OBVIOUS
<1>5. RepliesAreTrue'
  <2> SUFFICES ASSUME NEW o \in Creations
               PROVE  /\ cr'[o].pc = "reply" =>
                           Answers(o, cr[o].code, cr[o].ticket)'
                      /\ cr'[o].pc \in Unmade => cr'[o].ticket = NoTicket
    BY DEF RepliesAreTrue
  <2>1. CASE o = c
    BY <2>1 DEF Answers, Exists, Unmade
  <2>2. CASE o # c
    <3>1. cr'[o] = cr[o] /\ ticket'[o] = ticket[o]
      BY <2>2
    <3>2. cr[o].pc = "reply" => Answers(o, cr[o].code, cr[o].ticket)
      BY DEF RepliesAreTrue
    <3>3. cr[o].pc \in Unmade => cr[o].ticket = NoTicket
      BY DEF RepliesAreTrue
    <3> QED BY <1>4, <3>1, <3>2, <3>3 DEF Answers, Exists
  <2> QED BY <2>1, <2>2
<1> QED BY <1>2, <1>3, <1>5

(* A request arrives. *)
Arrives(c, u, k, files) ==
  /\ cr[c].pc = "idle"
  /\ \A o \in Creations \ {c} : cr'[o] = cr[o]
  /\ cr'[c].pc \in {"find", "insert"}
  /\ cr'[c].user = u /\ cr'[c].key = k /\ cr'[c].files = files
  /\ cr'[c].code = 0 /\ cr'[c].ticket = NoTicket
  /\ files \subseteq handed
  /\ UNCHANGED <<ticket, att, handed>>

LEMMA ReceiveArrives ==
  ASSUME IInv, NEW c \in Creations, NEW u \in Users,
         NEW k \in Keys \cup {EmptyKey, NoKey}, NEW files \in SUBSET Files,
         Receive(c, u, k, files)
  PROVE  Arrives(c, u, k, files)
BY DEF Receive, At, IInv, TypeOK, IdleCreation, Arrives

LEMMA ArrivalKeeps ==
  ASSUME IInv, RInv, NEW c \in Creations, NEW u, NEW k, NEW files,
         Arrives(c, u, k, files)
  PROVE  RInv'
<1> USE DEF Arrives, RInv
<1>1. NotYetAsked' /\ AskedForHanded'
  BY DEF NotYetAsked, AskedForHanded
<1>2. OnlyTakenAreFree'
  BY DEF OnlyTakenAreFree, InTransaction, At, PassedOver
<1>3. RepliesAreTrue'
  BY DEF RepliesAreTrue, Answers, Exists
<1> QED BY <1>1, <1>2, <1>3

(* A step that is not a creation's. *)
LEMMA BystanderKeeps ==
  ASSUME IInv, RInv, UNCHANGED <<ticket, cr>>, handed \subseteq handed',
         \A x \in Files : Uploaded(x) => att'[x] = att[x]
  PROVE  RInv'
<1> USE DEF RInv
<1>1. NotYetAsked' /\ AskedForHanded'
  BY DEF NotYetAsked, AskedForHanded
<1>2. OnlyTakenAreFree'
  <2>1. \A c \in Creations : \A x \in cr[c].files : x \in Files /\ Uploaded(x)
    BY DEF AskedForHanded, IInv, HandedAreUploaded, TypeOK
  <2> QED BY <2>1 DEF OnlyTakenAreFree, InTransaction, At, PassedOver
<1>3. RepliesAreTrue'
  BY DEF RepliesAreTrue, Answers, Exists
<1> QED BY <1>1, <1>2, <1>3

LEMMA NextRInv ==
  ASSUME IInv, RInv, [Next]_vars
  PROVE  RInv'
<1>1. ASSUME NEW c \in Creations, Create(c)
      PROVE  RInv'
  <2>1. ASSUME NEW u \in Users, NEW k \in Keys \cup {EmptyKey, NoKey},
               NEW files \in SUBSET Files, Receive(c, u, k, files)
        PROVE  RInv'
    BY <2>1, ReceiveArrives, ArrivalKeeps
  <2> QED BY <1>1, <2>1, FindKeyKeeps, InsertKeeps, AttachKeeps, CommitKeeps,
             LookupKeeps, EndKeeps DEF Create, BreakDeadlock
<1>2. ASSUME NEW x \in Files, Upload(x)
      PROVE  RInv'
  <2>1. handed \subseteq handed'
    BY <1>2 DEF Upload, UploadRow, UploadAnswer
  <2> QED BY <1>2, <2>1, UploadSteps, BystanderKeeps
<1>3. ASSUME UNCHANGED <<ticket, att, handed, cr>>
      PROVE  RInv'
  BY <1>3, BystanderKeeps
<1> QED BY <1>1, <1>2, <1>3
        DEF Next, Tick, vars, Download, DownloadRead, DownloadAccess,
            DownloadEvent, DownloadFails

-----------------------------------------------------------------------------
(* The steps of the ledger. *)

(* A step of c that makes nothing and tells nobody anything. *)
LEMMA Stutters ==
  ASSUME TypeOK, NEW c \in Creations,
         NEW pc, NEW left, NEW taken, NEW code, NEW t,
         Goes(c, pc, left, taken, code, t), UNCHANGED <<ticket, att>>,
         cr[c].pc # "done", pc # "done" \/ code = 0
  PROVE  UNCHANGED Ledger!vars
<1>1. \A o \in Creations :
        /\ cr'[o].user = cr[o].user /\ cr'[o].key = cr[o].key
        /\ cr'[o].files = cr[o].files
  BY DEF Goes
<1>2. ~Told(c) /\ ~Told(c)'
  BY DEF Goes, Told, At
<1>3. \A o \in Creations :
        /\ Told(o)' = Told(o)
        /\ Told(o) => cr'[o] = cr[o]
  BY <1>2 DEF Goes, Told, At
<1> QED BY <1>1, <1>3 DEF Ledger!vars

LEMMA NothingChanges ==
  ASSUME UNCHANGED <<ticket, att, cr>>
  PROVE  UNCHANGED Ledger!vars
BY DEF Ledger!vars, Told, At

LEMMA CreationStutters ==
  ASSUME IInv, NEW c \in Creations,
         \/ FindKey(c) \/ Insert(c) \/ \E x \in Files : AttachRow(c, x)
         \/ Lookup(c) \/ TransactionFails(c) \/ QueryFails(c) \/ Crash(c)
  PROVE  UNCHANGED Ledger!vars
<1> USE DEF IInv
<1>1. CASE FindKey(c)
  <2>1. \/ Goes(c, "insert", cr[c].left, cr[c].taken, cr[c].code, cr[c].ticket)
        \/ \E t \in WithKey(cr[c].key) :
             Goes(c, "reply", cr[c].left, cr[c].taken, 200, t)
    BY <1>1, PcGoes, ReplyGoes DEF FindKey
  <2> QED BY <1>1, <2>1, Stutters DEF FindKey, At
<1>2. CASE Insert(c)
  <2>1. \/ Goes(c, "lookup", cr[c].left, cr[c].taken, cr[c].code, cr[c].ticket)
        \/ Goes(c, "attach", cr[c].files, cr[c].taken, cr[c].code, cr[c].ticket)
        \/ Goes(c, "reply", {}, {}, 500, cr[c].ticket)
    BY <1>2, PcGoes, BeginGoes, ThrowGoes DEF Insert
  <2> QED BY <1>2, <2>1, Stutters DEF Insert, At
<1>3. ASSUME NEW x \in Files, AttachRow(c, x)
      PROVE  UNCHANGED Ledger!vars
  BY <1>3, AttachGoes, Stutters DEF AttachRow, At
<1>4. CASE Lookup(c)
  <2>1. \/ Goes(c, "reply", {}, {}, 500, cr[c].ticket)
        \/ \E t \in WithKey(cr[c].key) :
             Goes(c, "reply", cr[c].left, cr[c].taken, 200, t)
    BY <1>4, ReplyGoes, ThrowGoes DEF Lookup
  <2> QED BY <1>4, <2>1, Stutters DEF Lookup, At
<1>5. CASE TransactionFails(c) \/ QueryFails(c)
  <2>1. Fails(c)
    BY <1>5, Failures
  <2>2. Goes(c, "reply", {}, {}, 500, cr[c].ticket)
    BY <2>1, ThrowGoes DEF Fails
  <2>3. cr[c].pc # "done" /\ UNCHANGED <<ticket, att>>
    BY <2>1 DEF Fails, Unmade
  <2> QED BY <2>2, <2>3, Stutters
<1>6. CASE Crash(c)
  BY <1>6, CrashGoes, Stutters DEF Crash
<1> QED BY <1>1, <1>2, <1>3, <1>4, <1>5, <1>6

(* The request is what its client asked for. *)
LEMMA ReceiveAsks ==
  ASSUME IInv, RInv, NEW c \in Creations, NEW u \in Users,
         NEW k \in Keys \cup {EmptyKey, NoKey}, NEW files \in SUBSET Files,
         Arrives(c, u, k, files)
  PROVE  Ledger!Ask(c, u, k, files)
<1>1. cr[c].user = NoUser
  BY DEF Arrives, RInv, NotYetAsked
<1>2. ~Told(c) /\ ~Told(c)'
  BY DEF Arrives, Told, At
<1>3. \A o \in Creations : o # c => cr'[o] = cr[o] /\ Told(o)' = Told(o)
  BY DEF Arrives, Told, At
<1> QED BY <1>1, <1>2, <1>3 DEF Ledger!Ask, Arrives

(* The commit is the creation. *)
LEMMA CommitMakes ==
  ASSUME IInv, RInv, NEW c \in Creations, Commit(c)
  PROVE  Ledger!Make(c)
<1>1. Commits(c)
  BY CommitTables
<1>2. InTransaction(c) /\ ~Told(c) /\ ~Told(c)' /\ cr[c].left = {}
  BY <1>1 DEF Commits, Goes, InTransaction, At, Told
<1>3. cr[c].user # NoUser
  BY <1>2, CreationAssumption DEF InTransaction, At, IInv, Locals, Asked
<1>4. ~Exists(c)
  BY <1>1 DEF Commits
<1>5. cr[c].key = NoKey
      \/ \A t \in Creations : Exists(t) => ticket[t].key # cr[c].key
  BY <1>2 DEF IInv, Locals, KeyIsHeld
<1>6. \A x \in Files :
        x \in cr[c].taken <=> /\ x \in cr[c].files
                              /\ att[x].uploader = cr[c].user
                              /\ att[x].ticketId = NoTicket
  <2>1. \A x \in cr[c].taken : AttachMatches(c, x) /\ x \in cr[c].files
    BY <1>2 DEF IInv, Locals, TakenIsHeld
  <2>2. \A x \in cr[c].files \ cr[c].taken : PassedOver(c, x)
    BY <1>2 DEF RInv, OnlyTakenAreFree
  <2> QED BY <2>1, <2>2 DEF AttachMatches, PassedOver
<1>7. cr[c].files \subseteq Files
  BY DEF IInv, TypeOK, CreationLocals
<1>8. \A o \in Creations :
        /\ cr'[o].user = cr[o].user /\ cr'[o].key = cr[o].key
        /\ cr'[o].files = cr[o].files
        /\ Told(o)' = Told(o)
        /\ Told(o) => cr'[o] = cr[o]
  BY <1>1, <1>2 DEF Commits, Goes, Told, At
<1>9. \A x \in Files :
        /\ att'[x].uploader = att[x].uploader
        /\ att'[x].ticketId = IF x \in cr[c].taken THEN c ELSE att[x].ticketId
  BY CommittedRows
<1> DEFINE made  == [t \in Creations |-> [reporter |-> ticket[t].reporter,
                                           key |-> ticket[t].key]]
           owner == [x \in Files |-> [uploader |-> att[x].uploader,
                                       ticket |-> att[x].ticketId]]
           asked == [o \in Creations |-> [user |-> cr[o].user,
                                          key |-> cr[o].key,
                                          files |-> cr[o].files]]
           told  == [o \in Creations |->
                      [code |-> IF Told(o) THEN cr[o].code ELSE 0,
                       ticket |-> IF Told(o) THEN cr[o].ticket ELSE NoTicket]]
           free  == {x \in asked[c].files : owner[x].uploader = asked[c].user
                                            /\ owner[x].ticket = NoTicket}
<1>10. made' = [made EXCEPT ![c] = [reporter |-> asked[c].user,
                                    key |-> asked[c].key]]
  BY <1>1 DEF Commits
<1>11. owner' = [x \in Files |-> IF x \in free
                                 THEN [owner[x] EXCEPT !.ticket = c]
                                 ELSE owner[x]]
  <2>1. \A x \in Files : x \in free <=> x \in cr[c].taken
    BY <1>6, <1>7
  <2> HIDE DEF free
  <2> QED BY <1>9, <2>1
<1>12. UNCHANGED <<asked, told>>
  BY <1>8
<1>13. /\ asked[c].user # NoUser /\ told[c].code = 0
       /\ ~Ledger!Exists(c)
       /\ \/ asked[c].key = NoKey
          \/ \A t \in Creations :
               Ledger!Exists(t) => made[t].key # asked[c].key
  BY <1>2, <1>3, <1>4, <1>5 DEF Ledger!Exists, Exists
<1> QED BY <1>10, <1>11, <1>12, <1>13 DEF Ledger!Make, Ledger!Free

(* The client is told. *)
LEMMA AnswerTells ==
  ASSUME IInv, RInv, NEW c \in Creations, Answer(c)
  PROVE  \E code \in {200, 201, 500}, t \in Creations \cup {NoTicket} :
           Ledger!Tell(c, code, t)
<1>1. /\ Goes(c, "done", cr[c].left, cr[c].taken, cr[c].code, cr[c].ticket)
      /\ cr[c].pc = "reply" /\ UNCHANGED <<ticket, att>>
  BY PcGoes DEF Answer, At, IInv
<1> PICK code \in {200, 201, 500}, t \in Creations \cup {NoTicket} :
      code = cr[c].code /\ t = cr[c].ticket /\ Answers(c, code, t)
  BY <1>1 DEF RInv, RepliesAreTrue, Answers
<1>3. cr[c].user # NoUser
  BY <1>1, CreationAssumption DEF IInv, Locals, Asked
<1>4. ~Told(c) /\ Told(c)'
  BY <1>1 DEF Goes, Told, At
<1>5. \A o \in Creations :
        /\ cr'[o].user = cr[o].user /\ cr'[o].key = cr[o].key
        /\ cr'[o].files = cr[o].files
        /\ o # c => cr'[o] = cr[o] /\ Told(o)' = Told(o)
  BY <1>1 DEF Goes, Told, At
<1>6. cr'[c].code = code /\ cr'[c].ticket = t
  BY <1>1 DEF Goes
<1> DEFINE made  == [o \in Creations |-> [reporter |-> ticket[o].reporter,
                                          key |-> ticket[o].key]]
           owner == [x \in Files |-> [uploader |-> att[x].uploader,
                                      ticket |-> att[x].ticketId]]
           asked == [o \in Creations |-> [user |-> cr[o].user,
                                          key |-> cr[o].key,
                                          files |-> cr[o].files]]
           told  == [o \in Creations |->
                      [code |-> IF Told(o) THEN cr[o].code ELSE 0,
                       ticket |-> IF Told(o) THEN cr[o].ticket ELSE NoTicket]]
<1>7. told' = [told EXCEPT ![c] = [code |-> code, ticket |-> t]]
  BY <1>4, <1>5, <1>6
<1>8. UNCHANGED <<made, owner, asked>>
  BY <1>1, <1>5
<1>9. asked[c].user # NoUser /\ told[c].code = 0
  BY <1>3, <1>4
<1>10. \A o \in Creations : Exists(o) <=> Ledger!Exists(o)
  BY DEF Exists, Ledger!Exists
<1>11. \/ code = 201 /\ t = c /\ Ledger!Exists(c)
       \/ /\ code = 200 /\ t \in Creations /\ Ledger!Exists(t) /\ ~Ledger!Exists(c)
          /\ asked[c].key # NoKey /\ made[t].key = asked[c].key
       \/ code = 500 /\ t = NoTicket /\ ~Ledger!Exists(c)
  BY <1>10, CreationAssumption DEF Answers
<1>12. Ledger!Tell(c, code, t)
  BY <1>7, <1>8, <1>9, <1>11 DEF Ledger!Tell
<1> QED BY <1>12

LEMMA RowUploads ==
  ASSUME IInv, NEW x \in Files, NEW u \in Users, UploadRow(x, u)
  PROVE  Ledger!Upload(x, u)
<1>1. att[x].uploader = NoUser /\ att[x].ticketId = NoTicket
  BY DEF UploadRow, Uploaded, IInv, TypeOK, AttachmentRow, NewAttachment
<1>2. /\ att'[x].uploader = u /\ att'[x].ticketId = NoTicket
      /\ \A y \in Files \ {x} : att'[y] = att[y]
      /\ UNCHANGED <<ticket, cr>>
  BY DEF UploadRow, IInv, TypeOK
<1> QED BY <1>1, <1>2 DEF Ledger!Upload, Told, At

LEMMA LedgerStep ==
  ASSUME IInv, RInv, [Next]_vars
  PROVE  [Ledger!Next]_(Ledger!vars)
<1>1. ASSUME NEW c \in Creations, Create(c)
      PROVE  [Ledger!Next]_(Ledger!vars)
  <2>1. ASSUME NEW u \in Users, NEW k \in Keys \cup {EmptyKey, NoKey},
               NEW files \in SUBSET Files, Receive(c, u, k, files)
        PROVE  Ledger!Next
    BY <2>1, ReceiveArrives, ReceiveAsks DEF Ledger!Next
  <2>2. CASE Commit(c)
    BY <2>2, CommitMakes DEF Ledger!Next
  <2>3. CASE Answer(c)
    BY <2>3, AnswerTells DEF Ledger!Next
  <2> QED BY <1>1, <2>1, <2>2, <2>3, CreationStutters DEF Create, BreakDeadlock
<1>2. ASSUME NEW x \in Files, Upload(x)
      PROVE  [Ledger!Next]_(Ledger!vars)
  <2>1. CASE UploadAnswer(x)
    BY <2>1, NothingChanges DEF UploadAnswer
  <2>2. ASSUME NEW u \in Users, UploadRow(x, u)
        PROVE  Ledger!Next
    BY <2>2, RowUploads DEF Ledger!Next
  <2> QED BY <1>2, <2>1, <2>2 DEF Upload
<1>3. ASSUME UNCHANGED <<ticket, att, cr>>
      PROVE  [Ledger!Next]_(Ledger!vars)
  BY <1>3, NothingChanges
<1> QED BY <1>1, <1>2, <1>3
        DEF Next, Tick, vars, Download, DownloadRead, DownloadAccess,
            DownloadEvent, DownloadFails

LEMMA InitLedger ==
  ASSUME Init
  PROVE  Ledger!Init
BY DEF Init, Ledger!Init, NoRow, NewAttachment, IdleCreation, Told, At

(***************************************************************************)
(* TicketsService.create is as good as one atomic step: whatever races it  *)
(* runs, the ticket it makes takes every attachment that was asked for, is *)
(* its reporter's and was free when it committed, and no other, and every  *)
(* client is told of it what is then so.                                   *)
(***************************************************************************)
THEOREM CreationsImplementTheLedger == Spec => ImplementsLedger
<1>1. Init => Ledger!Init /\ RInv
  BY InitLedger, InitRInv
<1>2. IInv /\ RInv /\ [Next]_vars => RInv' /\ [Ledger!Next]_(Ledger!vars)
  BY NextRInv, LedgerStep
<1> QED BY <1>1, <1>2, Invariance, PTL
           DEF Spec, ImplementsLedger, Ledger!Spec
=============================================================================
