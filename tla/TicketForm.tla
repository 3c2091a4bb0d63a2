----------------------------- MODULE TicketForm ----------------------------
(***************************************************************************)
(* The page that creates tickets: the form, the uploads of its attachments *)
(* field, each of which goes on with the list it began with, the submit    *)
(* and its answer, and what the API does with each call.  A creation is    *)
(* atomic: TicketCreation is shown to implement such a step                *)
(* (CreationLedger), for the fresh key that every submit draws.            *)
(*                                                                         *)
(* A text is its length once it is trimmed, in UTF-16 units, as the form   *)
(* measures it, and what the API takes off that before it measures: the    *)
(* blanks after the first of each run, which it removes, and the units     *)
(* that MinLength does not count, one of every surrogate pair.  What only  *)
(* shows a notice is left out: showValidation, submitError, fileError,     *)
(* warning, dragActive.                                                    *)
(***************************************************************************)
EXTENDS Integers, Sequences, FiniteSets

CONSTANTS
  Titles, Descriptions,  \* the texts a user types
  Severities, Impacts,   \* the levels a user picks
  Picks,                 \* the files a user may pick, by extension and size
  Files,                 \* attachment ids
  NoFile,                \* no id yet
  Slots,                 \* calls of handleFiles under way
  MAX_ATTACHMENTS,       \* of the form, and ArrayMaxSize of the API
  MaxSubmits,            \* bound: submits that are sent
  MaxFaults              \* bound: calls that fail

TITLE_MIN == 5
TITLE_MAX == 200
DESCRIPTION_MIN == 20
DESCRIPTION_MAX == 5000
MAX_FILE_BYTES == 10485760

Text ==
  {text \in [length : Nat, blanks : Nat, uncounted : Nat] :
     text.blanks + text.uncounted <= text.length}

(* The length of a text as the API counts it. *)
Counted(text) == text.length - text.blanks - text.uncounted

ASSUME FormAssumption ==
  /\ Titles \subseteq Text /\ Descriptions \subseteq Text
  /\ Severities \subseteq 1 .. 4 /\ Impacts \subseteq 1 .. 4
  /\ IsFiniteSet(Picks) /\ IsFiniteSet(Files) /\ NoFile \notin Files
  /\ MAX_ATTACHMENTS \in Nat
  /\ MaxSubmits \in Nat /\ MaxFaults \in Nat

VARIABLES
  form,      \* the fields, and the ticket on the success panel
  uploads,   \* the calls of handleFiles
  call,      \* the submit under way
  tickets,   \* the tickets that were made, by number
  drawn,     \* the attachment ids the API has given
  stored,    \* those whose content is in the bucket
  outlived,  \* an upload outlived a removal, or its form
  submits,   \* submits so far
  faults     \* failures so far

api == <<tickets, drawn, stored, faults>>
ghosts == <<outlived, submits>>
vars == <<form, uploads, call, api, ghosts>>

-----------------------------------------------------------------------------
(* Priorities *)

(* The preview of the form. *)
computePriority(severity, impact) ==
  LET sum == severity + impact
  IN CASE sum >= 7 -> "critica"
       [] sum >= 5 /\ sum < 7 -> "alta"
       [] sum >= 4 /\ sum < 5 -> "media"
       [] OTHER -> "baja"

(* What the API stores. *)
calculatePriority(severity, impact) ==
  LET score == severity + impact
  IN IF score >= 7 THEN "critica"
     ELSE IF score >= 5 THEN "alta"
     ELSE IF score >= 4 THEN "media" ELSE "baja"

Priorities == {"critica", "alta", "media", "baja"}

(* The hours the form promises, and the minutes of the rules. *)
SLA_RESOLVE_LABELS ==
  [critica |-> 1, alta |-> 4, media |-> 8, baja |-> 24]

timeToResolveMinutes ==
  [critica |-> 60, alta |-> 240, media |-> 480, baja |-> 1440]

-----------------------------------------------------------------------------
(* The form *)

NoTicket == 0
NoText == [length |-> 0, blanks |-> 0, uncounted |-> 0]

(* Since the form was fresh, with `before` tickets made: the files the     *)
(* user took off the list, and the submits that failed.                    *)
Fresh(before) ==
  [type |-> "incidente", title |-> NoText, description |-> NoText,
   severity |-> 2, impact |-> 2, desiredDate |-> FALSE, attachments |-> {},
   created |-> NoTicket, before |-> before, removed |-> {}, failed |-> 0]

NoUpload ==
  [on |-> FALSE, mounted |-> FALSE, base |-> {}, left |-> 0, uploaded |-> {},
   current |-> NoFile]

NoBody ==
  [title |-> NoText, description |-> NoText, severity |-> 2, impact |-> 2,
   attachments |-> {}]

NoCall == [on |-> FALSE, served |-> FALSE, ticket |-> NoTicket, body |-> NoBody]

FormType ==
  [type : {"incidente", "solicitud"}, title : Text, description : Text,
   severity : 1 .. 4, impact : 1 .. 4, desiredDate : BOOLEAN,
   attachments : SUBSET Files, created : Nat, before : Nat,
   removed : SUBSET Files, failed : Nat]

UploadType ==
  [on : BOOLEAN, mounted : BOOLEAN, base : SUBSET Files, left : Nat,
   uploaded : SUBSET Files, current : Files \cup {NoFile}]

BodyType ==
  [title : Text, description : Text, severity : 1 .. 4, impact : 1 .. 4,
   attachments : SUBSET Files]

CallType ==
  [on : BOOLEAN, served : BOOLEAN, ticket : Nat, body : BodyType]

Init ==
  /\ form = Fresh(0)
  /\ uploads = [s \in Slots |-> NoUpload]
  /\ call = NoCall
  /\ tickets = <<>>
  /\ drawn = {} /\ stored = {}
  /\ outlived = FALSE /\ submits = 0 /\ faults = 0

(* The success panel takes the place of the form. *)
FormShown == form.created = NoTicket

submitting == call.on

isSolicitud == form.type = "solicitud"

estimatedPriority == computePriority(form.severity, form.impact)

(* "Fecha deseada: 2026-01-31 - ", before the description. *)
DATE_PREFIX == 28

finalDescription ==
  IF isSolicitud /\ form.desiredDate
  THEN [form.description EXCEPT !.length = DATE_PREFIX + @]
  ELSE form.description

TitleError == form.title.length \notin TITLE_MIN .. TITLE_MAX

DescriptionError ==
  \/ form.description.length \notin DESCRIPTION_MIN .. DESCRIPTION_MAX
  \/ finalDescription.length > DESCRIPTION_MAX

hasErrors == TitleError \/ DescriptionError

Edit(edited) ==
  /\ FormShown /\ edited # form
  /\ form' = edited
  /\ UNCHANGED <<uploads, call, api, ghosts>>

SetType == \E type \in {"incidente", "solicitud"} : Edit([form EXCEPT !.type = type])

SetTitle ==
  \E text \in Titles :
    text.length <= TITLE_MAX /\ Edit([form EXCEPT !.title = text])

SetDescription ==
  \E text \in Descriptions :
    text.length <= DESCRIPTION_MAX /\ Edit([form EXCEPT !.description = text])

SetDesiredDate ==
  \E given \in BOOLEAN :
    isSolicitud /\ Edit([form EXCEPT !.desiredDate = given])

(* Groups of levels that a submit does not disable. *)
SetLevelsAnyTime ==
  \/ \E level \in Severities : Edit([form EXCEPT !.severity = level])
  \/ \E level \in Impacts : Edit([form EXCEPT !.impact = level])

(* The two groups of levels are disabled while a submit is under way. *)
SetLevels ==
  /\ ~submitting
  /\ \/ \E level \in Severities : Edit([form EXCEPT !.severity = level])
     \/ \E level \in Impacts : Edit([form EXCEPT !.impact = level])

-----------------------------------------------------------------------------
(* Attachments *)

(* The field is not the one a former form had. *)
uploading == \E s \in Slots : uploads[s].on /\ uploads[s].mounted

EXT_CONTENT_TYPES ==
  {"pdf", "png", "jpg", "jpeg", "docx", "xlsx", "txt", "log"}

Accepted(files) ==
  {file \in files : /\ file.ext \in EXT_CONTENT_TYPES
                    /\ file.size \in 1 .. MAX_FILE_BYTES}

(* One that counts only the files of the list. *)
RoomForListOnly(accepted) == Cardinality(form.attachments) <= MAX_ATTACHMENTS

RoomFor(accepted) ==
  Cardinality(form.attachments) + Cardinality(accepted) <= MAX_ATTACHMENTS

(* handleFiles up to its first await: it keeps the list of this render. *)
HandleFiles(s, files) ==
  LET accepted == Accepted(files)
  IN /\ FormShown /\ ~submitting /\ ~uploading
     /\ accepted # {} /\ RoomFor(accepted)
     /\ ~uploads[s].on
     /\ uploads' = [uploads EXCEPT ![s] =
          [on |-> TRUE, mounted |-> TRUE, base |-> form.attachments,
           left |-> Cardinality(accepted), uploaded |-> {}, current |-> NoFile]]
     /\ UNCHANGED <<form, call, api, ghosts>>

Fault == faults < MaxFaults /\ faults' = faults + 1

(* requestUpload answers with the id of a new row. *)
RequestUpload(s, f) ==
  /\ uploads[s].on /\ uploads[s].current = NoFile
  /\ f \in Files \ drawn
  /\ drawn' = drawn \cup {f}
  /\ uploads' = [uploads EXCEPT ![s].current = f]
  /\ UNCHANGED <<form, call, tickets, stored, faults, ghosts>>

(* After a file the loop goes on, or the list of the page becomes the one  *)
(* handleFiles began with, and the files of this call.                     *)
NextFile(s, uploaded) ==
  LET u == uploads[s]
  IN IF u.left > 1
     THEN /\ uploads' = [uploads EXCEPT ![s].left = @ - 1,
                           ![s].uploaded = uploaded, ![s].current = NoFile]
          /\ UNCHANGED form
     ELSE /\ uploads' = [uploads EXCEPT ![s] = NoUpload]
          /\ form' = IF uploaded = {} THEN form
                     ELSE [form EXCEPT !.attachments = u.base \cup uploaded]

(* The content reaches the bucket. *)
Put(s) ==
  LET f == uploads[s].current
  IN /\ uploads[s].on /\ f # NoFile
     /\ stored' = stored \cup {f}
     /\ NextFile(s, uploads[s].uploaded \cup {f})
     /\ UNCHANGED <<call, tickets, drawn, faults, ghosts>>

(* Either call fails: the loop goes on without the file. *)
UploadFails(s) ==
  /\ uploads[s].on
  /\ Fault
  /\ NextFile(s, uploads[s].uploaded)
  /\ UNCHANGED <<call, tickets, drawn, stored, ghosts>>

(* "Quitar": never disabled. *)
Remove(f) ==
  /\ FormShown /\ f \in form.attachments
  /\ form' = [form EXCEPT !.attachments = @ \ {f}, !.removed = @ \cup {f}]
  /\ outlived' = (outlived \/ \E s \in Slots : f \in uploads[s].base)
  /\ UNCHANGED <<uploads, call, api, submits>>

-----------------------------------------------------------------------------
(* The submit *)

(* A submit that is not held back by the one under way. *)
OnSubmitAgain ==
  /\ FormShown /\ ~hasErrors
  /\ submits < MaxSubmits /\ submits' = submits + 1
  /\ call' = [on |-> TRUE, served |-> FALSE, ticket |-> NoTicket, body |->
       [title |-> form.title, description |-> finalDescription,
        severity |-> form.severity, impact |-> form.impact,
        attachments |-> form.attachments]]
  /\ UNCHANGED <<form, uploads, api, outlived>>

(* onSubmit up to its await; an upload under way does not hold it back. *)
OnSubmit ==
  /\ FormShown /\ ~hasErrors /\ ~submitting
  /\ submits < MaxSubmits /\ submits' = submits + 1
  /\ call' = [on |-> TRUE, served |-> FALSE, ticket |-> NoTicket, body |->
       [title |-> form.title, description |-> finalDescription,
        severity |-> form.severity, impact |-> form.impact,
        attachments |-> form.attachments]]
  /\ UNCHANGED <<form, uploads, api, outlived>>

(* What CreateTicketDto lets through. *)
ValidBody(body) ==
  /\ Counted(body.title) \in TITLE_MIN .. TITLE_MAX
  /\ Counted(body.description) \in DESCRIPTION_MIN .. DESCRIPTION_MAX
  /\ body.severity \in 1 .. 4 /\ body.impact \in 1 .. 4
  /\ Cardinality(body.attachments) <= MAX_ATTACHMENTS

Taken(last) == UNION {tickets[i].attachments : i \in 1 .. last}

(* create: a ticket with those of its attachments no ticket has. *)
Created(body) ==
  LET priority == calculatePriority(body.severity, body.impact)
  IN [priority |-> priority, minutes |-> timeToResolveMinutes[priority],
      attachments |-> body.attachments \ Taken(Len(tickets))]

Make == tickets' = Append(tickets, Created(call.body))

Served(ticket) ==
  /\ call' = [call EXCEPT !.served = TRUE, !.ticket = ticket]
  /\ UNCHANGED <<form, uploads, drawn, stored, ghosts>>

(* The API answers with a ticket, with 400, or not at all, and then the    *)
(* ticket may have been made.                                              *)
ServeCreate ==
  /\ call.on /\ ~call.served
  /\ \/ /\ ValidBody(call.body) /\ Make
        /\ Served(Len(tickets) + 1) /\ UNCHANGED faults
     \/ ~ValidBody(call.body) /\ Served(NoTicket) /\ UNCHANGED <<tickets, faults>>
     \/ /\ Fault /\ Served(NoTicket)
        /\ (ValidBody(call.body) /\ Make) \/ UNCHANGED tickets

(* The form, and its field with what it uploads, give way to the panel. *)
SubmitSucceeds ==
  /\ call.on /\ call.served /\ call.ticket # NoTicket
  /\ call' = NoCall
  /\ form' = [form EXCEPT !.created = call.ticket]
  /\ uploads' = [s \in Slots |-> [uploads[s] EXCEPT !.mounted = FALSE]]
  /\ outlived' = (outlived \/ \E s \in Slots : uploads[s].on)
  /\ UNCHANGED <<api, submits>>

SubmitFails ==
  /\ call.on /\ call.served /\ call.ticket = NoTicket
  /\ call' = NoCall
  /\ form' = [form EXCEPT !.failed = @ + 1]
  /\ UNCHANGED <<uploads, api, ghosts>>

(* A reset that forgets the attachments. *)
ResetFormKeepingFiles ==
  /\ ~FormShown
  /\ form' = [Fresh(Len(tickets)) EXCEPT !.attachments = form.attachments]
  /\ UNCHANGED <<uploads, call, api, ghosts>>

(* "Crear otro": resetForm. *)
ResetForm ==
  /\ ~FormShown
  /\ form' = Fresh(Len(tickets))
  /\ UNCHANGED <<uploads, call, api, ghosts>>

(* The page is left, and opened again later.  What it uploads reaches no   *)
(* page; a submit that was sent is served all the same, here before.       *)
Leave ==
  /\ call.on => call.served
  /\ form' = Fresh(Len(tickets))
  /\ uploads' = [s \in Slots |-> NoUpload]
  /\ call' = NoCall
  /\ UNCHANGED <<api, ghosts>>

-----------------------------------------------------------------------------
EditStep ==
  SetType \/ SetTitle \/ SetDescription \/ SetDesiredDate \/ SetLevels

UploadStep ==
  \/ \E s \in Slots :
       \/ \E files \in SUBSET Picks : HandleFiles(s, files)
       \/ \E f \in Files : RequestUpload(s, f)
       \/ Put(s) \/ UploadFails(s)
  \/ \E f \in Files : Remove(f)

SubmitStep ==
  OnSubmit \/ ServeCreate \/ SubmitSucceeds \/ SubmitFails

Next == EditStep \/ UploadStep \/ SubmitStep \/ ResetForm \/ Leave

Spec == Init /\ [][Next]_vars

-----------------------------------------------------------------------------
(* Properties *)

(* The shape of every variable. *)
TypeOK ==
  /\ form \in FormType
  /\ uploads \in [Slots -> UploadType]
  /\ call \in CallType
  /\ tickets \in
       Seq([priority : Priorities, minutes : Nat, attachments : SUBSET Files])
  /\ drawn \subseteq Files /\ stored \subseteq Files
  /\ outlived \in BOOLEAN /\ submits \in Nat /\ faults \in Nat

(* A text that is long enough for the form, and too short for the API. *)
Shrinks(text, least) == Counted(text) < least /\ least <= text.length

(* The API refuses no body the form lets through, whatever was edited,     *)
(* uploaded or removed meanwhile, by uploads of former forms too: not for  *)
(* its number of attachments, nor for a text that is too long, but only    *)
(* for one that has its least length in the form through blanks or         *)
(* surrogate pairs that the API counts as less (CreateTicketPage.tsx, 138, *)
(* 142; create-ticket.dto.ts, 16, 29, 35).                                 *)
OnlyShrinkingTextsAreRefused ==
  call.on /\ ~ValidBody(call.body) =>
    \/ Shrinks(call.body.title, TITLE_MIN)
    \/ Shrinks(call.body.description, DESCRIPTION_MIN)

(* The list names only files whose content was stored, none the user took  *)
(* off it and none an earlier ticket has, unless an upload went on while   *)
(* a file of its list was removed or after its form was gone (line 121).   *)
ListIsTrue ==
  /\ form.attachments \subseteq stored
  /\ ~outlived => form.attachments \cap (form.removed \cup Taken(form.before)) = {}

(* A form makes one ticket, and another only after a submit that failed:   *)
(* no second click nor an edit in the middle of a submit makes one.        *)
SecondTicketNeedsAFailure ==
  Len(tickets) - form.before <=
    form.failed + (IF call.on \/ ~FormShown THEN 1 ELSE 0)

(* The priority on the success panel, and its due date, are those that the *)
(* form announced (computePriority; SLA_RESOLVE_LABELS).                   *)
EstimateIsKept ==
  ~FormShown =>
    LET ticket == tickets[form.created]
    IN /\ ticket.priority = estimatedPriority
       /\ ticket.minutes = 60 * SLA_RESOLVE_LABELS[estimatedPriority]
=============================================================================
